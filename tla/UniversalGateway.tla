---------------------------- MODULE UniversalGateway ----------------------------
(***************************************************************************)
(* The UniversalGateway contract of an external EVM chain: inbound         *)
(* universal transactions (deposits), their protocol fee and rate limits,  *)
(* the administration of the contract, and the refund entry points its     *)
(* Vault calls. One transaction is one action: a transaction that reverts  *)
(* has no effect, so every revert of the code is a guard.                  *)
(***************************************************************************)
EXTENDS ChainLedger, PriceOracle, FiniteSetsExt

CONSTANTS
    NATIVE,             \* address(0) as a token: the chain's native coin
    ZERO,               \* address(0) as an account
    ERC20s,             \* the ERC20 tokens
    WETH,               \* the ERC20 that unwraps one to one
    Users,              \* externally owned accounts, and contracts that are no CEA
    CEAs,               \* addresses of Chain Executor Accounts
    VaultAddresses,     \* addresses the VAULT can be set to
    TSSAddresses,       \* addresses the TSS can be set to
    GATEWAY,            \* this contract
    DEX,                \* the WETH contract and the Uniswap pools, as one account
    Factories,          \* addresses of CEA factories
    PushAccounts,       \* accounts on Push Chain (UEAs)
    NotCEA,             \* what a factory knows of an address that is no CEA of it
    PushAccountOf,      \* Factories -> CEAs -> mapped UEA, ZERO or NotCEA
    Requests,           \* the UniversalTxRequests callers make
    TokenRequests,      \* the UniversalTokenTxRequests callers make
    MsgValues,          \* the msg.values callers send
    SwapOuts,           \* WETH amounts a Uniswap swap may return
    Pools,              \* <<token, fee tier>> for the pools with WETH that exist
    UINT256, UINT192,   \* 2^256 and 2^192
    InitialTSS, InitialVault, InitialCaps, InitialEpochDuration, InitialStalePeriod,
    InitialBalances, InitialTime,
    Caps,               \* <<min, max>> USD caps the admin may set
    BlockCaps, Thresholds, Durations, Fees, FeeOrders, SwapDeadlines,
    Ticks,              \* seconds between two blocks
    MaxBlock            \* bound: the last block explored

Tokens == ERC20s \cup {NATIVE}
Accounts == Users \cup CEAs \cup VaultAddresses \cup TSSAddresses \cup {GATEWAY, DEX}

\* UniversalTxRequest; payload says whether there is one, signatureData is left out.
RequestType == [recipient : PushAccounts \cup {ZERO}, token : Tokens, amount : Nat,
                payload : BOOLEAN, revertRecipient : Accounts \cup {ZERO}]

\* UniversalTokenTxRequest: a request, and the tokens to swap for its native value.
TokenRequestType ==
    [req  : RequestType,
     swap : [gasToken : ERC20s, gasAmount : Nat, amountOutMinETH : Nat, deadline : Nat]]

ASSUME GatewayAssumption ==
    /\ NATIVE \notin ERC20s
    /\ GATEWAY \notin Users \cup CEAs \cup VaultAddresses \cup TSSAddresses \cup {DEX, ZERO}
    /\ DEX \notin Users \cup CEAs \cup VaultAddresses \cup TSSAddresses \cup {ZERO}
    /\ ZERO \notin Users \cup CEAs \cup VaultAddresses \cup TSSAddresses \cup PushAccounts
    /\ VaultAddresses \cap TSSAddresses = {}
    /\ PushAccountOf \in [Factories -> [CEAs -> PushAccounts \cup {ZERO, NotCEA}]]
    /\ ZERO \notin Factories /\ NotCEA \notin PushAccounts \cup {ZERO}
    /\ Requests \subseteq RequestType
    /\ TokenRequests \subseteq TokenRequestType
    /\ MsgValues \subseteq Nat /\ SwapOuts \subseteq Nat /\ Ticks \subseteq Nat
    /\ UINT256 \in Nat \ {0} /\ UINT192 \in Nat \ {0}
    /\ InitialTSS \in TSSAddresses /\ InitialVault \in VaultAddresses
    /\ InitialCaps \in Nat \X Nat /\ Caps \subseteq Nat \X Nat
    /\ InitialEpochDuration \in Nat \ {0} /\ InitialStalePeriod \in Nat
    /\ InitialBalances \in Ledgers(Tokens, Accounts)
    /\ InitialBalances[NATIVE][GATEWAY] = 0
    /\ \A t \in ERC20s : InitialBalances[t][GATEWAY] = 0
    /\ InitialTime \in Nat /\ MaxBlock \in Nat
    /\ BlockCaps \subseteq Nat /\ Thresholds \subseteq Nat /\ Durations \subseteq Nat
    /\ Fees \subseteq Nat /\ SwapDeadlines \subseteq Nat

\* No custody address is a caller: the Vault contract makes no deposits, and one the TSS made
\* would be announced though it only pays itself.
ASSUME CustodyAssumption ==
    /\ IsFiniteSet(TSSAddresses) /\ IsFiniteSet(VaultAddresses)
    /\ (Users \cup CEAs) \cap (TSSAddresses \cup VaultAddresses) = {}

VARIABLES
    paused, TSS_ADDRESS, VAULT,
    roleHolders,                \* the members of TSS_ROLE and of VAULT_ROLE
    CEA_FACTORY,
    capsUSD,                    \* [min, max]: MIN_ and MAX_CAP_UNIVERSAL_TX_USD
    BLOCK_USD_CAP, lastBlockNumber, consumedUSDinBlock,
    epochDurationSec, tokenToLimitThreshold,
    usage,                      \* token -> [epoch, used]
    INBOUND_FEE, totalProtocolFeesCollected,
    swapConfig,                 \* [routers : set or not, feeOrder, deadlineSec]
    isExecuted,                 \* the subTxIds already refunded
    \* the chain
    blockNumber, timestamp, bal,
    \* history, read by the properties only
    emittedGas,                 \* native announced by GAS and GAS_AND_PAYLOAD events
    emittedFunds,               \* token -> amount announced by FUNDS... events
    attributed,                 \* <<sender, recipient>> of the events of CEAs
    epochVolume,                \* token -> deposited in this epoch of this schedule
    blockSpend,                 \* USD of gas since the block began or the cap was enabled
    strandedValue               \* msg.value sent along with a token-gas call

roleVars    == <<TSS_ADDRESS, VAULT, roleHolders>>
limitConfig == <<capsUSD, BLOCK_USD_CAP, epochDurationSec, tokenToLimitThreshold>>
limitState  == <<lastBlockNumber, consumedUSDinBlock, usage>>
adminVars   == <<paused, roleVars, CEA_FACTORY, limitConfig, INBOUND_FEE, swapConfig>>
clockVars   == <<blockNumber, timestamp>>
eventVars   == <<emittedGas, emittedFunds, attributed, strandedValue>>
windowVars  == <<epochVolume, blockSpend>>
moneyVars   == <<totalProtocolFeesCollected, isExecuted, bal>>

vars == <<adminVars, limitState, moneyVars, clockVars, eventVars, windowVars, oracleVars>>

AdminTypeOK ==
    /\ paused \in BOOLEAN
    /\ TSS_ADDRESS \in TSSAddresses /\ VAULT \in VaultAddresses
    /\ roleHolders \in [{"TSS_ROLE", "VAULT_ROLE"} -> SUBSET (VaultAddresses \cup TSSAddresses)]
    /\ CEA_FACTORY \in Factories \cup {ZERO}
    /\ capsUSD \in [min : Nat, max : Nat]
    /\ BLOCK_USD_CAP \in Nat
    /\ epochDurationSec \in Nat \ {0}
    /\ tokenToLimitThreshold \in [Tokens -> Nat]
    /\ INBOUND_FEE \in Nat
    /\ swapConfig \in [routers : BOOLEAN, feeOrder : FeeOrders \cup {{}}, deadlineSec : Nat]

DepositTypeOK ==
    /\ lastBlockNumber \in Nat /\ consumedUSDinBlock \in Nat
    /\ usage \in [Tokens -> [epoch : Nat, used : 0 .. UINT192 - 1]]
    /\ totalProtocolFeesCollected \in Nat
    /\ bal \in Ledgers(Tokens, Accounts)
    /\ emittedGas \in Nat /\ emittedFunds \in [Tokens -> Nat]
    /\ attributed \subseteq CEAs \X (PushAccounts \cup {ZERO})
    /\ strandedValue \in Nat

WindowTypeOK ==
    /\ blockNumber \in Nat /\ timestamp \in Nat
    /\ epochVolume \in [Tokens -> Nat] /\ blockSpend \in Nat

TypeOK == AdminTypeOK /\ DepositTypeOK /\ WindowTypeOK /\ OracleTypeOK

\* initialize: no block cap, no fee, no supported token, no price feed, no CEA factory.
Init ==
    /\ paused = FALSE
    /\ TSS_ADDRESS = InitialTSS /\ VAULT = InitialVault
    /\ roleHolders = [TSS_ROLE |-> {InitialTSS}, VAULT_ROLE |-> {InitialVault}]
    /\ CEA_FACTORY = ZERO
    /\ capsUSD = [min |-> InitialCaps[1], max |-> InitialCaps[2]]
    /\ BLOCK_USD_CAP = 0 /\ lastBlockNumber = 0 /\ consumedUSDinBlock = 0
    /\ epochDurationSec = InitialEpochDuration
    /\ tokenToLimitThreshold = [t \in Tokens |-> 0]
    /\ usage = [t \in Tokens |-> [epoch |-> 0, used |-> 0]]
    /\ INBOUND_FEE = 0 /\ totalProtocolFeesCollected = 0
    /\ swapConfig \in [routers : BOOLEAN, feeOrder : {{}}, deadlineSec : SwapDeadlines]
    /\ isExecuted = {}
    /\ blockNumber = 1 /\ timestamp = InitialTime
    /\ bal = InitialBalances
    /\ emittedGas = 0 /\ emittedFunds = [t \in Tokens |-> 0] /\ attributed = {}
    /\ epochVolume = [t \in Tokens |-> 0] /\ blockSpend = 0 /\ strandedValue = 0
    /\ OracleInit(InitialTime, InitialStalePeriod)

--------------------------------------------------------------------------------
(* Limits. *)

\* _checkUSDCaps
CheckUSDCaps(gas) ==
    /\ QuoteAvailable(timestamp, gas)
    /\ QuoteEthAmountInUsd(gas) >= capsUSD.min
    /\ QuoteEthAmountInUsd(gas) <= capsUSD.max

\* The gas budget already used in this block; the stored figure counts only for its own block.
BlockUsedInverted == IF lastBlockNumber # blockNumber THEN consumedUSDinBlock ELSE 0
BlockUsed == IF lastBlockNumber = blockNumber THEN consumedUSDinBlock ELSE 0

\* _checkBlockUSDCap; a cap of 0 disables it, and then nothing is recorded either. (Its
\* unchecked sum would wrap only for caps above 2^255.)
WithinBlockUSDCap(gas) ==
    BLOCK_USD_CAP # 0 =>
        /\ QuoteAvailable(timestamp, gas)
        /\ BlockUsed + QuoteEthAmountInUsd(gas) <= BLOCK_USD_CAP

CheckBlockUSDCap(gas) ==
    IF BLOCK_USD_CAP = 0 \/ gas = 0
    THEN UNCHANGED <<lastBlockNumber, consumedUSDinBlock>>
    ELSE /\ WithinBlockUSDCap(gas)
         /\ lastBlockNumber' = blockNumber
         /\ consumedUSDinBlock' = BlockUsed + QuoteEthAmountInUsd(gas)

\* The epoch the clock is in, and what the stored usage amounts to in it, which is also what
\* currentTokenUsage reports as used.
EpochAt(time, duration) == time \div duration
CurrentEpoch == EpochAt(timestamp, epochDurationSec)
UsedNow(token) == IF usage[token].epoch = CurrentEpoch THEN usage[token].used ELSE 0

\* The unchecked uint256 sum of _consumeRateLimit.
NewUsed(token, amount) == (UsedNow(token) + amount) % UINT256

WithinRateLimit(token, amount) ==
    /\ tokenToLimitThreshold[token] # 0
    /\ NewUsed(token, amount) <= tokenToLimitThreshold[token]

\* What _consumeRateLimit stores, truncated to uint192.
RecordedUsageLatest(token, amount) == [epoch |-> CurrentEpoch, used |-> amount % UINT192]
RecordedUsage(token, amount) ==
    [epoch |-> CurrentEpoch, used |-> NewUsed(token, amount) % UINT192]

ConsumeRateLimit(token, amount) ==
    /\ epochDurationSec # 0
    /\ WithinRateLimit(token, amount)
    /\ usage' = [usage EXCEPT ![token] = RecordedUsage(token, amount)]

\* getMinMaxValueForNative
MinValueForNative == (capsUSD.min * WAD) \div round.answer
MaxValueForNative == (capsUSD.max * WAD) \div round.answer

--------------------------------------------------------------------------------
(* Inference and routing. *)

\* _fetchTxType, on the native value before the fee is taken; "NONE" where it reverts.
FetchTxType(req, nativeValue) ==
    CASE req.amount = 0 /\ req.payload                    -> "GAS_AND_PAYLOAD"
      [] req.amount = 0 /\ ~req.payload /\ nativeValue > 0 -> "GAS"
      [] /\ req.amount > 0
         /\ req.token = NATIVE => nativeValue > 0          -> IF req.payload
                                                              THEN "FUNDS_AND_PAYLOAD"
                                                              ELSE "FUNDS"
      [] OTHER                                             -> "NONE"

IsFunds(txType) == txType \in {"FUNDS", "FUNDS_AND_PAYLOAD"}

\* _collectInboundFee; _routeUniversalTx skips it for a CEA.
InboundFee(fromCEA) == IF fromCEA THEN 0 ELSE INBOUND_FEE
FeeOptional(nativeValue, fee) == TRUE
FeeCovered(nativeValue, fee) == nativeValue >= fee

\* The part of the native value after the fee that travels as gas: all of it, except that
\* native funds come out of the same msg.value.
GasLegWhole(req, txType, native) == native
GasLeg(req, txType, native) ==
    IF IsFunds(txType) /\ req.token = NATIVE THEN native - req.amount ELSE native

FundsLeg(req, txType) == IF IsFunds(txType) THEN req.amount ELSE 0

\* _sendTxWithFunds: native FUNDS must match the value exactly, native FUNDS_AND_PAYLOAD
\* may carry gas on top.
SplitAllowed(req, txType, native) ==
    /\ txType = "FUNDS" /\ req.token = NATIVE => native = req.amount
    /\ txType = "FUNDS_AND_PAYLOAD" /\ req.token = NATIVE => native > 0 /\ native >= req.amount

\* _handleDeposits: native goes from the gateway to the TSS, an ERC20 from the caller to the Vault.
DepositAllowed(b, caller, token, amount) ==
    token # NATIVE => /\ tokenToLimitThreshold[token] # 0
                      /\ CanPay(b, token, caller, amount)
DepositedToSelf(b, caller, token, amount) ==
    IF token = NATIVE THEN Transfer(b, NATIVE, GATEWAY, TSS_ADDRESS, amount)
    ELSE Transfer(b, token, caller, GATEWAY, amount)
Deposited(b, caller, token, amount) ==
    IF token = NATIVE THEN Transfer(b, NATIVE, GATEWAY, TSS_ADDRESS, amount)
    ELSE Transfer(b, token, caller, VAULT, amount)

\* The recipients of the two events: 0 lets Push Chain credit the UEA of the sender, so
\* the events of a CEA name the mapped UEA instead.
GasRecipient(req, fromCEA) == IF fromCEA THEN req.recipient ELSE ZERO
FundsRecipient(req, txType, fromCEA) ==
    IF txType = "FUNDS" \/ fromCEA THEN req.recipient ELSE ZERO

\* History: the UniversalTx events of one call (_emitUniversalTx).
EmitUniversalTx(caller, req, txType, gas, fromCEA) ==
    LET funds == FundsLeg(req, txType)
        gasEvent   == IF gas > 0 \/ ~IsFunds(txType) THEN {GasRecipient(req, fromCEA)} ELSE {}
        fundsEvent == IF IsFunds(txType) THEN {FundsRecipient(req, txType, fromCEA)} ELSE {}
    IN  /\ emittedGas' = emittedGas + gas
        /\ emittedFunds' = [emittedFunds EXCEPT ![req.token] = @ + funds]
        /\ attributed' = attributed \cup
               (IF caller \in CEAs THEN {caller} \X (gasEvent \cup fundsEvent) ELSE {})
        /\ epochVolume' = [epochVolume EXCEPT ![req.token] = @ + funds]
        /\ blockSpend' = blockSpend + QuoteEthAmountInUsd(gas)

\* _sendTxWithGas and _sendTxWithFunds on the value left after the fee, from ledger b.
\* An event's amount may be 0: a GAS_AND_PAYLOAD, or a GAS that only covered the fee.
SendLegs(b, caller, req, txType, native, fromCEA) ==
    LET gas   == GasLeg(req, txType, native)
        paid  == Deposited(b, caller, NATIVE, gas)
        funds == FundsLeg(req, txType)
    IN  /\ SplitAllowed(req, txType, native)
        /\ gas > 0 => CheckUSDCaps(gas)
        /\ CheckBlockUSDCap(gas)
        /\ IF IsFunds(txType)
           THEN /\ ConsumeRateLimit(req.token, funds)
                /\ DepositAllowed(paid, caller, req.token, funds)
                /\ bal' = Deposited(paid, caller, req.token, funds)
           ELSE /\ bal' = paid
                /\ UNCHANGED usage
        /\ EmitUniversalTx(caller, req, txType, gas, fromCEA)

\* _routeUniversalTx, from the ledger b in which the gateway holds the native value.
RouteUniversalTx(b, caller, req, nativeValue, fromCEA) ==
    LET txType == FetchTxType(req, nativeValue)
        fee    == InboundFee(fromCEA)
    IN  /\ txType # "NONE"
        /\ req.revertRecipient # ZERO
        /\ FeeCovered(nativeValue, fee)
        /\ totalProtocolFeesCollected' = totalProtocolFeesCollected + fee
        /\ SendLegs(Transfer(b, NATIVE, GATEWAY, TSS_ADDRESS, fee),
                    caller, req, txType, nativeValue - fee, fromCEA)
        /\ UNCHANGED <<adminVars, clockVars, oracleVars, isExecuted>>

--------------------------------------------------------------------------------
(* Entry points of callers. *)

\* _isCallerCEA
IsCEA(factory, caller) ==
    factory # ZERO /\ caller \in CEAs /\ PushAccountOf[factory][caller] # NotCEA

\* sendUniversalTx(UniversalTxRequest), from the ledger b the caller calls in
SendUniversalTx(b, caller, req, value) ==
    /\ ~paused
    /\ ~IsCEA(CEA_FACTORY, caller)
    /\ CanPay(b, NATIVE, caller, value)
    /\ RouteUniversalTx(Transfer(b, NATIVE, caller, GATEWAY, value), caller, req, value, FALSE)
    /\ UNCHANGED strandedValue

\* _findV3PoolWithNative: some configured fee tier has a pool.
PoolExists(token) == \E tier \in swapConfig.feeOrder : <<token, tier>> \in Pools

\* swapToNative returns ethOut: WETH unwraps one to one, a pool returns what it returns.
SwapToNative(swap, ethOut) ==
    /\ swap.amountOutMinETH # 0
    /\ swap.deadline # 0 => swap.deadline >= timestamp
    /\ swapConfig.routers
    /\ IF swap.gasToken = WETH THEN ethOut = swap.gasAmount ELSE PoolExists(swap.gasToken)
    /\ ethOut >= swap.amountOutMinETH

\* The ledger after the swap: the caller's gas tokens against native coin for the gateway.
Swapped(b, caller, swap, ethOut) ==
    Transfer(Transfer(b, swap.gasToken, caller, DEX, swap.gasAmount), NATIVE, DEX, GATEWAY, ethOut)

\* sendUniversalTx(UniversalTokenTxRequest): payable, but only what the swap returns is
\* routed; msg.value itself is not read.
SendUniversalTxWithToken(caller, req, swap, ethOut, value) ==
    /\ ~paused
    /\ ~IsCEA(CEA_FACTORY, caller)
    /\ CanPay(bal, NATIVE, caller, value)
    /\ swap.gasAmount # 0
    /\ SwapToNative(swap, ethOut)
    /\ CanPay(bal, swap.gasToken, caller, swap.gasAmount)
    /\ CanPay(bal, NATIVE, DEX, ethOut)
    /\ RouteUniversalTx(
           Swapped(Transfer(bal, NATIVE, caller, GATEWAY, value), caller, swap, ethOut),
           caller, req, ethOut, FALSE)
    /\ strandedValue' = strandedValue + value

\* The checks sendUniversalTxFromCEA adds: a CEA of the factory, naming its own UEA.
CEAMaySendToAny(caller, req) ==
    IsCEA(CEA_FACTORY, caller) /\ PushAccountOf[CEA_FACTORY][caller] # ZERO
CEAMaySend(caller, req) ==
    /\ IsCEA(CEA_FACTORY, caller)
    /\ PushAccountOf[CEA_FACTORY][caller] # ZERO
    /\ req.recipient = PushAccountOf[CEA_FACTORY][caller]

\* sendUniversalTxFromCEA, from the ledger b the CEA calls in
SendUniversalTxFromCEA(b, caller, req, value) ==
    /\ ~paused
    /\ CEAMaySend(caller, req)
    /\ CanPay(b, NATIVE, caller, value)
    /\ RouteUniversalTx(Transfer(b, NATIVE, caller, GATEWAY, value), caller, req, value, TRUE)
    /\ UNCHANGED strandedValue

--------------------------------------------------------------------------------
(* Refund entry points, called by the Vault (module Vault). *)

\* whenNotPaused and onlyRole(VAULT_ROLE)
RefundAccessUnpaused(caller) == ~paused
RefundAccess(caller) == ~paused /\ caller \in roleHolders["VAULT_ROLE"]

FreshUnchecked(subTxId) == TRUE
Fresh(subTxId) == subTxId \notin isExecuted

\* _validateRevertParams and the payout shared by revertUniversalTx and rescueFunds, from
\* the ledger b in which the call's value and tokens have reached the gateway.
Refund(b, caller, subTxId, token, amount, revertRecipient, value) ==
    /\ RefundAccess(caller)
    /\ Fresh(subTxId)
    /\ revertRecipient # ZERO
    /\ amount # 0
    /\ token = NATIVE => value = amount
    /\ CanPay(b, token, GATEWAY, amount)
    /\ isExecuted' = isExecuted \cup {subTxId}
    /\ bal' = Transfer(b, token, GATEWAY, revertRecipient, amount)
    /\ UNCHANGED <<adminVars, limitState, totalProtocolFeesCollected, clockVars, eventVars,
                   windowVars, oracleVars>>

--------------------------------------------------------------------------------
(* Administration: each operation by the holder of its role. *)

nonAdminVars == <<limitState, moneyVars, clockVars, eventVars>>

\* pause and unpause
SetPaused ==
    /\ paused' = ~paused
    /\ UNCHANGED <<roleVars, CEA_FACTORY, limitConfig, INBOUND_FEE, swapConfig,
                   nonAdminVars, windowVars, oracleVars>>

\* A role after its transfer from old to new.
MovedRoleGrantFirst(holders, old, new) == (holders \cup {new}) \ {old}
MovedRole(holders, old, new) == (holders \ {old}) \cup {new}

\* setTSS
SetTSS(new) ==
    /\ TSS_ADDRESS' = new
    /\ roleHolders' = [roleHolders EXCEPT !["TSS_ROLE"] = MovedRole(@, TSS_ADDRESS, new)]
    /\ UNCHANGED <<paused, VAULT, CEA_FACTORY, limitConfig, INBOUND_FEE, swapConfig,
                   nonAdminVars, windowVars, oracleVars>>

\* setVault, which does not ask for the gateway to be paused
SetVault(new) ==
    /\ VAULT' = new
    /\ roleHolders' = [roleHolders EXCEPT !["VAULT_ROLE"] = MovedRole(@, VAULT, new)]
    /\ UNCHANGED <<paused, TSS_ADDRESS, CEA_FACTORY, limitConfig, INBOUND_FEE, swapConfig,
                   nonAdminVars, windowVars, oracleVars>>

\* setCEAFactory
SetCEAFactory(factory) ==
    /\ CEA_FACTORY' = factory
    /\ UNCHANGED <<paused, roleVars, limitConfig, INBOUND_FEE, swapConfig,
                   nonAdminVars, windowVars, oracleVars>>

\* setCapsUSD
SetCapsUSD(caps) ==
    /\ ~paused
    /\ caps[1] <= caps[2]
    /\ capsUSD' = [min |-> caps[1], max |-> caps[2]]
    /\ UNCHANGED <<paused, roleVars, CEA_FACTORY, BLOCK_USD_CAP, epochDurationSec,
                   tokenToLimitThreshold, INBOUND_FEE, swapConfig, nonAdminVars, windowVars,
                   oracleVars>>

\* setBlockUsdCap; a budget switched on again starts a new window of the history variable
SetBlockUsdCap(cap) ==
    /\ ~paused
    /\ BLOCK_USD_CAP' = cap
    /\ blockSpend' = IF BLOCK_USD_CAP = 0 THEN 0 ELSE blockSpend
    /\ UNCHANGED <<paused, roleVars, CEA_FACTORY, capsUSD, epochDurationSec,
                   tokenToLimitThreshold, INBOUND_FEE, swapConfig, nonAdminVars, epochVolume,
                   oracleVars>>

\* setTokenLimitThresholds, a batch at a time; what the tokens used so far stays
SetTokenLimitThresholds(batch) ==
    /\ tokenToLimitThreshold' =
           [t \in Tokens |-> IF t \in DOMAIN batch THEN batch[t] ELSE tokenToLimitThreshold[t]]
    /\ UNCHANGED <<paused, roleVars, CEA_FACTORY, capsUSD, BLOCK_USD_CAP, epochDurationSec,
                   INBOUND_FEE, swapConfig, nonAdminVars, windowVars, oracleVars>>

\* updateEpochDuration, which touches no usage; the history variable follows the new schedule
UpdateEpochDuration(sec) ==
    /\ ~paused
    /\ sec # 0
    /\ epochDurationSec' = sec
    /\ epochVolume' = [t \in Tokens |-> 0]
    /\ UNCHANGED <<paused, roleVars, CEA_FACTORY, capsUSD, BLOCK_USD_CAP,
                   tokenToLimitThreshold, INBOUND_FEE, swapConfig, nonAdminVars, blockSpend,
                   oracleVars>>

\* setProtocolFee
SetProtocolFee(fee) ==
    /\ INBOUND_FEE' = fee
    /\ UNCHANGED <<paused, roleVars, CEA_FACTORY, limitConfig, swapConfig, nonAdminVars,
                   windowVars, oracleVars>>

\* setDefaultSwapDeadline, setRouters, setV3FeeOrder
ConfigureSwap(config) ==
    /\ ~paused
    /\ \/ config = [swapConfig EXCEPT !.deadlineSec = config.deadlineSec] /\ config.deadlineSec # 0
       \/ config = [swapConfig EXCEPT !.routers = TRUE]
       \/ config = [swapConfig EXCEPT !.feeOrder = config.feeOrder]
    /\ swapConfig' = config
    /\ UNCHANGED <<paused, roleVars, CEA_FACTORY, limitConfig, INBOUND_FEE, nonAdminVars,
                   windowVars, oracleVars>>

SwapConfigs == [routers : BOOLEAN, feeOrder : FeeOrders \cup {{}}, deadlineSec : SwapDeadlines]

\* setEthUsdFeed, setChainlinkStalePeriod, setL2SequencerFeed, setL2SequencerGracePeriod
ConfigureOracle ==
    /\ ~paused
    /\ \/ SetEthUsdFeed
       \/ \E sec \in StalePeriods : SetChainlinkStalePeriod(sec)
       \/ \E isSet \in BOOLEAN : SetL2SequencerFeed(isSet)
       \/ \E sec \in GracePeriods : SetL2SequencerGracePeriod(sec)
    /\ UNCHANGED <<adminVars, nonAdminVars, windowVars, round, sequencer>>

--------------------------------------------------------------------------------
(* The chain around the contract. *)

\* A block is mined: windows of the history variables that ended start again.
NewBlock(sec) ==
    /\ blockNumber < MaxBlock
    /\ blockNumber' = blockNumber + 1
    /\ timestamp' = timestamp + sec
    /\ blockSpend' = 0
    /\ epochVolume' = IF EpochAt(timestamp + sec, epochDurationSec) = CurrentEpoch
                      THEN epochVolume ELSE [t \in Tokens |-> 0]
    /\ UNCHANGED <<adminVars, limitState, moneyVars, eventVars, oracleVars>>

\* Chainlink posts a price, or reports the sequencer down or up.
OracleMoves ==
    /\ \/ \E answer \in Prices, complete \in BOOLEAN : PostRound(timestamp, answer, complete)
       \/ SequencerFlips(timestamp)
    /\ UNCHANGED <<adminVars, limitState, moneyVars, clockVars, eventVars, windowVars>>

CallsFrom(callers) ==
    \/ \E caller \in callers, req \in Requests, value \in MsgValues :
           SendUniversalTx(bal, caller, req, value)
    \/ \E caller \in callers, reqToken \in TokenRequests, value \in MsgValues :
           \E ethOut \in SwapOuts \cup {reqToken.swap.gasAmount} :
               SendUniversalTxWithToken(caller, reqToken.req, reqToken.swap, ethOut, value)
    \/ \E caller \in callers, req \in Requests, value \in MsgValues :
           SendUniversalTxFromCEA(bal, caller, req, value)

CallerStep == CallsFrom(Users \cup CEAs)

AdminStep ==
    \/ SetPaused
    \/ \E new \in TSSAddresses : SetTSS(new)
    \/ \E new \in VaultAddresses : SetVault(new)
    \/ \E factory \in Factories : SetCEAFactory(factory)
    \/ \E caps \in Caps : SetCapsUSD(caps)
    \/ \E cap \in BlockCaps : SetBlockUsdCap(cap)
    \/ \E tokens \in SUBSET Tokens : \E batch \in [tokens -> Thresholds] :
           SetTokenLimitThresholds(batch)
    \/ \E sec \in Durations : UpdateEpochDuration(sec)
    \/ \E fee \in Fees : SetProtocolFee(fee)
    \/ \E config \in SwapConfigs : ConfigureSwap(config)
    \/ ConfigureOracle

ChainStep == OracleMoves \/ \E sec \in Ticks : NewBlock(sec)

Next == CallerStep \/ AdminStep \/ ChainStep

Spec == Init /\ [][Next]_vars

--------------------------------------------------------------------------------
(* Properties. *)

Funded(token, accounts) == MapThenSumSet(LAMBDA a : bal[token][a], accounts)
InitiallyFunded(token, accounts) == MapThenSumSet(LAMBDA a : InitialBalances[token][a], accounts)

\* What the events announce to Push Chain is what custody received: the TSS addresses hold
\* the native amounts of all events plus the fees, the Vault addresses the ERC20 amounts.
\* A split of msg.value that loses or doubles wei, or a deposit without its event, breaks it.
EventsBacked ==
    /\ Funded(NATIVE, TSSAddresses) =
           InitiallyFunded(NATIVE, TSSAddresses)
           + totalProtocolFeesCollected + emittedGas + emittedFunds[NATIVE]
    /\ \A t \in ERC20s : Funded(t, VaultAddresses) =
           InitiallyFunded(t, VaultAddresses) + emittedFunds[t]

\* Between transactions the gateway keeps no user money: no ERC20 at all, and of the native
\* coin only what callers sent along with a token-gas call, which that call never reads.
GatewayPassesEverythingOn ==
    /\ bal[NATIVE][GATEWAY] = strandedValue
    /\ \A t \in ERC20s : bal[t][GATEWAY] = 0

\* The address the gateway deposits to is the one address that holds the matching role,
\* whatever rotations happened, a rotation to the present address included.
RolesFollowAddresses ==
    roleHolders["TSS_ROLE"] = {TSS_ADDRESS} /\ roleHolders["VAULT_ROLE"] = {VAULT}

\* The rate limit works on the calendar: when a deposit of a token goes through, all
\* deposits of it in the present epoch (of the present schedule) fit its threshold, whatever
\* the lazily reset counter, earlier thresholds, schedules and the uint casts did.
EpochQuotaHolds ==
    [][\A t \in Tokens : emittedFunds'[t] # emittedFunds[t] =>
           epochVolume'[t] <= tokenToLimitThreshold[t]]_vars

\* With the block cap on, the gas of one block is worth at most the cap in force at each
\* deposit, counted from the start of the block or from the moment the cap was switched on.
BlockBudgetHolds ==
    [][emittedGas' # emittedGas /\ BLOCK_USD_CAP # 0 => blockSpend' <= BLOCK_USD_CAP]_vars

\* No call moves more native coin by the instant route than the USD maximum, or less than
\* the minimum, whichever of the request shapes carried it.
GasWithinCaps ==
    [][emittedGas' # emittedGas =>
           LET usd == QuoteEthAmountInUsd(emittedGas' - emittedGas)
           IN  capsUSD.min <= usd /\ usd <= capsUSD.max]_vars

\* While a factory vouches for a CEA, every event with that CEA as sender names the mapped
\* UEA, so that Push Chain never derives a second UEA from the CEA's own address.
CEAEventsNameTheirUEA ==
    [][\A e \in attributed' \ attributed :
           IsCEA(CEA_FACTORY, e[1]) => e[2] = PushAccountOf[CEA_FACTORY][e[1]]]_vars

================================================================================
