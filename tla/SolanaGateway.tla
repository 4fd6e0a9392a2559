----------------------------- MODULE SolanaGateway -----------------------------
(***************************************************************************)
(* The universal-gateway program on Solana: deposits, their protocol fee,  *)
(* caps and rate limits, and the administration of the program. The        *)
(* releases signed by the TSS are in module SolanaReleases. An instruction *)
(* is one action: it holds the locks of the accounts it writes, and when   *)
(* it fails nothing it did remains.                                        *)
(***************************************************************************)
EXTENDS ChainLedger, FiniteSetsExt

CONSTANTS
    SOL,                \* Pubkey::default() as a token: native lamports
    Mints,              \* SPL mints
    DEFAULT,            \* Pubkey::default() as an account
    SolUsers, Relayers,
    PushUsers,          \* Push Chain accounts; as a Solana account, the CEA derived from one
    VAULT_PDA, FEE_VAULT,
    TssStates,          \* <<ETH address, chain id>> the TSS PDA can hold
    SolRequests,        \* requests users make
    NativeAmounts,      \* native_amount of a deposit
    PriceFeeds,         \* Pyth accounts the admin can choose
    PythPrices,         \* <<price, confidence>> the feed may publish
    LAMPORTS_PER_SOL, MAX_PRICE_AGE_SECONDS,
    RENT,               \* rent-exempt minimum of the fee vault
    StartCaps, DefaultConfidence, StartBalances, StartTime,
    SolCaps, SlotCaps, EpochDurations, TokenLimits, ProtocolFees, Confidences,
    SlotTicks,          \* seconds a slot may take
    MaxSlot             \* bound: the last slot explored

SolTokens   == Mints \cup {SOL}
SolAccounts == SolUsers \cup Relayers \cup PushUsers \cup {VAULT_PDA, FEE_VAULT}

\* UniversalTxRequest; the recipient of a plain FUNDS deposit is not tracked.
SolRequestType == [token : SolTokens, amount : Nat, payload : BOOLEAN,
                   revertRecipient : SolAccounts \cup {DEFAULT}]

ASSUME SolanaAssumption ==
    /\ SOL \notin Mints
    /\ {"fee_vault", "rate_limit_config", "tss_pda"} \cap SolTokens = {}
    /\ VAULT_PDA # FEE_VAULT
    /\ {VAULT_PDA, FEE_VAULT} \cap (SolUsers \cup Relayers \cup PushUsers) = {}
    /\ PushUsers \cap (SolUsers \cup Relayers) = {}
    /\ DEFAULT \notin SolAccounts
    /\ SolRequests \subseteq SolRequestType
    /\ NativeAmounts \subseteq Nat
    /\ PythPrices \subseteq Int \X Nat
    /\ LAMPORTS_PER_SOL \in Nat \ {0} /\ MAX_PRICE_AGE_SECONDS \in Nat /\ RENT \in Nat
    /\ StartCaps \in Nat \X Nat /\ StartCaps[1] <= StartCaps[2]
    /\ DefaultConfidence \in Nat \ {0} /\ StartTime \in Nat /\ MaxSlot \in Nat
    /\ StartBalances \in Ledgers(SolTokens, SolAccounts)
    /\ StartBalances[SOL][FEE_VAULT] = 0
    /\ SolCaps \subseteq Nat \X Nat /\ SlotCaps \subseteq Nat /\ EpochDurations \subseteq Nat
    /\ TokenLimits \subseteq Nat /\ ProtocolFees \subseteq Nat /\ Confidences \subseteq Nat
    /\ SlotTicks \subseteq Nat

VARIABLES
    created,            \* accounts that exist: "fee_vault", "rate_limit_config", "tss_pda",
                        \* and the rate limit accounts of tokens
    config,             \* [paused, min, max, priceFeed, confidence]
    protocolFee,        \* protocol_fee_lamports
    rateConfig,         \* [blockUsdCap, epochDuration, lastSlot, consumed]
    tokenRateLimit,     \* token -> [limit, epoch, used]
    tss,                \* tss_eth_address and chain_id
    executed,           \* sub_tx_ids with an executed_sub_tx account
    lamports,           \* token -> account -> balance
    slot, unixTime,
    pyth,               \* feed -> [price, conf, publishTime]
    \* history, read by the properties only
    gasEvents,          \* lamports announced by GAS and GAS_AND_PAYLOAD events
    fundsEvents,        \* token -> amount announced by FUNDS... events
    feesCollected,      \* protocol fees paid into the fee vault
    solEpochVolume,     \* token -> deposited in this epoch since its limit was last set
    slotSpend           \* USD of gas since the slot began or the cap was enabled

solConfigVars == <<created, config, protocolFee, tss>>
solLimitVars  == <<rateConfig, tokenRateLimit>>
solEventVars  == <<gasEvents, fundsEvents, feesCollected>>
solWindowVars == <<solEpochVolume, slotSpend>>
solClockVars  == <<slot, unixTime, pyth>>
solVars == <<solConfigVars, solLimitVars, executed, lamports, solEventVars, solWindowVars,
             solClockVars>>

SolTypeOK ==
    /\ created \subseteq {"fee_vault", "rate_limit_config", "tss_pda"} \cup SolTokens
    /\ config \in [paused : BOOLEAN, min : Nat, max : Nat, priceFeed : PriceFeeds,
                   confidence : Nat]
    /\ protocolFee \in Nat
    /\ rateConfig \in [blockUsdCap : Nat, epochDuration : Nat, lastSlot : Nat, consumed : Nat]
    /\ tokenRateLimit \in [SolTokens -> [limit : Nat, epoch : Nat, used : Nat]]
    /\ tss \in TssStates
    /\ lamports \in Ledgers(SolTokens, SolAccounts)
    /\ slot \in Nat /\ unixTime \in Nat
    /\ pyth \in [PriceFeeds -> [price : Int, conf : Nat, publishTime : Nat]]
    /\ gasEvents \in Nat /\ fundsEvents \in [SolTokens -> Nat] /\ feesCollected \in Nat
    /\ solEpochVolume \in [SolTokens -> Nat] /\ slotSpend \in Nat

\* initialize; the other accounts are created by the instructions that first need them.
SolInit ==
    /\ created = {}
    /\ config \in [paused : {FALSE}, min : {StartCaps[1]}, max : {StartCaps[2]},
                   priceFeed : PriceFeeds, confidence : {DefaultConfidence}]
    /\ protocolFee = 0
    /\ rateConfig = [blockUsdCap |-> 0, epochDuration |-> 0, lastSlot |-> 0, consumed |-> 0]
    /\ tokenRateLimit = [t \in SolTokens |-> [limit |-> 0, epoch |-> 0, used |-> 0]]
    /\ tss \in TssStates
    /\ executed = {}
    /\ lamports = StartBalances
    /\ slot = 1 /\ unixTime = StartTime
    /\ pyth \in [PriceFeeds -> [price : {p[1] : p \in PythPrices}, conf : {0},
                                publishTime : {StartTime}]]
    /\ gasEvents = 0 /\ fundsEvents = [t \in SolTokens |-> 0] /\ feesCollected = 0
    /\ solEpochVolume = [t \in SolTokens |-> 0] /\ slotSpend = 0

--------------------------------------------------------------------------------
(* Prices and limits. *)

\* calculate_sol_price, from the account the config names.
Round == pyth[config.priceFeed]
SolPriceAvailable ==
    /\ Round.publishTime + MAX_PRICE_AGE_SECONDS >= unixTime
    /\ Round.price > 0

\* calculate_usd_amount, for a feed with the exponent -8
UsdAmount(amount) == (amount * Round.price) \div LAMPORTS_PER_SOL

\* check_usd_caps
CheckSolUsdCaps(gas) ==
    /\ SolPriceAvailable
    /\ config.confidence > 0 => Round.conf <= config.confidence
    /\ UsdAmount(gas) >= config.min
    /\ UsdAmount(gas) <= config.max

\* check_block_usd_cap: the consumption stored counts for its own slot only.
SlotConsumedInverted == IF rateConfig.lastSlot = slot THEN 0 ELSE rateConfig.consumed
SlotConsumed == IF rateConfig.lastSlot = slot THEN rateConfig.consumed ELSE 0

CheckSlotUsdCap(gas) ==
    IF gas = 0 \/ rateConfig.blockUsdCap = 0
    THEN UNCHANGED rateConfig
    ELSE /\ SlotConsumed + UsdAmount(gas) <= rateConfig.blockUsdCap
         /\ rateConfig' = [rateConfig EXCEPT !.lastSlot = slot,
                                             !.consumed = SlotConsumed + UsdAmount(gas)]

\* consume_rate_limit resets when the epoch index has grown, and only then.
SolEpoch == unixTime \div rateConfig.epochDuration
EpochUsageForgotten(token) == [tokenRateLimit[token] EXCEPT !.epoch = SolEpoch, !.used = 0]
EpochUsage(token) ==
    IF SolEpoch > tokenRateLimit[token].epoch
    THEN [tokenRateLimit[token] EXCEPT !.epoch = SolEpoch, !.used = 0]
    ELSE tokenRateLimit[token]

\* validate_token_and_consume_rate_limit; an epoch duration of 0 switches the quota off.
WithinSolLimit(token, amount) ==
    /\ token \in created
    /\ tokenRateLimit[token].limit > 0
    /\ rateConfig.epochDuration > 0 =>
           EpochUsage(token).used + amount <= tokenRateLimit[token].limit

ConsumeSolLimit(token, amount) ==
    /\ WithinSolLimit(token, amount)
    /\ tokenRateLimit' =
           IF rateConfig.epochDuration = 0 THEN tokenRateLimit
           ELSE [tokenRateLimit EXCEPT
                    ![token] = [EpochUsage(token) EXCEPT !.used = @ + amount]]

--------------------------------------------------------------------------------
(* Deposits. *)

\* fetch_tx_type, on the native amount left after the fee; "NONE" where it fails.
FetchSolTxType(req, native) ==
    CASE req.amount = 0 /\ req.payload                   -> "GAS_AND_PAYLOAD"
      [] req.amount = 0 /\ ~req.payload /\ native > 0    -> "GAS"
      [] /\ req.amount > 0 /\ req.payload
         /\ req.token = SOL => native >= req.amount      -> "FUNDS_AND_PAYLOAD"
      [] /\ req.amount > 0 /\ ~req.payload
         /\ native = IF req.token = SOL THEN req.amount ELSE 0 -> "FUNDS"
      [] OTHER                                           -> "NONE"

SolFunds(req, txType) == IF txType \in {"FUNDS", "FUNDS_AND_PAYLOAD"} THEN req.amount ELSE 0

\* The native amount that travels as gas: what the funds leave over.
SolGas(req, txType, native) ==
    IF req.token = SOL THEN native - SolFunds(req, txType) ELSE native

\* collect_protocol_fee, then the gas leg and the funds leg into the vault.
FeeTaken(b, user, fee) == Transfer(b, SOL, user, FEE_VAULT, fee)
SolDeposited(b, user, token, amount) == Transfer(b, token, user, VAULT_PDA, amount)

\* History: a funds event, of a user or of a CEA.
SolFundsEvent(token, amount) ==
    /\ fundsEvents' = [fundsEvents EXCEPT ![token] = @ + amount]
    /\ solEpochVolume' = [solEpochVolume EXCEPT ![token] = @ + amount]

\* send_universal_tx
SendSolUniversalTx(user, req, nativeAmount) ==
    LET native == nativeAmount - protocolFee
        txType == FetchSolTxType(req, native)
        gas    == SolGas(req, txType, native)
        funds  == SolFunds(req, txType)
        paid   == SolDeposited(FeeTaken(lamports, user, protocolFee), user, SOL, gas)
    IN  /\ ~config.paused
        /\ {"fee_vault", "rate_limit_config"} \subseteq created /\ created \cap SolTokens # {}
        /\ CanPay(lamports, SOL, user, nativeAmount)
        /\ nativeAmount >= protocolFee
        /\ txType # "NONE"
        /\ req.revertRecipient # DEFAULT
        /\ gas > 0 => CheckSolUsdCaps(gas)
        /\ CheckSlotUsdCap(gas)
        /\ IF funds > 0
           THEN /\ ConsumeSolLimit(req.token, funds)
                /\ CanPay(paid, req.token, user, funds)
           ELSE UNCHANGED tokenRateLimit
        /\ lamports' = SolDeposited(paid, user, req.token, funds)
        /\ SolFundsEvent(req.token, funds)
        /\ gasEvents' = gasEvents + gas
        /\ slotSpend' = slotSpend + UsdAmount(gas)
        /\ feesCollected' = feesCollected + protocolFee
        /\ UNCHANGED <<solConfigVars, executed, solClockVars>>

--------------------------------------------------------------------------------
(* Administration: each instruction signed by the authority it asks for. *)

solMoneyVars == <<executed, lamports, solEventVars, solClockVars>>

\* pause and unpause
SetSolPaused ==
    /\ config' = [config EXCEPT !.paused = ~@]
    /\ UNCHANGED <<created, protocolFee, tss, solLimitVars, solMoneyVars, solWindowVars>>

\* set_caps_usd, set_pyth_price_feed, set_pyth_confidence_threshold
SetSolConfig(new) ==
    /\ ~config.paused
    /\ \/ new = [config EXCEPT !.min = new.min, !.max = new.max] /\ new.min <= new.max
       \/ new = [config EXCEPT !.priceFeed = new.priceFeed]
       \/ new = [config EXCEPT !.confidence = new.confidence] /\ new.confidence > 0
    /\ config' = new
    /\ UNCHANGED <<created, protocolFee, tss, solLimitVars, solMoneyVars, solWindowVars>>

SolConfigs == {[config EXCEPT !.min = caps[1], !.max = caps[2]] : caps \in SolCaps}
              \cup {[config EXCEPT !.priceFeed = feed] : feed \in PriceFeeds}
              \cup {[config EXCEPT !.confidence = conf] : conf \in Confidences}

\* set_protocol_fee, in a pause too; the first call creates the fee vault with its rent.
SetSolProtocolFee(fee) ==
    /\ protocolFee' = fee
    /\ created' = created \cup {"fee_vault"}
    /\ lamports' = IF "fee_vault" \in created THEN lamports
                   ELSE [lamports EXCEPT ![SOL][FEE_VAULT] = @ + RENT]
    /\ UNCHANGED <<config, tss, solLimitVars, executed, solEventVars, solClockVars,
                   solWindowVars>>

\* set_block_usd_cap
SetSlotUsdCap(cap) ==
    /\ ~config.paused
    /\ rateConfig' = [rateConfig EXCEPT !.blockUsdCap = cap]
    /\ created' = created \cup {"rate_limit_config"}
    /\ slotSpend' = IF rateConfig.blockUsdCap = 0 THEN 0 ELSE slotSpend
    /\ UNCHANGED <<config, protocolFee, tss, tokenRateLimit, solMoneyVars, solEpochVolume>>

\* update_epoch_duration, which touches no usage; 0 switches the quota off.
SetEpochDuration(sec) ==
    /\ ~config.paused
    /\ rateConfig' = [rateConfig EXCEPT !.epochDuration = sec]
    /\ created' = created \cup {"rate_limit_config"}
    /\ solEpochVolume' = [t \in SolTokens |-> 0]
    /\ UNCHANGED <<config, protocolFee, tss, tokenRateLimit, solMoneyVars, slotSpend>>

\* set_token_rate_limit starts the token's usage again.
SetTokenRateLimit(token, limit) ==
    /\ ~config.paused
    /\ tokenRateLimit' = [tokenRateLimit EXCEPT
                             ![token] = [limit |-> limit, epoch |-> 0, used |-> 0]]
    /\ created' = created \cup {token}
    /\ solEpochVolume' = [solEpochVolume EXCEPT ![token] = 0]
    /\ UNCHANGED <<config, protocolFee, tss, rateConfig, solMoneyVars, slotSpend>>

\* init_tss and update_tss, in a pause too
SetSolTss(new) ==
    /\ tss' = new
    /\ created' = created \cup {"tss_pda"}
    /\ UNCHANGED <<config, protocolFee, solLimitVars, solMoneyVars, solWindowVars>>

--------------------------------------------------------------------------------
(* The chain around the program. *)

\* A slot passes: windows of the history variables that ended start again.
NewSlot(sec) ==
    /\ slot < MaxSlot
    /\ slot' = slot + 1
    /\ unixTime' = unixTime + sec
    /\ slotSpend' = 0
    /\ solEpochVolume' =
           IF /\ rateConfig.epochDuration > 0
              /\ (unixTime + sec) \div rateConfig.epochDuration # SolEpoch
           THEN [t \in SolTokens |-> 0] ELSE solEpochVolume
    /\ UNCHANGED <<solConfigVars, solLimitVars, executed, lamports, solEventVars, pyth>>

\* Pyth publishes.
PythUpdates(feed, p) ==
    /\ pyth' = [pyth EXCEPT ![feed] = [price |-> p[1], conf |-> p[2], publishTime |-> unixTime]]
    /\ UNCHANGED <<solConfigVars, solLimitVars, executed, lamports, solEventVars, solWindowVars,
                   slot, unixTime>>

SolDepositStep ==
    \E user \in SolUsers, req \in SolRequests, native \in NativeAmounts :
        SendSolUniversalTx(user, req, native)

SolAdminStep ==
    \/ SetSolPaused
    \/ \E new \in SolConfigs : SetSolConfig(new)
    \/ \E fee \in ProtocolFees : SetSolProtocolFee(fee)
    \/ \E cap \in SlotCaps : SetSlotUsdCap(cap)
    \/ \E sec \in EpochDurations : SetEpochDuration(sec)
    \/ \E token \in SolTokens, limit \in TokenLimits : SetTokenRateLimit(token, limit)
    \/ \E new \in TssStates : SetSolTss(new)

SolChainStep ==
    \/ \E sec \in SlotTicks : NewSlot(sec)
    \/ \E feed \in PriceFeeds, p \in PythPrices : PythUpdates(feed, p)

================================================================================
