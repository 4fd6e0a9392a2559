--------------------------- MODULE UniversalGatewayPC ---------------------------
(***************************************************************************)
(* The outbound gateway on Push Chain with the VaultPC that collects its   *)
(* protocol fees. UniversalCore (quotes, and the swap that burns gas       *)
(* tokens), the PRC20 tokens and the AMM are external. A transaction that  *)
(* reverts in any of its external calls has no effect: one action each.    *)
(***************************************************************************)
EXTENDS ChainLedger, FiniteSetsExt

CONSTANTS
    PC,                 \* the native coin of Push Chain
    PRC20s,             \* PRC20 tokens UniversalCore knows, the gas tokens among them
    ZERO,               \* address(0)
    Callers,            \* accounts of users
    Manager,            \* the MANAGER_ROLE of the VaultPCs
    UGPC,               \* this gateway
    VaultPCs,           \* addresses VAULT_PC can be set to
    AMM,                \* UniversalCore and its pools, as one account
    GasTokenOf,         \* PRC20 -> gas token of its chain, ZERO where none is configured
    ChainOf,            \* PRC20 -> chain namespace
    OutboundRequests,   \* UniversalOutboundTxRequests
    PCValues,           \* msg.values
    SwapCosts,          \* what the AMM may ask for a gas fee, in PC
    GasPrices, OutboundFees,
    BASE_GAS_LIMIT, RescueGasLimit,
    StartPC, InitialVaultPC,
    MaxNonce            \* bound on the requests sent

PCTokens   == PRC20s \cup {PC}
PCAccounts == Callers \cup VaultPCs \cup {UGPC, AMM, Manager}

OutboundRequestType ==
    [token : PRC20s \cup {ZERO}, recipient : Callers, amount : Nat, gasLimit : Nat,
     payload : BOOLEAN, revertRecipient : Callers \cup {ZERO}]

ASSUME PushAssumption ==
    /\ PC \notin PRC20s /\ ZERO \notin PRC20s /\ ZERO \notin PCAccounts
    /\ UGPC \notin Callers \cup VaultPCs \cup {AMM, Manager}
    /\ AMM \notin Callers \cup VaultPCs \cup {Manager}
    /\ VaultPCs \cap (Callers \cup {Manager}) = {}
    /\ GasTokenOf \in [PRC20s -> PRC20s \cup {ZERO}] /\ DOMAIN ChainOf = PRC20s
    /\ OutboundRequests \subseteq OutboundRequestType
    /\ PCValues \subseteq Nat /\ SwapCosts \subseteq Nat
    /\ GasPrices \subseteq Nat /\ OutboundFees \subseteq Nat
    /\ BASE_GAS_LIMIT \in Nat /\ RescueGasLimit \in Nat /\ MaxNonce \in Nat
    /\ StartPC \in Ledgers(PCTokens, PCAccounts)
    /\ \A t \in PCTokens : StartPC[t][UGPC] = 0
    /\ InitialVaultPC \in VaultPCs

\* There are finitely many addresses.
ASSUME AccountsAssumption == IsFiniteSet(PCAccounts)

VARIABLES
    pcPaused, VAULT_PC, nonce,
    vaultPCPaused,      \* of each VaultPC
    core,               \* [gasPrice, protocolFee : PRC20 -> Nat] of UniversalCore (external)
    pcBal,
    \* history
    outbound,           \* the subTxIds of UniversalTxOutbound events
    outboundCount,      \* how many such events there were
    gasBurned,          \* PRC20 -> gas fees burned
    feesPaid,
    feesWithdrawn,      \* PC the manager took out of the VaultPCs
    feesDonated,        \* PC others sent straight to the VaultPCs
    misdirected         \* PRC20 -> what was sent straight to the gateway

pcConfig  == <<pcPaused, VAULT_PC, vaultPCPaused>>
directVars == <<feesDonated, misdirected>>
pcHistory == <<outbound, outboundCount, gasBurned, feesPaid, feesWithdrawn, directVars>>
pcVars    == <<pcConfig, nonce, core, pcBal, pcHistory>>

PushTypeOK ==
    /\ pcPaused \in BOOLEAN /\ VAULT_PC \in VaultPCs
    /\ vaultPCPaused \in [VaultPCs -> BOOLEAN]
    /\ nonce \in Nat
    /\ core \in [gasPrice : [PRC20s -> Nat], protocolFee : [PRC20s -> Nat]]
    /\ pcBal \in Ledgers(PCTokens, PCAccounts)
    /\ outboundCount \in Nat
    /\ gasBurned \in [PRC20s -> Nat]
    /\ feesPaid \in Nat /\ feesWithdrawn \in Nat
    /\ feesDonated \in Nat /\ misdirected \in [PRC20s -> Nat]

\* initialize of both contracts
PCInit ==
    /\ pcPaused = FALSE /\ VAULT_PC = InitialVaultPC /\ nonce = 0
    /\ vaultPCPaused = [v \in VaultPCs |-> FALSE]
    /\ core \in [gasPrice : [PRC20s -> GasPrices], protocolFee : [PRC20s -> OutboundFees]]
    /\ pcBal = StartPC
    /\ outbound = {} /\ outboundCount = 0
    /\ gasBurned = [t \in PRC20s |-> 0]
    /\ feesPaid = 0 /\ feesWithdrawn = 0
    /\ feesDonated = 0 /\ misdirected = [t \in PRC20s |-> 0]

--------------------------------------------------------------------------------
(* Helpers. *)

\* _fetchTxType
FetchOutboundTxType(req) ==
    CASE req.amount > 0 /\ ~req.payload -> "FUNDS"
      [] req.amount > 0 /\ req.payload  -> "FUNDS_AND_PAYLOAD"
      [] req.amount = 0 /\ req.payload  -> "GAS_AND_PAYLOAD"
      [] OTHER                          -> "NONE"

\* _fetchOutboundTxGasAndFees
GasFee(req) == core.gasPrice[req.token] * (IF req.gasLimit = 0 THEN BASE_GAS_LIMIT ELSE req.gasLimit)
Quoted(req) ==
    /\ GasTokenOf[req.token] # ZERO
    /\ GasFee(req) + core.protocolFee[req.token] # 0

\* PRC20.burn
Burned(b, account, token, amount) == [b EXCEPT ![token][account] = @ - amount]

\* _burnPRC20: pulled from the sender into the gateway, and burned there. A PRC20 reverts where
\* the sender has too little; the code does not look at what transferFrom returns.
PullUnchecked(b, sender, token, amount) == amount \in Nat
PullAllowed(b, sender, token, amount) == CanPay(b, token, sender, amount)
PulledOnly(b, sender, token, amount) == Transfer(b, token, sender, UGPC, amount)
BurnPRC20(b, sender, token, amount) ==
    Burned(Transfer(b, token, sender, UGPC, amount), UGPC, token, amount)

\* The msg.value arrives, and the protocol fee goes on to the VaultPC of the day.
FeeToCore(b, sender, value, fee) ==
    Transfer(Transfer(b, PC, sender, UGPC, value), PC, UGPC, AMM, fee)
FeeForwarded(b, sender, value, fee) ==
    Transfer(Transfer(b, PC, sender, UGPC, value), PC, UGPC, VAULT_PC, fee)

\* _swapAndCollectFees: pcAmount goes to the swap, which takes cost of it for gasFee gas
\* tokens, burns them, and returns the rest to the sender.
SwapAllowed(b, gasToken, pcAmount, gasFee, cost) ==
    /\ pcAmount # 0
    /\ cost <= pcAmount
    /\ CanPay(b, gasToken, AMM, gasFee)
SwapAndBurnGas(b, sender, gasToken, pcAmount, gasFee, cost) ==
    LET swapped == Transfer(Transfer(b, PC, UGPC, AMM, pcAmount), PC, AMM, sender, pcAmount - cost)
    IN  Burned(swapped, AMM, gasToken, gasFee)

\* The fields the subTxId is the hash of.
SubTxIdOfFields(sender, req, n) == <<sender, req.recipient, req.token, req.amount, req.payload,
                                     ChainOf[req.token]>>
SubTxId(sender, req, n) == <<sender, req.recipient, req.token, req.amount, req.payload,
                             ChainOf[req.token], n>>

--------------------------------------------------------------------------------
(* Entry points. *)

\* sendUniversalTxOutbound: what it requires, and what it does.
OutboundAccepted(sender, req, value, cost) ==
    LET fee    == core.protocolFee[req.token]
        burned == BurnPRC20(pcBal, sender, req.token, req.amount)
    IN  /\ ~pcPaused
        /\ req.token # ZERO
        /\ req.revertRecipient # ZERO
        /\ FetchOutboundTxType(req) # "NONE"
        /\ Quoted(req)
        /\ CanPay(pcBal, PC, sender, value)
        /\ PullAllowed(pcBal, sender, req.token, req.amount)
        /\ value >= fee
        /\ SwapAllowed(FeeForwarded(burned, sender, value, fee), GasTokenOf[req.token],
                       value - fee, GasFee(req), cost)

SendUniversalTxOutbound(sender, req, value, cost) ==
    LET fee      == core.protocolFee[req.token]
        gasToken == GasTokenOf[req.token]
        burned   == BurnPRC20(pcBal, sender, req.token, req.amount)
        charged  == FeeForwarded(burned, sender, value, fee)
    IN  /\ nonce < MaxNonce
        /\ OutboundAccepted(sender, req, value, cost)
        /\ pcBal' = SwapAndBurnGas(charged, sender, gasToken, value - fee, GasFee(req), cost)
        /\ nonce' = nonce + 1
        /\ outbound' = outbound \cup {SubTxId(sender, req, nonce)}
        /\ outboundCount' = outboundCount + 1
        /\ gasBurned' = [gasBurned EXCEPT ![gasToken] = @ + GasFee(req)]
        /\ feesPaid' = feesPaid + fee
        /\ UNCHANGED <<pcConfig, core, feesWithdrawn, directVars>>

\* rescueFundsOnSourceChain: no fee, no nonce, and nothing keeps it from being asked again.
RescueFundsOnSourceChain(sender, prc20, value, cost) ==
    LET gasToken == GasTokenOf[prc20]
        gasFee   == core.gasPrice[prc20] * RescueGasLimit
    IN  /\ ~pcPaused
        /\ gasToken # ZERO
        /\ CanPay(pcBal, PC, sender, value)
        /\ SwapAllowed(pcBal, gasToken, value, gasFee, cost)
        /\ pcBal' = SwapAndBurnGas(Transfer(pcBal, PC, sender, UGPC, value), sender, gasToken,
                                   value, gasFee, cost)
        /\ gasBurned' = [gasBurned EXCEPT ![gasToken] = @ + gasFee]
        /\ UNCHANGED <<pcConfig, nonce, core, outbound, outboundCount, feesPaid,
                       feesWithdrawn, directVars>>

\* pause, unpause
SetPCPaused ==
    /\ pcPaused' = ~pcPaused
    /\ UNCHANGED <<VAULT_PC, vaultPCPaused, nonce, core, pcBal, pcHistory>>

\* setVaultPC
SetVaultPC(v) ==
    /\ ~pcPaused
    /\ VAULT_PC' = v
    /\ UNCHANGED <<pcPaused, vaultPCPaused, nonce, core, pcBal, pcHistory>>

\* VaultPC: pause, unpause
SetVaultPCPaused(v) ==
    /\ vaultPCPaused' = [vaultPCPaused EXCEPT ![v] = ~@]
    /\ UNCHANGED <<pcPaused, VAULT_PC, nonce, core, pcBal, pcHistory>>

\* A transfer outside the gateway's operations. The gateway has no receive function, so that
\* plain PC cannot be sent to it; PRC20s can.
SentPlainly(token, from, to, amount) ==
    /\ token = PC => to # UGPC
    /\ CanPay(pcBal, token, from, amount)
    /\ pcBal' = Transfer(pcBal, token, from, to, amount)
    /\ misdirected' = IF to = UGPC THEN [misdirected EXCEPT ![token] = @ + amount]
                                    ELSE misdirected

\* VaultPC: withdraw and withdrawToken, by the manager and to any address, a VaultPC or the
\* gateway among them. What goes from one VaultPC to another has not been taken out.
WithdrawFees(v, token, to, amount) ==
    /\ ~vaultPCPaused[v]
    /\ amount # 0
    /\ SentPlainly(token, v, to, amount)
    /\ feesWithdrawn' = IF token = PC /\ to \notin VaultPCs THEN feesWithdrawn + amount
                                                          ELSE feesWithdrawn
    /\ UNCHANGED <<pcConfig, nonce, core, outbound, outboundCount, gasBurned, feesPaid,
                   feesDonated>>

\* VaultPC.receive, and PRC20.transfer to either contract: anybody may send without a request.
SendDirectly(sender, token, to, amount) ==
    /\ SentPlainly(token, sender, to, amount)
    /\ feesDonated' = IF token = PC THEN feesDonated + amount ELSE feesDonated
    /\ UNCHANGED <<pcConfig, nonce, core, outbound, outboundCount, gasBurned, feesPaid,
                   feesWithdrawn>>

\* UniversalCore changes a gas price or a fee.
CoreUpdates(token, gasPrice, fee) ==
    /\ core' = [core EXCEPT !.gasPrice[token] = gasPrice, !.protocolFee[token] = fee]
    /\ UNCHANGED <<pcConfig, nonce, pcBal, pcHistory>>

PCCallsFrom(callers) ==
    \/ \E sender \in callers, req \in OutboundRequests, value \in PCValues, cost \in SwapCosts :
           SendUniversalTxOutbound(sender, req, value, cost)
    \/ \E sender \in callers, prc20 \in PRC20s, value \in PCValues, cost \in SwapCosts :
           RescueFundsOnSourceChain(sender, prc20, value, cost)
    \/ \E sender \in callers, token \in PCTokens, to \in VaultPCs \cup {UGPC}, amount \in PCValues :
           SendDirectly(sender, token, to, amount)

PCAdminStep ==
    \/ SetPCPaused
    \/ \E v \in VaultPCs : SetVaultPC(v) \/ SetVaultPCPaused(v)
    \/ \E v \in VaultPCs, token \in PCTokens, to \in PCAccounts, amount \in PCValues :
           WithdrawFees(v, token, to, amount)
    \/ \E token \in PRC20s, gasPrice \in GasPrices, fee \in OutboundFees :
           CoreUpdates(token, gasPrice, fee)

PCNext == PCCallsFrom(Callers) \/ PCAdminStep

PCSpec == PCInit /\ [][PCNext]_pcVars

--------------------------------------------------------------------------------
(* Properties. *)

\* Every outbound event has a subTxId of its own, which the external chains rely on to pay
\* each out once, whatever identical requests are repeated.
SubTxIdsUnique == Cardinality(outbound) = outboundCount

\* The gateway keeps neither PC nor PRC20s of its requests: fee, swap and refund use up the
\* whole msg.value, and burning uses up what was pulled. All it ever has is PRC20s somebody
\* sent it without a request, and no request touches those.
OutboundGatewayKeepsNothing ==
    /\ pcBal[PC][UGPC] = 0
    /\ \A t \in PRC20s : pcBal[t][UGPC] = misdirected[t]

\* The protocol fees of all requests are with the VaultPCs, present and past, until the manager
\* takes them out, whatever he moves from one VaultPC to another and others add.
FeesInVaultPC ==
    MapThenSumSet(LAMBDA v : pcBal[PC][v], VaultPCs) + feesWithdrawn =
        MapThenSumSet(LAMBDA v : StartPC[PC][v], VaultPCs) + feesPaid + feesDonated

\* The gateway implements OutboundPromise, whose supply is what is in circulation, and whose
\* requests are the outbound events: a PRC20 is burned by exactly the amount of the event that
\* has it released outside, and by gas fees, also where it is a gas token itself.
Circulating(b, t) == MapThenSumSet(LAMBDA a : b[t][a], PCAccounts)
Promise == INSTANCE OutboundPromise
    WITH Assets <- PRC20s, GasAssetOf <- GasTokenOf,
         supply <- [t \in PRC20s |-> Circulating(pcBal, t)],
         requested <- {[id |-> id, asset |-> id[3], amount |-> id[4]] : id \in outbound},
         gasPaid <- gasBurned
KeepsOutboundPromise == Promise!PromiseSpec

================================================================================
