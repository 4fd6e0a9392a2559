--------------------------------- MODULE MCPush ---------------------------------
(***************************************************************************)
(* A small instance of the outbound gateway: one chain whose gas token can *)
(* itself be withdrawn, a token of it, and a token without a gas token.    *)
(***************************************************************************)
EXTENDS PushOutboundClient

CONSTANTS
    pETH, pUSD, pX, carol, dave, chain,
    MaxDonated          \* bound on the PC sent straight to VaultPCs

VARIABLE question   \* what the behaviour is about

MCGasTokenOf == [t \in PRC20s |-> IF t = pX THEN ZERO ELSE pETH]
MCChainOf    == [t \in PRC20s |-> chain]

OutRequest(token, amount, gasLimit, payload) ==
    [token |-> token, recipient |-> carol, amount |-> amount, gasLimit |-> gasLimit,
     payload |-> payload, revertRecipient |-> carol]

OutRequests ==
    {OutRequest(pETH, 1, 0, FALSE), OutRequest(pUSD, 1, 2, TRUE), OutRequest(pUSD, 0, 0, TRUE),
     OutRequest(pUSD, 0, 0, FALSE), OutRequest(pX, 1, 0, FALSE),
     [OutRequest(pETH, 1, 0, FALSE) EXCEPT !.revertRecipient = ZERO]}

MCStartPC ==
    [t \in PCTokens |-> [a \in PCAccounts |->
        CASE a \in Callers /\ t = PC   -> 4
          [] a \in Callers /\ t = pETH -> 2
          [] a \in Callers             -> 1
          [] a = AMM /\ t = pETH       -> 3
          [] OTHER                     -> 0]]

--------------------------------------------------------------------------------
\* A behaviour is about the gateway with all its settings, used by carol; or about where the
\* fees go, with withdrawals to anybody and coins and tokens that come without a request; or
\* about the client, while carol's requests, pauses and new gas prices come between its calls.
GatewayStep ==
    \/ \E req \in OutboundRequests, value \in PCValues, cost \in SwapCosts :
           SendUniversalTxOutbound(carol, req, value, cost)
    \/ \E prc20 \in PRC20s, value \in PCValues, cost \in SwapCosts :
           RescueFundsOnSourceChain(carol, prc20, value, cost)
    \/ SetPCPaused
    \/ \E v \in VaultPCs :
           \/ SetVaultPC(v) \/ SetVaultPCPaused(v)
           \/ \E token \in PCTokens, amount \in PCValues : WithdrawFees(v, token, Manager, amount)
    \/ \E token \in PRC20s, fee \in OutboundFees : CoreUpdates(token, core.gasPrice[token], fee)

FeesStep ==
    \/ SendUniversalTxOutbound(carol, OutRequest(pETH, 1, 0, FALSE), 2, 1)
    \/ RescueFundsOnSourceChain(carol, pETH, 1, 1)
    \/ \E v \in VaultPCs :
           \/ SetVaultPC(v) \/ SetVaultPCPaused(v)
           \/ \E token \in {PC, pETH}, to \in PCAccounts : WithdrawFees(v, token, to, 1)
    \/ \E token \in {PC, pETH}, to \in VaultPCs \cup {UGPC} : SendDirectly(carol, token, to, 1)

ClientSurroundings ==
    \/ SetPCPaused
    \/ \E gasPrice \in GasPrices : CoreUpdates(pETH, gasPrice, 0)
    \/ SendUniversalTxOutbound(carol, OutRequest(pETH, 1, 0, FALSE), 2, 1)

PushNext ==
    \/ /\ question = "gateway"
       /\ GatewayStep
       /\ UNCHANGED <<clientVars, question>>
    \/ /\ question = "fees"
       /\ FeesStep /\ feesDonated' <= MaxDonated
       /\ UNCHANGED <<clientVars, question>>
    \/ /\ question = "client"
       /\ \/ ScriptStep
          \/ \E env \in {"", "all"}, arg \in {"withdraw-spl", "swap"} : StartClient(env, arg)
          \/ ClientDies
          \/ ClientSurroundings /\ UNCHANGED clientVars
       /\ UNCHANGED question

PushInit ==
    /\ ClientInit /\ question \in {"gateway", "fees", "client"}
    /\ \A t \in PRC20s : core.gasPrice[t] = 1
    /\ question = "client" => \A t \in PRC20s : core.protocolFee[t] = 0
    /\ question = "fees" => \A t \in PRC20s : core.protocolFee[t] = 1

PushSpec == PushInit /\ [][PushNext]_<<pcVars, clientVars, question>>

================================================================================
