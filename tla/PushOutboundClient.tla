--------------------------- MODULE PushOutboundClient ---------------------------
(***************************************************************************)
(* app/push-chain-outbound.ts: the command-line client that asks the       *)
(* outbound gateway on Push Chain for a withdrawal, an execution or the    *)
(* return from a CEA on Solana. Its calls are transactions of their own,   *)
(* between which everybody else's take place; it may die after any of them *)
(* and be started again.                                                   *)
(***************************************************************************)
EXTENDS UniversalGatewayPC, Sequences

CONSTANTS
    Signer,             \* the account of ETH_PRIVATE_KEY
    PSOL, USDC, USDT,   \* the PRC20s configured
    Recipient,          \* REVERT_RECIPIENT and the Solana target
    Withdrawn, TopUps,  \* amounts of the requests, TOPUP_AMOUNT
    GasLimits,          \* GAS_LIMIT
    CounterAuthorityKnown, SplMintKnown,
    MaxRuns             \* bound: how often the client is started

ASSUME ClientAssumption ==
    /\ Signer \in Callers /\ Recipient \in Callers
    /\ {PSOL, USDC, USDT} \subseteq PRC20s
    /\ Withdrawn \in Nat \ {0} /\ TopUps \subseteq Nat /\ GasLimits \subseteq Nat
    /\ CounterAuthorityKnown \in BOOLEAN /\ SplMintKnown \in BOOLEAN /\ MaxRuns \in Nat

VARIABLES
    client,             \* [at, todo, request, quote, needs] of the running script
    allowance,          \* PRC20 -> what the gateway may pull from Signer
    runs

clientVars == <<client, allowance, runs>>

Cases == <<"withdraw-sol", "withdraw-spl", "execute-sol", "cea-to-uea-sol", "cea-to-uea-spl">>
CaseNames == {Cases[i] : i \in DOMAIN Cases}

NoRequest == [token |-> ZERO, recipient |-> Recipient, amount |-> 0, gasLimit |-> 0,
              payload |-> FALSE, revertRecipient |-> ZERO]
NoQuote == [gasToken |-> ZERO, gasFee |-> 0]

ClientInit ==
    /\ PCInit
    /\ client = [at |-> "off", todo |-> <<>>, request |-> NoRequest, quote |-> NoQuote,
                 needs |-> <<>>]
    /\ allowance = [t \in PRC20s |-> 0]
    /\ runs = 0

--------------------------------------------------------------------------------
(* The script. *)

\* getRequestedCase and the switch of main: the environment's case wins over the argument.
GetRequestedCase(env, arg) ==
    IF env # "" THEN env ELSE IF arg # "" THEN arg ELSE "withdraw-sol"

StartClient(env, arg) ==
    LET requested == GetRequestedCase(env, arg)
    IN  /\ client.at \in {"off", "done", "failed"}
        /\ runs < MaxRuns
        /\ runs' = runs + 1
        /\ client' = [client EXCEPT
               !.at = IF requested \in CaseNames \cup {"all"} THEN "next" ELSE "failed",
               !.todo = IF requested = "all" THEN Cases
                        ELSE IF requested \in CaseNames THEN <<requested>> ELSE <<>>]
        /\ UNCHANGED <<pcVars, allowance>>

\* What each case asks for; payloads are told apart from none.
WithdrawSol(gasLimit) ==
    [NoRequest EXCEPT !.token = PSOL, !.amount = Withdrawn, !.gasLimit = gasLimit,
                      !.revertRecipient = Recipient]
WithdrawSpl(gasLimit) == [WithdrawSol(gasLimit) EXCEPT !.token = USDC]
ExecuteOnSolana(gasLimit) == [WithdrawSol(gasLimit) EXCEPT !.payload = TRUE]
CeaToUeaSol(gasLimit, topUp) == [ExecuteOnSolana(gasLimit) EXCEPT !.amount = topUp]
CeaToUeaSpl(gasLimit, topUp) == [CeaToUeaSol(gasLimit, topUp) EXCEPT !.token = USDT]

RequestFor(name, gasLimit, topUp) ==
    CASE name = "withdraw-sol"   -> WithdrawSol(gasLimit)
      [] name = "withdraw-spl"   -> WithdrawSpl(gasLimit)
      [] name = "execute-sol"    -> ExecuteOnSolana(gasLimit)
      [] name = "cea-to-uea-sol" -> CeaToUeaSol(gasLimit, topUp)
      [] name = "cea-to-uea-spl" -> CeaToUeaSpl(gasLimit, topUp)

\* main goes on to the next case, or returns; two cases throw when a file of theirs is missing.
Configured(name) ==
    /\ name = "execute-sol" => CounterAuthorityKnown
    /\ name = "cea-to-uea-spl" => SplMintKnown

NextCase(gasLimit, topUp) ==
    /\ client.at = "next"
    /\ client' =
           IF client.todo = <<>> THEN [client EXCEPT !.at = "done"]
           ELSE IF ~Configured(Head(client.todo)) THEN [client EXCEPT !.at = "failed"]
           ELSE [client EXCEPT !.at = "quote", !.todo = Tail(@),
                               !.request = RequestFor(Head(client.todo), gasLimit, topUp)]
    /\ UNCHANGED <<pcVars, allowance, runs>>

\* What the gateway is to be allowed, one approval after the other: where the gas token is
\* the token sent, one approval for both.
ApprovalsOneByOne(req, quote) ==
    <<<<quote.gasToken, quote.gasFee>>, <<req.token, req.amount>>>>
Approvals(req, quote) ==
    IF quote.gasToken = req.token
    THEN <<<<req.token, quote.gasFee + req.amount>>>>
    ELSE <<<<quote.gasToken, quote.gasFee>>, <<req.token, req.amount>>>>

\* getGasQuote, which throws where UniversalCore knows no gas token.
GetGasQuote ==
    LET quote == [gasToken |-> GasTokenOf[client.request.token],
                  gasFee |-> GasFee(client.request)]
    IN  /\ client.at = "quote"
        /\ client' = IF quote.gasToken = ZERO THEN [client EXCEPT !.at = "failed"]
                     ELSE [client EXCEPT !.at = "approve", !.quote = quote,
                                         !.needs = Approvals(client.request, quote)]
        /\ UNCHANGED <<pcVars, allowance, runs>>

\* ensureAllowance
Required == IF client.needs = <<>> THEN 0 ELSE Head(client.needs)[2]
LeftToApprove == Tail(client.needs)
EnsureAllowance ==
    /\ client.at = "approve"
    /\ IF client.needs = <<>>
       THEN client' = [client EXCEPT !.at = "send"] /\ UNCHANGED allowance
       ELSE /\ client' = [client EXCEPT !.needs = LeftToApprove]
            /\ allowance' =
                   IF Required = 0 \/ allowance[Head(client.needs)[1]] >= Required
                   THEN allowance
                   ELSE [allowance EXCEPT ![Head(client.needs)[1]] = Required]
    /\ UNCHANGED <<pcVars, runs>>

\* The request goes out without value: the client's ABI declares the function nonpayable.
Accepted(cost) ==
    /\ OutboundAccepted(Signer, client.request, 0, cost)
    /\ allowance[client.request.token] >= client.request.amount

SendRequest(cost) ==
    /\ client.at = "send"
    /\ IF Accepted(cost)
       THEN /\ SendUniversalTxOutbound(Signer, client.request, 0, cost)
            /\ allowance' = [allowance EXCEPT ![client.request.token] = @ - client.request.amount]
            /\ client' = [client EXCEPT !.at = "next"]
       ELSE client' = [client EXCEPT !.at = "failed"] /\ UNCHANGED <<pcVars, allowance>>
    /\ UNCHANGED runs

\* The process is killed; what it has sent stays.
ClientDies ==
    /\ client.at \in {"next", "quote", "approve", "send"}
    /\ client' = [client EXCEPT !.at = "off", !.todo = <<>>, !.needs = <<>>]
    /\ UNCHANGED <<pcVars, allowance, runs>>

--------------------------------------------------------------------------------
ScriptStep ==
    \/ \E gasLimit \in GasLimits, topUp \in TopUps : NextCase(gasLimit, topUp)
    \/ GetGasQuote
    \/ EnsureAllowance
    \/ \E cost \in SwapCosts : SendRequest(cost)

\* The signer's account is the script's alone.
ClientNext ==
    \/ ScriptStep
    \/ \E env, arg \in CaseNames \cup {"all", "", "swap"} : StartClient(env, arg)
    \/ ClientDies
    \/ (PCCallsFrom(Callers \ {Signer}) \/ PCAdminStep) /\ UNCHANGED clientVars

ClientSpec == ClientInit /\ [][ClientNext]_<<pcVars, clientVars>>

--------------------------------------------------------------------------------
(* Properties. *)

\* When a request goes out, what the client allowed the gateway covers the gas fee it was
\* quoted and the amount together, whatever an earlier run, a killed one among them, left.
ApprovalCoversQuote ==
    client.at = "send" =>
        LET quote == client.quote  req == client.request
        IN  IF quote.gasToken = req.token
            THEN allowance[req.token] >= quote.gasFee + req.amount
            ELSE /\ allowance[quote.gasToken] >= quote.gasFee
                 /\ allowance[req.token] >= req.amount

\* The client's header: the gateway burns the PRC20 and charges the gas fee, both approved
\* before, and emits the event. So a request fails only while the gateway is paused, or where
\* the signer does not hold what was approved, or the quote has risen since.
HoldsApproved ==
    /\ pcBal[client.request.token][Signer] >= client.request.amount + client.quote.gasFee
    /\ pcBal[client.quote.gasToken][Signer] >= client.request.amount + client.quote.gasFee
    /\ GasFee(client.request) <= client.quote.gasFee
ApprovedRequestIsIssued ==
    [][client.at = "send" /\ client'.at = "failed" => pcPaused \/ ~HoldsApproved]_client

================================================================================
