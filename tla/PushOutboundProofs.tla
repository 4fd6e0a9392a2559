--------------------------- MODULE PushOutboundProofs ---------------------------
(***************************************************************************)
(* The command-line client among all the other callers: its steps are      *)
(* steps of the contracts or leave them alone, so that what PushProofs     *)
(* shows of the contracts holds of the two together; and what it has       *)
(* approved when a request goes out covers the quote. The invariant says   *)
(* how far the approvals have come while they are under way.               *)
(***************************************************************************)
EXTENDS PushOutboundClient, PushProofs

\* The fields of the client's state that the script computes with.
ClientFieldsOK ==
    /\ client = [at |-> client.at, todo |-> client.todo, request |-> client.request,
                 quote |-> client.quote, needs |-> client.needs]
    /\ client.todo \in Seq(CaseNames)
    /\ client.request \in OutboundRequestType
    /\ client.at \in {"quote", "approve", "send"} => client.request.token \in PRC20s
    /\ client.at \in {"approve", "send"} =>
           client.quote.gasToken \in PRC20s /\ client.quote.gasFee \in Nat
    /\ allowance \in [PRC20s -> Nat]

\* The allowances cover a request and its quote.
Covered ==
    LET quote == client.quote  req == client.request
    IN  IF quote.gasToken = req.token
        THEN allowance[req.token] >= quote.gasFee + req.amount
        ELSE /\ allowance[quote.gasToken] >= quote.gasFee
             /\ allowance[req.token] >= req.amount

\* The approvals made so far are in place, and the ones that complete them are listed.
ApprovalsUnderWay ==
    LET quote == client.quote  req == client.request
        sent  == <<req.token, req.amount>>
    IN  client.at = "approve" =>
            \/ client.needs = Approvals(req, quote)
            \/ /\ quote.gasToken # req.token /\ client.needs = <<sent>>
               /\ allowance[quote.gasToken] >= quote.gasFee
            \/ client.needs = <<>> /\ Covered

ClientInv == PushInv /\ ClientFieldsOK /\ ApprovalsUnderWay /\ ApprovalCoversQuote

--------------------------------------------------------------------------------
(* The contracts' steps. *)

\* Whatever the client does, to the contracts it is a step of theirs.
LEMMA ClientStepsAreSteps ==
    ASSUME ClientInv, [ClientNext]_<<pcVars, clientVars>>
    PROVE  PCStep
<1>1. ASSUME NEW cost \in SwapCosts, SendRequest(cost) PROVE PCStep
  <2>1. Signer \in Callers /\ client.request \in OutboundRequestType /\ 0 \in Nat /\ cost \in Nat
    BY ClientAssumption, PushAssumption, SMT DEF ClientInv, ClientFieldsOK
  <2>2. SendUniversalTxOutbound(Signer, client.request, 0, cost) \/ UNCHANGED pcVars
    BY <1>1 DEF SendRequest
  <2>3. ASSUME SendUniversalTxOutbound(Signer, client.request, 0, cost) PROVE PCStep
    <3>1. PICK req \in OutboundRequestType : req = client.request
      BY <2>1
    <3>2. SendUniversalTxOutbound(Signer, req, 0, cost)
      BY <2>3, <3>1
    <3> QED BY <2>1, <3>2 DEF PCStep
  <2> QED BY <2>2, <2>3 DEF PCStep
<1>2. CASE PCCallsFrom(Callers \ {Signer}) \/ PCAdminStep
  <2>1. OutboundRequests \subseteq OutboundRequestType /\ PCValues \subseteq Nat /\ SwapCosts \subseteq Nat
    BY PushAssumption
  <2> QED BY <1>2, <2>1 DEF PCCallsFrom, PCStep
<1>3. CASE UNCHANGED pcVars
  BY <1>3 DEF PCStep
<1> QED BY <1>1, <1>2, <1>3 DEF ClientNext, ScriptStep, NextCase, GetGasQuote, EnsureAllowance,
                              StartClient, ClientDies

--------------------------------------------------------------------------------
(* The client's steps. *)

LEMMA StartClient_Inv ==
    ASSUME ClientInv, NEW env, NEW arg, StartClient(env, arg)
    PROVE  ClientFieldsOK' /\ ApprovalsUnderWay' /\ ApprovalCoversQuote'
<1> DEFINE requested == GetRequestedCase(env, arg)
           todo == IF requested = "all" THEN Cases
                   ELSE IF requested \in CaseNames THEN <<requested>> ELSE <<>>
           at == IF requested \in CaseNames \cup {"all"} THEN "next" ELSE "failed"
<1>1. client' = [client EXCEPT !.at = at, !.todo = todo] /\ allowance' = allowance
  BY DEF StartClient
<1>2. Cases \in Seq(CaseNames)
  BY DEF Cases, CaseNames
<1>3. todo \in Seq(CaseNames) /\ at \in {"next", "failed"}
  BY <1>2
<1> HIDE DEF todo, at
<1> QED BY <1>1, <1>3 DEF ClientInv, ClientFieldsOK, ApprovalsUnderWay, ApprovalCoversQuote

\* What each case asks for is a request for one of the PRC20s configured.
LEMMA RequestsOfCases ==
    ASSUME NEW name \in CaseNames, NEW gasLimit \in GasLimits, NEW topUp \in TopUps
    PROVE  /\ RequestFor(name, gasLimit, topUp) \in OutboundRequestType
           /\ RequestFor(name, gasLimit, topUp).token \in PRC20s
<1>1. /\ Recipient \in Callers /\ PSOL \in PRC20s /\ USDC \in PRC20s /\ USDT \in PRC20s
      /\ Withdrawn \in Nat /\ topUp \in Nat /\ gasLimit \in Nat
  BY ClientAssumption
<1>2. name \in {"withdraw-sol", "withdraw-spl", "execute-sol", "cea-to-uea-sol", "cea-to-uea-spl"}
  BY DEF CaseNames, Cases
<1>3. ASSUME NEW token \in PRC20s, NEW amount \in Nat, NEW payload \in BOOLEAN
      PROVE  [token |-> token, recipient |-> Recipient, amount |-> amount,
              gasLimit |-> gasLimit, payload |-> payload, revertRecipient |-> Recipient]
                 \in OutboundRequestType
  BY <1>1 DEF OutboundRequestType
<1>4. \E token \in PRC20s, amount \in Nat, payload \in BOOLEAN :
          RequestFor(name, gasLimit, topUp) =
              [token |-> token, recipient |-> Recipient, amount |-> amount,
               gasLimit |-> gasLimit, payload |-> payload, revertRecipient |-> Recipient]
  BY <1>1, <1>2 DEF RequestFor, WithdrawSol, WithdrawSpl, ExecuteOnSolana, CeaToUeaSol,
                    CeaToUeaSpl, NoRequest
<1> QED BY <1>3, <1>4

LEMMA NextCase_Inv ==
    ASSUME ClientInv, NEW gasLimit \in GasLimits, NEW topUp \in TopUps,
           NextCase(gasLimit, topUp)
    PROVE  ClientFieldsOK' /\ ApprovalsUnderWay' /\ ApprovalCoversQuote'
<1>1. client.todo \in Seq(CaseNames) /\ allowance' = allowance /\ client.at = "next"
  BY DEF ClientInv, ClientFieldsOK, NextCase
<1>2. CASE \E at \in {"done", "failed"} : client' = [client EXCEPT !.at = at]
  BY <1>1, <1>2 DEF ClientInv, ClientFieldsOK, ApprovalsUnderWay, ApprovalCoversQuote
<1>3. CASE /\ client.todo # <<>>
           /\ client' = [client EXCEPT !.at = "quote", !.todo = Tail(@),
                             !.request = RequestFor(Head(client.todo), gasLimit, topUp)]
  <2>1. Head(client.todo) \in CaseNames /\ Tail(client.todo) \in Seq(CaseNames)
    BY <1>1, <1>3
  <2>2. PICK request, todo : /\ request = RequestFor(Head(client.todo), gasLimit, topUp)
                             /\ todo = Tail(client.todo)
    OBVIOUS
  <2>3. request \in OutboundRequestType /\ request.token \in PRC20s /\ todo \in Seq(CaseNames)
    BY <2>1, <2>2, RequestsOfCases
  <2>4. client' = [client EXCEPT !.at = "quote", !.todo = todo, !.request = request]
    BY <1>3, <2>2
  <2> QED BY <1>1, <2>3, <2>4
          DEF ClientInv, ClientFieldsOK, ApprovalsUnderWay, ApprovalCoversQuote
<1> QED BY <1>2, <1>3 DEF NextCase

LEMMA GetGasQuote_Inv ==
    ASSUME ClientInv, GetGasQuote
    PROVE  ClientFieldsOK' /\ ApprovalsUnderWay' /\ ApprovalCoversQuote'
<1>1. PICK quote, needs : /\ quote = [gasToken |-> GasTokenOf[client.request.token],
                                     gasFee |-> GasFee(client.request)]
                          /\ needs = Approvals(client.request, quote)
  OBVIOUS
<1>2. /\ client' = IF quote.gasToken = ZERO THEN [client EXCEPT !.at = "failed"]
                   ELSE [client EXCEPT !.at = "approve", !.quote = quote, !.needs = needs]
      /\ client.at = "quote" /\ allowance' = allowance
  BY <1>1 DEF GetGasQuote
<1>3. CASE quote.gasToken = ZERO
  BY <1>2, <1>3 DEF ClientInv, ClientFieldsOK, ApprovalsUnderWay, ApprovalCoversQuote
<1>4. CASE quote.gasToken # ZERO
  <2>1. client.request \in OutboundRequestType /\ client.request.token \in PRC20s
    BY <1>2 DEF ClientInv, ClientFieldsOK
  <2>2. client.request.gasLimit \in Nat /\ BASE_GAS_LIMIT \in Nat
    BY <2>1, PushAssumption DEF OutboundRequestType
  <2>3. core.gasPrice[client.request.token] \in Nat
    BY <2>1, QuotesAreAmounts DEF ClientInv, PushInv
  <2>4. GasFee(client.request) \in Nat
    BY <2>2, <2>3, ProductIsNat DEF GasFee
  <2>5. quote.gasToken \in PRC20s /\ quote.gasFee \in Nat
    BY <1>1, <1>4, <2>1, <2>4, PushAssumption
  <2>6. client' = [client EXCEPT !.at = "approve", !.quote = quote, !.needs = needs]
    BY <1>2, <1>4
  <2>7. ClientFieldsOK'
    BY <1>2, <2>1, <2>5, <2>6 DEF ClientInv, ClientFieldsOK
  <2>8. client' = [client EXCEPT !.at = "approve", !.quote = quote, !.needs = needs]
        /\ client'.needs = needs /\ client'.request = client.request /\ client'.quote = quote
        /\ client'.at = "approve"
    BY <2>6 DEF ClientInv, ClientFieldsOK
  <2> QED BY <1>1, <2>7, <2>8 DEF ApprovalsUnderWay, ApprovalCoversQuote
<1> QED BY <1>3, <1>4

\* An approval leaves every allowance at least where it was, and its own at what is required.
LEMMA Approved ==
    ASSUME NEW t \in PRC20s, NEW required \in Nat, allowance \in [PRC20s -> Nat],
           allowance' = IF required = 0 \/ allowance[t] >= required THEN allowance
                        ELSE [allowance EXCEPT ![t] = required]
    PROVE  /\ allowance' \in [PRC20s -> Nat]
           /\ allowance'[t] >= required
           /\ \A u \in PRC20s : allowance'[u] >= allowance[u]
<1>1. \A u \in PRC20s : allowance[u] \in Nat
  OBVIOUS
<1>2. CASE required = 0 \/ allowance[t] >= required
  BY <1>1, <1>2, SMT
<1>3. CASE ~(required = 0 \/ allowance[t] >= required)
  <2>1. allowance' = [allowance EXCEPT ![t] = required] /\ allowance[t] < required
    BY <1>1, <1>3, SMT
  <2> QED BY <1>1, <2>1, SMT
<1> QED BY <1>2, <1>3

LEMMA EnsureAllowance_Inv ==
    ASSUME ClientInv, EnsureAllowance
    PROVE  ClientFieldsOK' /\ ApprovalsUnderWay' /\ ApprovalCoversQuote'
<1>1. PICK req, quote, needs :
          req = client.request /\ quote = client.quote /\ needs = client.needs
  OBVIOUS
<1>2. /\ client.at = "approve" /\ allowance \in [PRC20s -> Nat]
      /\ req \in OutboundRequestType /\ req.token \in PRC20s /\ req.amount \in Nat
      /\ quote.gasToken \in PRC20s /\ quote.gasFee \in Nat
  BY <1>1 DEF EnsureAllowance, ClientInv, ClientFieldsOK, OutboundRequestType
<1>3. CASE needs = <<>>
  <2>1. client' = [client EXCEPT !.at = "send"] /\ allowance' = allowance
    BY <1>1, <1>3 DEF EnsureAllowance
  <2>2. ~(needs = Approvals(req, quote))
    BY <1>3 DEF Approvals
  <2>3. Covered
    BY <1>1, <1>2, <1>3, <2>2 DEF ClientInv, ApprovalsUnderWay
  <2>4. ClientFieldsOK'
    BY <1>2, <2>1 DEF ClientInv, ClientFieldsOK
  <2>5. client'.at = "send" /\ client'.request = client.request /\ client'.quote = client.quote
    BY <2>1 DEF ClientInv, ClientFieldsOK
  <2>6. Covered'
    BY <2>1, <2>3, <2>5 DEF Covered
  <2> QED BY <2>4, <2>5, <2>6 DEF ApprovalsUnderWay, ApprovalCoversQuote, Covered
<1>4. CASE needs # <<>>
  <2>1. PICK t, required : t = Head(needs)[1] /\ required = Head(needs)[2]
    OBVIOUS
  <2>2. /\ client' = [client EXCEPT !.needs = Tail(needs)]
        /\ allowance' = IF required = 0 \/ allowance[t] >= required THEN allowance
                         ELSE [allowance EXCEPT ![t] = required]
    BY <1>1, <1>4, <2>1 DEF EnsureAllowance, LeftToApprove, Required
  <2>3. /\ client'.at = "approve" /\ client'.request = req /\ client'.quote = quote
        /\ client'.needs = Tail(needs)
    BY <1>1, <1>2, <2>2 DEF ClientInv, ClientFieldsOK
  <2>4. ASSUME t \in PRC20s, required \in Nat PROVE ClientFieldsOK'
    <3>1. allowance' \in [PRC20s -> Nat]
      BY <1>2, <2>2, <2>4, Approved
    <3> QED BY <2>2, <3>1 DEF ClientInv, ClientFieldsOK
  <2>5. CASE needs = Approvals(req, quote) /\ quote.gasToken = req.token
    <3>1. t = req.token /\ required = quote.gasFee + req.amount /\ Tail(needs) = <<>>
      BY <2>1, <2>5 DEF Approvals
    <3>2. required \in Nat
      BY <1>2, <3>1
    <3>3. allowance'[req.token] >= quote.gasFee + req.amount
      BY <1>2, <2>2, <3>1, <3>2, Approved
    <3>4. Covered'
      BY <2>3, <2>5, <3>3 DEF Covered
    <3> QED BY <1>2, <2>3, <2>4, <3>1, <3>2, <3>4 DEF ApprovalsUnderWay, ApprovalCoversQuote
  <2>6. CASE needs = Approvals(req, quote) /\ quote.gasToken # req.token
    <3>1. /\ t = quote.gasToken /\ required = quote.gasFee
          /\ Tail(needs) = <<<<req.token, req.amount>>>>
      BY <2>1, <2>6 DEF Approvals
    <3>2. allowance'[quote.gasToken] >= quote.gasFee
      BY <1>2, <2>2, <3>1, Approved
    <3> QED BY <1>2, <2>3, <2>4, <2>6, <3>1, <3>2 DEF ApprovalsUnderWay, ApprovalCoversQuote
  <2>7. CASE /\ quote.gasToken # req.token /\ needs = <<<<req.token, req.amount>>>>
             /\ allowance[quote.gasToken] >= quote.gasFee
    <3>1. t = req.token /\ required = req.amount /\ Tail(needs) = <<>>
      BY <2>1, <2>7
    <3>2. /\ allowance'[req.token] >= req.amount
          /\ allowance'[quote.gasToken] >= allowance[quote.gasToken]
          /\ allowance' \in [PRC20s -> Nat]
      BY <1>2, <2>2, <3>1, Approved
    <3>3. allowance'[quote.gasToken] >= quote.gasFee
      BY <1>2, <2>7, <3>2, SMT
    <3>4. Covered'
      BY <2>3, <2>7, <3>2, <3>3 DEF Covered
    <3> QED BY <1>2, <2>3, <2>4, <3>1, <3>4 DEF ApprovalsUnderWay, ApprovalCoversQuote
  <2> QED BY <1>1, <1>2, <1>4, <2>5, <2>6, <2>7 DEF ClientInv, ApprovalsUnderWay
<1> QED BY <1>3, <1>4

LEMMA SendRequest_Inv ==
    ASSUME ClientInv, NEW cost \in SwapCosts, SendRequest(cost)
    PROVE  ClientFieldsOK' /\ ApprovalsUnderWay' /\ ApprovalCoversQuote'
<1>1. PICK at \in {"next", "failed"} : client' = [client EXCEPT !.at = at]
  BY DEF SendRequest
<1>2. PICK token, amount : token = client.request.token /\ amount = client.request.amount
  OBVIOUS
<1>3. /\ allowance \in [PRC20s -> Nat] /\ token \in PRC20s /\ amount \in Nat
  BY <1>2 DEF ClientInv, ClientFieldsOK, SendRequest, OutboundRequestType
<1>4. \/ allowance' = allowance
      \/ allowance[token] >= amount /\ allowance' = [allowance EXCEPT ![token] = @ - amount]
  BY <1>2 DEF SendRequest, Accepted
<1>5. allowance' \in [PRC20s -> Nat]
  <2>1. CASE allowance' = allowance
    BY <1>3, <2>1
  <2>2. CASE allowance[token] >= amount /\ allowance' = [allowance EXCEPT ![token] = @ - amount]
    <3>1. allowance[token] - amount \in Nat
      BY <1>3, <2>2, SMT
    <3> QED BY <1>3, <2>2, <3>1
  <2> QED BY <1>4, <2>1, <2>2
<1> QED BY <1>1, <1>5 DEF ClientInv, ClientFieldsOK, ApprovalsUnderWay, ApprovalCoversQuote

LEMMA ClientDies_Inv ==
    ASSUME ClientInv, ClientDies
    PROVE  ClientFieldsOK' /\ ApprovalsUnderWay' /\ ApprovalCoversQuote'
<1>1. /\ client' = [client EXCEPT !.at = "off", !.todo = <<>>, !.needs = <<>>]
      /\ allowance' = allowance /\ <<>> \in Seq(CaseNames)
  BY DEF ClientDies
<1> QED BY <1>1 DEF ClientInv, ClientFieldsOK, ApprovalsUnderWay, ApprovalCoversQuote

LEMMA ClientInit_Inv == ClientInit => ClientInv
<1> SUFFICES ASSUME ClientInit PROVE ClientInv
  OBVIOUS
<1>1. PushInv
  BY PushInit_Inv DEF ClientInit
<1>2. NoRequest \in OutboundRequestType
  <2>1. Recipient \in Callers
    BY ClientAssumption
  <2> QED BY <2>1, SMT DEF NoRequest, OutboundRequestType
<1>3. allowance \in [PRC20s -> Nat] /\ <<>> \in Seq(CaseNames)
  BY SMT DEF ClientInit
<1>4. client.at = "off" /\ client.todo = <<>> /\ client.request = NoRequest
  BY DEF ClientInit
<1>5. ClientFieldsOK
  BY <1>2, <1>3, <1>4 DEF ClientInit, ClientFieldsOK
<1> QED BY <1>1, <1>4, <1>5 DEF ClientInv, ApprovalsUnderWay, ApprovalCoversQuote

LEMMA ClientStep_Inv ==
    ASSUME ClientInv, [ClientNext]_<<pcVars, clientVars>> PROVE ClientInv'
<1>1. PushInv'
  BY ClientStepsAreSteps, PCStep_Inv DEF ClientInv
<1>2. ClientFieldsOK' /\ ApprovalsUnderWay' /\ ApprovalCoversQuote'
  <2>1. CASE ScriptStep
    BY <2>1, NextCase_Inv, GetGasQuote_Inv, EnsureAllowance_Inv, SendRequest_Inv DEF ScriptStep
  <2>2. CASE UNCHANGED clientVars
    BY <2>2 DEF ClientInv, ClientFieldsOK, ApprovalsUnderWay, ApprovalCoversQuote, Covered,
                clientVars
  <2> QED BY <2>1, <2>2, StartClient_Inv, ClientDies_Inv DEF ClientNext
<1> QED BY <1>1, <1>2 DEF ClientInv

--------------------------------------------------------------------------------
(* Invariants of the specification, and the refinement. *)

LEMMA ClientInvariant == ClientSpec => []ClientInv
BY ClientInit_Inv, ClientStep_Inv, PTL DEF ClientSpec

\* What UniversalGatewayPC and VaultPC guarantee, they guarantee with the client of
\* push-chain-outbound.ts among their callers: it is as bound by them as any other.
THEOREM ClientKeepsPushSound ==
    ClientSpec => [](/\ PushTypeOK /\ SubTxIdsUnique
                     /\ OutboundGatewayKeepsNothing /\ FeesInVaultPC)
<1>1. ClientInv => PushTypeOK /\ SubTxIdsUnique /\ OutboundGatewayKeepsNothing /\ FeesInVaultPC
  BY DEF ClientInv, PushInv
<1> QED BY <1>1, ClientInvariant, PTL

\* ensureAllowance: when the request of push-chain-outbound.ts goes out, its allowances cover
\* the quoted gas fee and the amount together, whatever the runs before have left of them.
THEOREM ClientApprovesEnough == ClientSpec => []ApprovalCoversQuote
<1>1. ClientInv => ApprovalCoversQuote
  BY DEF ClientInv
<1> QED BY <1>1, ClientInvariant, PTL

\* With the client among the callers, the contracts still implement OutboundPromise.
THEOREM ClientImplementsPromise == ClientSpec => KeepsOutboundPromise
<1>1. ClientInit => Promise!PromiseInit
  BY PromiseInit_Holds DEF ClientInit
<1>2. ClientInv /\ [ClientNext]_<<pcVars, clientVars>> =>
          [Promise!PromiseNext]_(Promise!promiseVars)
  BY ClientStepsAreSteps, PromiseStep DEF ClientInv
<1> QED BY <1>1, <1>2, ClientInvariant, PTL
        DEF ClientSpec, KeepsOutboundPromise, Promise!PromiseSpec

================================================================================
