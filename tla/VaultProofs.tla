------------------------------ MODULE VaultProofs ------------------------------
(***************************************************************************)
(* Theorems about the Vaults and the gateway together, for every value of  *)
(* the constants.                                                          *)
(***************************************************************************)
EXTENDS Vault, UniversalGatewayProofs

--------------------------------------------------------------------------------
(* What a release does to the ledger and to the gateway. *)

\* A step in which funds move past the gateway: it holds what it held before.
Passing ==
    /\ bal' \in Ledgers(Tokens, Accounts)
    /\ \A t \in Tokens : bal'[t][GATEWAY] = bal[t][GATEWAY]
    /\ UNCHANGED <<adminVars, limitState, totalProtocolFeesCollected, clockVars, eventVars,
                   windowVars, oracleVars>>

LEMMA PassingKeepsTypes == ASSUME TypeOK, Passing PROVE TypeOK'
BY DEF Passing, TypeOK, AdminTypeOK, DepositTypeOK, WindowTypeOK, OracleTypeOK, adminVars,
       roleVars, limitConfig, limitState, clockVars, eventVars, windowVars, oracleVars

LEMMA PassingKeepsNothing ==
    ASSUME GatewayPassesEverythingOn, Passing PROVE GatewayPassesEverythingOn'
BY DEF Passing, GatewayPassesEverythingOn, eventVars, Tokens

LEMMA PayoutTypes ==
    ASSUME VaultTypeOK, NEW v \in VaultAddresses, NEW payout \in Payouts
    PROVE  /\ payout[1] \in Tokens /\ payout[2] \in Nat
           /\ Payer(v, payout[1]) \in Accounts \ {GATEWAY}
           /\ \A w \in VaultAddresses : w = Payer(v, payout[1]) => w = v
           /\ \A u \in PushAccounts :
                  /\ TargetCEA(v, u) \in CEAs
                  /\ TargetCEA(v, u) \in Accounts \ {GATEWAY}
<1>1. payout \in Tokens \X Nat
  BY VaultAssumption
<1>2. payout[1] \in Tokens /\ payout[2] \in Nat
  BY <1>1
<1>3. vaultTSS[v] \in TSSAddresses /\ vaultCEAFactory[v] \in Factories
  BY DEF VaultTypeOK, VaultStateTypeOK
<1>4. \A u \in PushAccounts : TargetCEA(v, u) \in CEAs
  BY <1>3, VaultAssumption DEF TargetCEA
<1>5. /\ GATEWAY \notin CEAs \cup VaultAddresses \cup TSSAddresses
      /\ VaultAddresses \cap TSSAddresses = {}
  BY GatewayAssumption
<1> QED BY <1>2, <1>3, <1>4, <1>5 DEF Payer, Accounts

LEMMA RefundEffect ==
    ASSUME VaultTypeOK, NEW v \in VaultAddresses, NEW payout \in Payouts, NEW id \in SubTxIds,
           NEW recipient \in Users, VaultRefund(v, id, payout[1], payout[2], recipient)
    PROVE  /\ Passing
           /\ \A t \in Tokens, w \in VaultAddresses \ {v} : bal'[t][w] >= bal[t][w]
<1> DEFINE token  == payout[1]
           amount == payout[2]
           payer  == Payer(v, token)
           b      == Transfer(bal, token, payer, GATEWAY, amount)
<1>1. /\ token \in Tokens /\ amount \in Nat /\ payer \in Accounts \ {GATEWAY}
      /\ \A w \in VaultAddresses : w = payer => w = v
  BY PayoutTypes
<1>2. /\ GATEWAY \in Accounts /\ recipient \in Accounts \ {GATEWAY}
      /\ bal \in Ledgers(Tokens, Accounts)
      /\ VaultAddresses \subseteq Accounts /\ GATEWAY \notin VaultAddresses
  BY GatewayAssumption DEF Accounts, VaultTypeOK, TypeOK, DepositTypeOK
<1>3. CanPay(bal, token, payer, amount)
  BY DEF VaultRefund
<1> HIDE DEF token, amount, payer, b
<1>4. CASE Refund(b, v, id, token, amount, recipient, IF token = NATIVE THEN amount ELSE 0)
  <2>1. /\ b \in Ledgers(Tokens, Accounts)
        /\ b[token][GATEWAY] = bal[token][GATEWAY] + amount
        /\ b[token][payer] = bal[token][payer] - amount
        /\ \A t \in Tokens, a \in Accounts :
               t # token \/ a \notin {payer, GATEWAY} => b[t][a] = bal[t][a]
    BY <1>1, <1>2, <1>3, TransferEffect DEF b
  <2>2. CanPay(b, token, GATEWAY, amount) /\ bal' = Transfer(b, token, GATEWAY, recipient, amount)
    BY <1>4 DEF Refund
  <2>3. /\ bal' \in Ledgers(Tokens, Accounts)
        /\ bal'[token][GATEWAY] = b[token][GATEWAY] - amount
        /\ bal'[token][recipient] = b[token][recipient] + amount
        /\ \A t \in Tokens, a \in Accounts :
               t # token \/ a \notin {recipient, GATEWAY} => bal'[t][a] = b[t][a]
    BY <1>1, <1>2, <2>1, <2>2, TransferEffect
  <2>4. \A t \in Tokens : bal'[t][GATEWAY] = bal[t][GATEWAY]
    <3>1. bal'[token][GATEWAY] = bal[token][GATEWAY]
      BY <1>1, <1>2, <2>1, <2>3, SMT DEF Ledgers
    <3> QED BY <1>1, <1>2, <2>1, <2>3, <3>1
  <2>5. \A t \in Tokens, w \in VaultAddresses \ {v} : bal'[t][w] >= bal[t][w]
    <3> SUFFICES ASSUME NEW t \in Tokens, NEW w \in VaultAddresses \ {v}
                 PROVE  bal'[t][w] >= bal[t][w]
      OBVIOUS
    <3>1. w \in Accounts /\ w # GATEWAY /\ w # payer
      BY <1>1, <1>2
    <3>2. b[t][w] = bal[t][w] /\ b[t][w] \in Nat
      BY <1>2, <2>1, <3>1, SMT DEF Ledgers
    <3>3. bal'[t][w] = b[t][w] \/ bal'[t][w] = b[t][w] + amount
      BY <2>3, <3>1
    <3> QED BY <1>1, <3>2, <3>3, SMT
  <2> QED BY <1>4, <2>3, <2>4, <2>5 DEF Refund, Passing
<1>5. CASE RefundBySecond(v, id, token, amount, recipient)
  <2>1. bal' = Transfer(bal, token, payer, recipient, amount)
    BY <1>5 DEF RefundBySecond, payer
  <2>2. /\ bal' \in Ledgers(Tokens, Accounts)
        /\ payer # recipient => bal'[token][recipient] = bal[token][recipient] + amount
        /\ payer = recipient =>
               \A t \in Tokens, a \in Accounts : bal'[t][a] = bal[t][a]
        /\ \A t \in Tokens, a \in Accounts :
               t # token \/ a \notin {payer, recipient} => bal'[t][a] = bal[t][a]
    BY <1>1, <1>2, <1>3, <2>1, TransferEffect
  <2>3. \A t \in Tokens : bal'[t][GATEWAY] = bal[t][GATEWAY]
    BY <1>1, <1>2, <2>2
  <2>4. \A t \in Tokens, w \in VaultAddresses \ {v} : bal'[t][w] >= bal[t][w]
    <3> SUFFICES ASSUME NEW t \in Tokens, NEW w \in VaultAddresses \ {v}
                 PROVE  bal'[t][w] >= bal[t][w]
      OBVIOUS
    <3>1. w \in Accounts /\ w # payer
      BY <1>1, <1>2
    <3>2. bal[t][w] \in Nat
      BY <1>2, <3>1, SMT DEF Ledgers
    <3>3. bal'[t][w] = bal[t][w] \/ bal'[t][w] = bal[t][w] + amount
      BY <2>2, <3>1
    <3> QED BY <1>1, <3>2, <3>3, SMT
  <2> QED BY <1>5, <2>2, <2>3, <2>4 DEF RefundBySecond, Passing
<1> QED BY <1>4, <1>5 DEF VaultRefund, token, amount, b, payer

LEMMA FundingEffect ==
    ASSUME VaultTypeOK, NEW v \in VaultAddresses, NEW payout \in Payouts, NEW u \in PushAccounts,
           FinalizeAllowed(v, u, payout[1], payout[2])
    PROVE  LET b == Funding(v, u, payout[1], payout[2])
           IN  /\ b \in Ledgers(Tokens, Accounts)
               /\ \A t \in Tokens : b[t][GATEWAY] = bal[t][GATEWAY]
<1>1. /\ payout[1] \in Tokens /\ payout[2] \in Nat
      /\ Payer(v, payout[1]) \in Accounts \ {GATEWAY}
      /\ TargetCEA(v, u) \in Accounts \ {GATEWAY}
  BY PayoutTypes
<1>2. bal \in Ledgers(Tokens, Accounts) /\ GATEWAY \in Accounts
  BY DEF VaultTypeOK, TypeOK, DepositTypeOK, Accounts
<1>3. CanPay(bal, payout[1], Payer(v, payout[1]), payout[2])
  BY DEF FinalizeAllowed
<1> QED BY <1>1, <1>2, <1>3, TransferEffect DEF Funding

LEMMA FinalizeToRecipientEffect ==
    ASSUME VaultTypeOK, NEW v \in VaultAddresses, NEW payout \in Payouts, NEW u \in PushAccounts,
           NEW sent \in {0, payout[2]}, NEW recipient \in Users,
           FinalizeToRecipient(v, u, payout[1], payout[2], sent, recipient)
    PROVE  Passing
<1> DEFINE b == Funding(v, u, payout[1], payout[2])
<1>1. /\ payout[1] \in Tokens /\ sent \in Nat
      /\ TargetCEA(v, u) \in Accounts \ {GATEWAY}
  BY PayoutTypes
<1>2. recipient \in Accounts \ {GATEWAY} /\ GATEWAY \in Accounts
  BY GatewayAssumption DEF Accounts
<1>3. /\ CanPay(b, payout[1], TargetCEA(v, u), sent)
      /\ bal' = Transfer(b, payout[1], TargetCEA(v, u), recipient, sent)
      /\ FinalizeAllowed(v, u, payout[1], payout[2])
  BY DEF FinalizeToRecipient
<1>4. /\ b \in Ledgers(Tokens, Accounts)
      /\ \A t \in Tokens : b[t][GATEWAY] = bal[t][GATEWAY]
  BY <1>3, FundingEffect
<1> HIDE DEF b
<1>5. /\ bal' \in Ledgers(Tokens, Accounts)
      /\ \A t \in Tokens : bal'[t][GATEWAY] = b[t][GATEWAY]
  BY <1>1, <1>2, <1>3, <1>4, TransferEffect
<1> QED BY <1>4, <1>5 DEF FinalizeToRecipient, Passing

LEMMA FinalizeBackToPushEffect ==
    ASSUME VaultTypeOK, NEW v \in VaultAddresses, NEW payout \in Payouts, NEW u \in PushAccounts,
           NEW req \in CEARequests, NEW value \in MsgValues,
           FinalizeBackToPush(v, u, payout[1], payout[2], req, value)
    PROVE  /\ DepositEffect({0, req.amount})
           /\ LET cea == TargetCEA(v, u)
                  b   == Funding(v, u, payout[1], payout[2])
              IN  CustodyFollows(Transfer(b, NATIVE, cea, GATEWAY, value))
<1> DEFINE cea == TargetCEA(v, u)
           b   == Funding(v, u, payout[1], payout[2])
           c   == Transfer(b, NATIVE, cea, GATEWAY, value)
<1>1. /\ FinalizeAllowed(v, u, payout[1], payout[2])
      /\ CanPay(b, NATIVE, cea, value)
      /\ UNCHANGED strandedValue
      /\ \E fromCEA \in BOOLEAN :
             /\ RouteUniversalTx(c, cea, req, value, fromCEA)
             /\ IF fromCEA THEN CEAMaySend(cea, req) ELSE ~IsCEA(CEA_FACTORY, cea)
  BY DEF FinalizeBackToPush, SendUniversalTx, SendUniversalTxFromCEA
<1>2. cea \in Callers /\ cea \in Accounts \ {GATEWAY}
  BY PayoutTypes DEF Callers
<1>3. /\ req \in RequestType /\ value \in Nat
      /\ NATIVE \in Tokens \ ERC20s /\ ERC20s \subseteq Tokens /\ GATEWAY \in Accounts
  BY GatewayAssumption, VaultAssumption DEF Tokens, Accounts
<1>4. TypeOK /\ bal[NATIVE][GATEWAY] \in Nat /\ strandedValue \in Nat
  BY <1>3, SMT DEF VaultTypeOK, TypeOK, DepositTypeOK, Ledgers
<1>5. /\ b \in Ledgers(Tokens, Accounts)
      /\ \A t \in Tokens : b[t][GATEWAY] = bal[t][GATEWAY]
  BY <1>1, FundingEffect
<1> HIDE DEF b, c, cea
<1>6. /\ c \in Ledgers(Tokens, Accounts)
      /\ c[NATIVE][GATEWAY] = b[NATIVE][GATEWAY] + value
      /\ \A t \in ERC20s : c[t][GATEWAY] = b[t][GATEWAY]
  BY <1>1, <1>2, <1>3, <1>5, TransferEffect DEF c
<1>7. /\ c[NATIVE][GATEWAY] = bal[NATIVE][GATEWAY] + value + 0
      /\ strandedValue' = strandedValue + 0
      /\ \A t \in ERC20s : c[t][GATEWAY] = bal[t][GATEWAY]
  BY <1>1, <1>3, <1>4, <1>5, <1>6, SMT
<1>8. DepositEffect({0, req.amount}) /\ CustodyFollows(c)
  BY <1>1, <1>2, <1>3, <1>4, <1>6, <1>7, RoutedDeposit
<1> QED BY <1>8 DEF b, c, cea

--------------------------------------------------------------------------------
(* What a release does to custody. *)

\* The step takes an amount of a token out of custody before anything it announces comes in.
CustodyReleases(token, amount) ==
    \E b \in Ledgers(Tokens, Accounts) : CustodyMoves(bal, b, token, 0 - amount) /\ CustodyFollows(b)

\* A step without events announces nothing.
LEMMA NothingAnnounced ==
    ASSUME VaultTypeOK, bal' \in Ledgers(Tokens, Accounts),
           UNCHANGED <<totalProtocolFeesCollected, eventVars>>
    PROVE  CustodyFollows(bal')
<1>1. TSSFunds(bal') \in Int /\ \A t \in ERC20s : VaultFunds(bal', t) \in Int
  BY FundsAreInt
<1>2. /\ totalProtocolFeesCollected \in Nat /\ emittedGas \in Nat /\ NATIVE \in Tokens
      /\ \A t \in Tokens : emittedFunds[t] \in Nat
  BY DEF VaultTypeOK, TypeOK, DepositTypeOK, Tokens
<1>3. TSSFunds(bal') = TSSFunds(bal')
          + (totalProtocolFeesCollected' - totalProtocolFeesCollected)
          + (emittedGas' - emittedGas) + (emittedFunds'[NATIVE] - emittedFunds[NATIVE])
  BY <1>1, <1>2, SMT DEF eventVars
<1>4. \A t \in ERC20s : VaultFunds(bal', t) =
                            VaultFunds(bal', t) + (emittedFunds'[t] - emittedFunds[t])
  BY <1>1, <1>2, SMT DEF eventVars, Tokens
<1> QED BY <1>3, <1>4 DEF CustodyFollows

\* The payer of a release is in the custody of its token, and no account it pays is.
LEMMA PaymentLeavesCustody ==
    ASSUME VaultTypeOK, NEW v \in VaultAddresses, NEW payout \in Payouts,
           NEW to \in Users \cup CEAs \cup {GATEWAY},
           CanPay(bal, payout[1], Payer(v, payout[1]), payout[2])
    PROVE  LET b == Transfer(bal, payout[1], Payer(v, payout[1]), to, payout[2])
           IN  /\ b \in Ledgers(Tokens, Accounts)
               /\ CustodyMoves(bal, b, payout[1], 0 - payout[2])
<1> DEFINE token  == payout[1]
           amount == payout[2]
           payer  == Payer(v, token)
           b      == Transfer(bal, token, payer, to, amount)
           gain   == (IF to \in Custody(token) THEN amount ELSE 0)
                     - (IF payer \in Custody(token) THEN amount ELSE 0)
<1>1. /\ token \in Tokens /\ amount \in Nat /\ payer \in Accounts
      /\ bal \in Ledgers(Tokens, Accounts) /\ CanPay(bal, token, payer, amount)
  BY PayoutTypes DEF VaultTypeOK, TypeOK, DepositTypeOK
<1>2. /\ to \in Accounts /\ to \notin TSSAddresses \cup VaultAddresses
      /\ payer \in Custody(token)
      /\ token = NATIVE => payer \notin VaultAddresses
  BY GatewayAssumption, CustodyAssumption
     DEF Accounts, Custody, Payer, VaultTypeOK, VaultStateTypeOK
<1> HIDE DEF token, amount, payer, b
<1>3. b \in Ledgers(Tokens, Accounts) /\ CustodyMoves(bal, b, token, gain)
  BY <1>1, <1>2, CustodyTransfer DEF b
<1>4. gain = 0 - amount
  BY <1>1, <1>2, SMT DEF Custody
<1> HIDE DEF gain
<1> QED BY <1>3, <1>4 DEF b, token, amount, payer

LEMMA RefundReleases ==
    ASSUME VaultTypeOK, NEW v \in VaultAddresses, NEW payout \in Payouts, NEW id \in SubTxIds,
           NEW recipient \in Users, VaultRefund(v, id, payout[1], payout[2], recipient)
    PROVE  CustodyReleases(payout[1], payout[2])
<1> DEFINE token  == payout[1]
           amount == payout[2]
           b      == Transfer(bal, token, Payer(v, token), GATEWAY, amount)
<1>1. Passing
  BY RefundEffect
<1>2. CustodyFollows(bal')
  BY <1>1, NothingAnnounced DEF Passing
<1>3. CanPay(bal, token, Payer(v, token), amount)
  BY DEF VaultRefund
<1>4. CASE Refund(b, v, id, token, amount, recipient, IF token = NATIVE THEN amount ELSE 0)
  <2>1. b \in Ledgers(Tokens, Accounts) /\ CustodyMoves(bal, b, token, 0 - amount)
    BY <1>3, PaymentLeavesCustody
  <2>2. CanPay(b, token, GATEWAY, amount) /\ bal' = Transfer(b, token, GATEWAY, recipient, amount)
    BY <1>4 DEF Refund
  <2>3. /\ token \in Tokens /\ amount \in Nat /\ GATEWAY \in Accounts /\ recipient \in Accounts
        /\ {GATEWAY, recipient} \cap (TSSAddresses \cup VaultAddresses) = {}
    BY PayoutTypes, GatewayAssumption, CustodyAssumption DEF Accounts
  <2> HIDE DEF token, amount, b
  <2>4. CustodyMoves(b, bal', token, 0)
    BY <2>1, <2>2, <2>3, TransferOutsideCustody
  <2>5. CustodyFollows(b)
    BY <1>2, <2>1, <2>4, CustodyFollowsSince
  <2> QED BY <2>1, <2>5 DEF CustodyReleases, token, amount
<1>5. CASE RefundBySecond(v, id, token, amount, recipient)
  <2>1. bal' = Transfer(bal, token, Payer(v, token), recipient, amount)
    BY <1>5 DEF RefundBySecond
  <2>2. CustodyMoves(bal, bal', token, 0 - amount)
    BY <1>3, <2>1, PaymentLeavesCustody
  <2> QED BY <1>1, <1>2, <2>2 DEF CustodyReleases, Passing
<1> QED BY <1>4, <1>5 DEF VaultRefund

\* The CEA a finalization funds is outside custody.
LEMMA FundingReleases ==
    ASSUME VaultTypeOK, NEW v \in VaultAddresses, NEW payout \in Payouts, NEW u \in PushAccounts,
           FinalizeAllowed(v, u, payout[1], payout[2])
    PROVE  LET b == Funding(v, u, payout[1], payout[2])
           IN  /\ b \in Ledgers(Tokens, Accounts)
               /\ CustodyMoves(bal, b, payout[1], 0 - payout[2])
<1>1. TargetCEA(v, u) \in CEAs
  BY PayoutTypes
<1>2. CanPay(bal, payout[1], Payer(v, payout[1]), payout[2])
  BY DEF FinalizeAllowed
<1> QED BY <1>1, <1>2, PaymentLeavesCustody DEF Funding

LEMMA FinalizeToRecipientReleases ==
    ASSUME VaultTypeOK, NEW v \in VaultAddresses, NEW payout \in Payouts, NEW u \in PushAccounts,
           NEW sent \in {0, payout[2]}, NEW recipient \in Users,
           FinalizeToRecipient(v, u, payout[1], payout[2], sent, recipient)
    PROVE  CustodyReleases(payout[1], payout[2])
<1> DEFINE b   == Funding(v, u, payout[1], payout[2])
           cea == TargetCEA(v, u)
<1>1. Passing
  BY FinalizeToRecipientEffect
<1>2. CustodyFollows(bal')
  BY <1>1, NothingAnnounced DEF Passing
<1>3. /\ CanPay(b, payout[1], cea, sent) /\ bal' = Transfer(b, payout[1], cea, recipient, sent)
      /\ FinalizeAllowed(v, u, payout[1], payout[2])
  BY DEF FinalizeToRecipient
<1>4. b \in Ledgers(Tokens, Accounts) /\ CustodyMoves(bal, b, payout[1], 0 - payout[2])
  BY <1>3, FundingReleases
<1>5. /\ payout[1] \in Tokens /\ sent \in Nat /\ cea \in Accounts /\ recipient \in Accounts
      /\ {cea, recipient} \cap (TSSAddresses \cup VaultAddresses) = {}
  BY PayoutTypes, CustodyAssumption DEF Accounts
<1> HIDE DEF b, cea
<1>6. CustodyMoves(b, bal', payout[1], 0)
  BY <1>3, <1>4, <1>5, TransferOutsideCustody
<1>7. CustodyFollows(b)
  BY <1>2, <1>4, <1>6, CustodyFollowsSince
<1> QED BY <1>4, <1>7 DEF CustodyReleases

\* In a nested deposit the released funds come back into custody with their events.
LEMMA FinalizeBackToPushReleases ==
    ASSUME VaultTypeOK, NEW v \in VaultAddresses, NEW payout \in Payouts, NEW u \in PushAccounts,
           NEW req \in CEARequests, NEW value \in MsgValues,
           FinalizeBackToPush(v, u, payout[1], payout[2], req, value)
    PROVE  CustodyReleases(payout[1], payout[2])
<1> DEFINE cea == TargetCEA(v, u)
           b   == Funding(v, u, payout[1], payout[2])
           c   == Transfer(b, NATIVE, cea, GATEWAY, value)
<1>1. /\ FinalizeAllowed(v, u, payout[1], payout[2])
      /\ CanPay(b, NATIVE, cea, value)
  BY DEF FinalizeBackToPush, SendUniversalTx, SendUniversalTxFromCEA
<1>2. b \in Ledgers(Tokens, Accounts) /\ CustodyMoves(bal, b, payout[1], 0 - payout[2])
  BY <1>1, FundingReleases
<1>3. CustodyFollows(c)
  BY FinalizeBackToPushEffect
<1>4. /\ NATIVE \in Tokens /\ value \in Nat /\ cea \in Accounts /\ GATEWAY \in Accounts
      /\ {cea, GATEWAY} \cap (TSSAddresses \cup VaultAddresses) = {}
  BY PayoutTypes, GatewayAssumption, CustodyAssumption DEF Accounts, Tokens
<1> HIDE DEF b, cea
<1>5. CustodyMoves(b, c, NATIVE, 0)
  BY <1>1, <1>2, <1>4, TransferOutsideCustody
<1> HIDE DEF c
<1>6. CustodyFollows(b)
  BY <1>2, <1>3, <1>5, CustodyFollowsSince
<1> QED BY <1>2, <1>6 DEF CustodyReleases

--------------------------------------------------------------------------------
(* Steps of the composition, as the gateway sees them. *)

GatewayEffect ==
    DepositEffect(Nat) \/ AdminEffect \/ ChainEffect \/ Passing \/ UNCHANGED vars

LEMMA AnyDeposit == ASSUME NEW amounts, DepositEffect(amounts) PROVE DepositEffect(Nat)
BY DEF DepositEffect, Sent

LEMMA GatewayStepEffect == ASSUME TypeOK, GatewayStep PROVE GatewayEffect
BY CallerStepEffect, AnyDeposit, AdminStepEffect, ChainStepEffect
   DEF GatewayStep, GatewayEffect, Callers

LEMMA TSSStepEffect == ASSUME VaultTypeOK, TSSStep PROVE GatewayEffect
<1>1. PICK v \in VaultAddresses, payout \in Payouts :
        \/ \E id \in SubTxIds, recipient \in Users :
               VaultRefund(v, id, payout[1], payout[2], recipient)
        \/ \E u \in PushAccounts, sent \in {0, payout[2]}, recipient \in Users :
               FinalizeToRecipient(v, u, payout[1], payout[2], sent, recipient)
        \/ \E u \in PushAccounts, req \in CEARequests, value \in MsgValues :
               FinalizeBackToPush(v, u, payout[1], payout[2], req, value)
  BY DEF TSSStep
<1> QED BY <1>1, RefundEffect, FinalizeToRecipientEffect, FinalizeBackToPushEffect, AnyDeposit
        DEF GatewayEffect

LEMMA VaultStepEffect == ASSUME VaultTypeOK, [VaultNext]_allVars PROVE GatewayEffect
<1>1. CASE GatewayStep
  BY <1>1, GatewayStepEffect DEF VaultTypeOK
<1>2. CASE TSSStep
  BY <1>2, TSSStepEffect
<1>3. CASE VaultAdminStep
  BY <1>3 DEF VaultAdminStep, SetVaultPaused, SetGateway, SetVaultTSS, SetVaultCEAFactory,
              VaultUnchangedBut, GatewayEffect
<1>4. CASE UNCHANGED allVars
  BY <1>4 DEF allVars, GatewayEffect
<1> QED BY <1>1, <1>2, <1>3, <1>4 DEF VaultNext

LEMMA EffectKeepsTypes == ASSUME TypeOK, GatewayEffect PROVE TypeOK'
BY DepositKeepsTypes, AdminKeepsTypes, ChainKeepsTypes, PassingKeepsTypes, StutterKeepsTypes
   DEF GatewayEffect

\* Only a refund touches the map of executed subTxIds.
LEMMA GatewayKeepsExecuted == ASSUME TypeOK, GatewayStep PROVE UNCHANGED <<isExecuted, vaultVars>>
<1>1. \/ \E amounts : DepositEffect(amounts)
      \/ AdminEffect
      \/ ChainEffect
  BY CallerStepEffect, AdminStepEffect, ChainStepEffect DEF GatewayStep, Callers
<1> QED BY <1>1 DEF GatewayStep, DepositEffect, AdminEffect, ChainEffect, nonAdminVars, moneyVars

LEMMA FinalizeKeepsExecuted ==
    ASSUME NEW v, NEW payout, NEW u,
           \/ \E sent, recipient :
                  FinalizeToRecipient(v, u, payout[1], payout[2], sent, recipient)
           \/ \E req, value : FinalizeBackToPush(v, u, payout[1], payout[2], req, value)
    PROVE  UNCHANGED <<vaultConfig, isExecuted, isExecuted2, refundCount>>
BY DEF FinalizeToRecipient, FinalizeBackToPush, Finalized, SendUniversalTx,
       SendUniversalTxFromCEA, RouteUniversalTx, vaultConfig

--------------------------------------------------------------------------------
(* Invariants of the composition. *)

\* The subTxIds a gateway has paid back.
Executed(gw) == IF gw = GATEWAY THEN isExecuted ELSE isExecuted2

\* Each gateway counts a refund exactly for the subTxIds in its own isExecuted: that no
\* subTxId is counted twice holds because a refund is recorded in the step that pays it.
CountsMatch ==
    \A gw \in Gateways, id \in SubTxIds :
        refundCount[gw][id] = IF id \in Executed(gw) THEN 1 ELSE 0

\* A refund of any kind, from what the gateway it goes through has not paid back yet.
LEMMA RefundIsRecorded ==
    ASSUME VaultTypeOK, NEW v \in VaultAddresses, NEW payout \in Payouts, NEW id \in SubTxIds,
           NEW recipient \in Users, VaultRefund(v, id, payout[1], payout[2], recipient)
    PROVE  /\ id \notin Executed(vaultGateway[v])
           /\ \A gw \in Gateways :
                  Executed(gw)' = IF gw = vaultGateway[v] THEN Executed(gw) \cup {id}
                                  ELSE Executed(gw)
           /\ isExecuted' \subseteq SubTxIds /\ isExecuted2' \subseteq SubTxIds
           /\ refundCount' = [refundCount EXCEPT ![vaultGateway[v]][id] = @ + 1]
           /\ UNCHANGED <<vaultConfig, deployed>>
<1>1. \/ vaultGateway[v] = GATEWAY /\ id \notin isExecuted
         /\ isExecuted' = isExecuted \cup {id} /\ UNCHANGED isExecuted2
      \/ vaultGateway[v] = GATEWAY2 /\ id \notin isExecuted2
         /\ isExecuted2' = isExecuted2 \cup {id} /\ UNCHANGED isExecuted
  BY DEF VaultRefund, Refund, Fresh, RefundBySecond
<1>2. /\ refundCount' = [refundCount EXCEPT ![vaultGateway[v]][id] = @ + 1]
      /\ UNCHANGED <<vaultConfig, deployed>>
  BY DEF VaultRefund
<1>3. isExecuted \subseteq SubTxIds /\ isExecuted2 \subseteq SubTxIds
  BY DEF VaultTypeOK, VaultStateTypeOK
<1>4. GATEWAY # GATEWAY2 /\ Gateways \subseteq {GATEWAY, GATEWAY2}
  BY VaultAssumption
<1> QED BY <1>1, <1>2, <1>3, <1>4 DEF Executed

LEMMA VaultStateTypeKept ==
    ASSUME VaultTypeOK, [VaultNext]_allVars PROVE VaultStateTypeOK'
<1>1. VaultStateTypeOK /\ TypeOK
  BY DEF VaultTypeOK
<1> USE DEF vaultVars, vaultConfig
<1>2. CASE GatewayStep
  BY <1>1, <1>2, GatewayKeepsExecuted DEF VaultStateTypeOK
<1>3. CASE VaultAdminStep
  <2>1. PICK v \in VaultAddresses :
            \/ SetVaultPaused(v)
            \/ \E gw \in Gateways : SetGateway(v, gw)
            \/ \E tss \in TSSAddresses : SetVaultTSS(v, tss)
            \/ \E factory \in Factories : SetVaultCEAFactory(v, factory)
    BY <1>3 DEF VaultAdminStep
  <2>2. UNCHANGED <<isExecuted, deployed, isExecuted2, refundCount, released>>
    BY <2>1 DEF SetVaultPaused, SetGateway, SetVaultTSS, SetVaultCEAFactory,
                VaultUnchangedBut, vars, moneyVars
  <2>3. CASE SetVaultPaused(v)
    BY <1>1, <2>2, <2>3, Zenon DEF SetVaultPaused, VaultUnchangedBut, VaultStateTypeOK
  <2>4. CASE \E gw \in Gateways : SetGateway(v, gw)
    BY <1>1, <2>2, <2>4 DEF SetGateway, VaultUnchangedBut, VaultStateTypeOK
  <2>5. CASE \E tss \in TSSAddresses : SetVaultTSS(v, tss)
    BY <1>1, <2>2, <2>5 DEF SetVaultTSS, VaultUnchangedBut, VaultStateTypeOK
  <2>6. CASE \E factory \in Factories : SetVaultCEAFactory(v, factory)
    BY <1>1, <2>2, <2>6 DEF SetVaultCEAFactory, VaultUnchangedBut, VaultStateTypeOK
  <2> QED BY <2>1, <2>3, <2>4, <2>5, <2>6
<1>4. CASE TSSStep
  <2>1. PICK v \in VaultAddresses, payout \in Payouts :
        \/ \E id \in SubTxIds, recipient \in Users :
               VaultRefund(v, id, payout[1], payout[2], recipient)
        \/ \E u \in PushAccounts, sent \in {0, payout[2]}, recipient \in Users :
               FinalizeToRecipient(v, u, payout[1], payout[2], sent, recipient)
        \/ \E u \in PushAccounts, req \in CEARequests, value \in MsgValues :
               FinalizeBackToPush(v, u, payout[1], payout[2], req, value)
    BY <1>4 DEF TSSStep
  <2>2. payout[1] \in Tokens /\ payout[2] \in Nat
    BY PayoutTypes
  <2>3. ASSUME released' = [released EXCEPT ![payout[1]] = @ + payout[2]]
        PROVE  released' \in [Tokens -> Nat]
    BY <1>1, <2>2, <2>3, SMT DEF VaultStateTypeOK
  <2>4. ASSUME NEW id \in SubTxIds, NEW recipient \in Users,
               VaultRefund(v, id, payout[1], payout[2], recipient)
        PROVE  VaultStateTypeOK'
    <3>1. /\ isExecuted' \subseteq SubTxIds /\ isExecuted2' \subseteq SubTxIds
          /\ refundCount' = [refundCount EXCEPT ![vaultGateway[v]][id] = @ + 1]
          /\ UNCHANGED <<vaultConfig, deployed>>
      BY <2>4, RefundIsRecorded
    <3>2. refundCount' \in [Gateways -> [SubTxIds -> Nat]]
      BY <1>1, <3>1, SMT DEF VaultStateTypeOK
    <3>3. released' \in [Tokens -> Nat]
      BY <2>3, <2>4 DEF VaultRefund
    <3> QED BY <1>1, <3>1, <3>2, <3>3 DEF VaultStateTypeOK
  <2>5. ASSUME NEW u \in PushAccounts,
               \/ \E sent, recipient :
                      FinalizeToRecipient(v, u, payout[1], payout[2], sent, recipient)
               \/ \E req, value : FinalizeBackToPush(v, u, payout[1], payout[2], req, value)
        PROVE  VaultStateTypeOK'
    <3>1. UNCHANGED <<vaultConfig, isExecuted, isExecuted2, refundCount>>
      BY <2>5, FinalizeKeepsExecuted
    <3>2. Finalized(v, u, payout[1], payout[2])
      BY <2>5 DEF FinalizeToRecipient, FinalizeBackToPush
    <3>3. deployed' \subseteq CEAs /\ released' \in [Tokens -> Nat]
      BY <1>1, <2>3, <3>2, PayoutTypes DEF Finalized, VaultStateTypeOK
    <3> QED BY <1>1, <3>1, <3>3 DEF VaultStateTypeOK
  <2> QED BY <2>1, <2>4, <2>5
<1>5. CASE UNCHANGED allVars
  BY <1>1, <1>5 DEF allVars, vars, moneyVars, VaultStateTypeOK
<1> QED BY <1>2, <1>3, <1>4, <1>5 DEF VaultNext

\* The state of the gateway and of every Vault keeps its type, nested calls included.
THEOREM VaultTypeCorrect == VaultSpec => []VaultTypeOK
<1>1. VaultInit => VaultTypeOK
  <2> SUFFICES ASSUME VaultInit PROVE VaultTypeOK
    OBVIOUS
  <2>1. TypeOK
    BY InitTypeOK DEF VaultInit
  <2>2. vaultPaused \in [VaultAddresses -> BOOLEAN]
    BY Zenon DEF VaultInit
  <2>3. VaultStateTypeOK
    BY <2>2, GatewayAssumption, VaultAssumption DEF VaultInit, Init, VaultStateTypeOK
  <2> QED BY <2>1, <2>3 DEF VaultTypeOK
<1>2. VaultTypeOK /\ [VaultNext]_allVars => VaultTypeOK'
  BY VaultStepEffect, EffectKeepsTypes, VaultStateTypeKept DEF VaultTypeOK
<1> QED BY <1>1, <1>2, PTL DEF VaultSpec

\* With Vaults, releases and nested calls around it the gateway still keeps nothing, and
\* its roles still follow its addresses.
THEOREM VaultNothingKept == VaultSpec => []GatewayPassesEverythingOn
<1>1. VaultInit => GatewayPassesEverythingOn
  BY GatewayAssumption, SMT DEF VaultInit, Init, GatewayPassesEverythingOn
<1>2. VaultTypeOK /\ GatewayPassesEverythingOn /\ [VaultNext]_allVars
          => GatewayPassesEverythingOn'
  <2> SUFFICES ASSUME VaultTypeOK, GatewayPassesEverythingOn, [VaultNext]_allVars
               PROVE  GatewayPassesEverythingOn'
    OBVIOUS
  <2>1. CASE UNCHANGED <<bal, strandedValue>>
    BY <2>1 DEF GatewayPassesEverythingOn
  <2> QED BY <2>1, VaultStepEffect, DepositPassesOn, PassingKeepsNothing
          DEF GatewayEffect, VaultTypeOK, AdminEffect, ChainEffect, vars, nonAdminVars,
              moneyVars, eventVars
<1> QED BY <1>1, <1>2, VaultTypeCorrect, PTL DEF VaultSpec

THEOREM VaultRolesFollow == VaultSpec => []RolesFollowAddresses
<1>1. VaultInit => RolesFollowAddresses
  BY DEF VaultInit, Init, RolesFollowAddresses
<1>2. VaultTypeOK /\ RolesFollowAddresses /\ [VaultNext]_allVars => RolesFollowAddresses'
  <2> SUFFICES ASSUME VaultTypeOK, RolesFollowAddresses, [VaultNext]_allVars
               PROVE  RolesFollowAddresses'
    OBVIOUS
  <2>1. CASE AdminEffect
    BY <2>1 DEF AdminEffect
  <2>2. CASE UNCHANGED adminVars
    BY <2>2 DEF RolesFollowAddresses, adminVars, roleVars
  <2> QED BY <2>1, <2>2, VaultStepEffect
          DEF GatewayEffect, DepositEffect, ChainEffect, Passing, vars
<1> QED BY <1>1, <1>2, VaultTypeCorrect, PTL DEF VaultSpec

\* A gateway pays a subTxId back at most once, across reverts, rescues, Vaults and rotations.
THEOREM RefundedOnce == VaultSpec => []RefundedAtMostOnce
<1>1. VaultInit => CountsMatch
  BY DEF VaultInit, Init, CountsMatch, Executed
<1>2. VaultTypeOK /\ CountsMatch /\ [VaultNext]_allVars => CountsMatch'
  <2> SUFFICES ASSUME VaultTypeOK, CountsMatch, [VaultNext]_allVars PROVE CountsMatch'
    OBVIOUS
  <2>1. CASE UNCHANGED <<isExecuted, isExecuted2, refundCount>>
    BY <2>1 DEF CountsMatch, Executed
  <2>2. ASSUME NEW v \in VaultAddresses, NEW payout \in Payouts, NEW id \in SubTxIds,
               NEW recipient \in Users, VaultRefund(v, id, payout[1], payout[2], recipient)
        PROVE  CountsMatch'
    <3>1. /\ id \notin Executed(vaultGateway[v])
          /\ \A gw \in Gateways :
                 Executed(gw)' = IF gw = vaultGateway[v] THEN Executed(gw) \cup {id}
                                 ELSE Executed(gw)
          /\ refundCount' = [refundCount EXCEPT ![vaultGateway[v]][id] = @ + 1]
      BY <2>2, RefundIsRecorded
    <3>2. /\ refundCount \in [Gateways -> [SubTxIds -> Nat]]
          /\ vaultGateway[v] \in Gateways
      BY DEF VaultTypeOK, VaultStateTypeOK
    <3> SUFFICES ASSUME NEW gw \in Gateways, NEW other \in SubTxIds
                 PROVE  refundCount'[gw][other] = IF other \in Executed(gw)' THEN 1 ELSE 0
      BY DEF CountsMatch
    <3>3. refundCount[gw][other] = IF other \in Executed(gw) THEN 1 ELSE 0
      BY DEF CountsMatch
    <3>4. CASE gw = vaultGateway[v] /\ other = id
      <4>1. refundCount'[gw][other] = refundCount[gw][other] + 1
        BY <3>1, <3>2, <3>4, SMT
      <4>2. refundCount[gw][other] = 0 /\ other \in Executed(gw)'
        BY <3>1, <3>3, <3>4
      <4> QED BY <4>1, <4>2
    <3>5. CASE ~(gw = vaultGateway[v] /\ other = id)
      <4>1. refundCount'[gw][other] = refundCount[gw][other]
        BY <3>1, <3>2, <3>5, SMT
      <4>2. other \in Executed(gw)' <=> other \in Executed(gw)
        BY <3>1, <3>5
      <4> QED BY <3>3, <4>1, <4>2
    <3> QED BY <3>4, <3>5
  <2>3. CASE GatewayStep
    BY <2>1, <2>3, GatewayKeepsExecuted DEF VaultTypeOK, vaultVars
  <2>4. CASE VaultAdminStep
    BY <2>1, <2>4
       DEF VaultAdminStep, SetVaultPaused, SetGateway, SetVaultTSS, SetVaultCEAFactory,
           VaultUnchangedBut, vars, moneyVars
  <2>5. CASE TSSStep
    BY <2>1, <2>2, <2>5, FinalizeKeepsExecuted DEF TSSStep
  <2>6. CASE UNCHANGED allVars
    BY <2>1, <2>6 DEF allVars, vars, moneyVars, vaultVars
  <2> QED BY <2>3, <2>4, <2>5, <2>6 DEF VaultNext
<1>3. VaultTypeOK /\ CountsMatch => RefundedAtMostOnce
  BY SMT DEF CountsMatch, RefundedAtMostOnce
<1> QED BY <1>1, <1>2, <1>3, VaultTypeCorrect, PTL DEF VaultSpec

\* A release of a payout takes out of custody what it adds to the history.
LEMMA ReleaseBalances ==
    ASSUME VaultTypeOK, VaultTypeOK', CustodyBalances, NEW token \in Tokens, NEW amount \in Nat,
           CustodyReleases(token, amount), released' = [released EXCEPT ![token] = @ + amount]
    PROVE  CustodyBalances'
<1>1. PICK b \in Ledgers(Tokens, Accounts) :
          CustodyMoves(bal, b, token, 0 - amount) /\ CustodyFollows(b)
  BY DEF CustodyReleases
<1>2. /\ NATIVE \in Tokens /\ \A t \in ERC20s : t \in Tokens /\ t # NATIVE
      /\ InitialBalances \in Ledgers(Tokens, Accounts) /\ bal \in Ledgers(Tokens, Accounts)
  BY GatewayAssumption DEF VaultTypeOK, TypeOK, DepositTypeOK, Tokens
<1>3. /\ TSSFunds(InitialBalances) \in Int /\ TSSFunds(bal) \in Int
      /\ \A t \in ERC20s : VaultFunds(InitialBalances, t) \in Int /\ VaultFunds(bal, t) \in Int
  BY <1>2, FundsAreInt
<1>4. /\ totalProtocolFeesCollected \in Nat /\ totalProtocolFeesCollected' \in Nat
      /\ emittedGas \in Nat /\ emittedGas' \in Nat
      /\ \A t \in Tokens : emittedFunds[t] \in Nat /\ emittedFunds'[t] \in Nat
  BY DEF VaultTypeOK, TypeOK, DepositTypeOK
<1>5. \A t \in Tokens : /\ released[t] \in Nat
                        /\ released'[t] = released[t] + (IF t = token THEN amount ELSE 0)
  BY SMT DEF VaultTypeOK, VaultStateTypeOK
<1>6. /\ TSSFunds(bal) + released[NATIVE] =
             TSSFunds(InitialBalances)
             + totalProtocolFeesCollected + emittedGas + emittedFunds[NATIVE]
      /\ \A t \in ERC20s : VaultFunds(bal, t) + released[t] =
                               VaultFunds(InitialBalances, t) + emittedFunds[t]
      /\ \A v \in VaultAddresses : bal[NATIVE][v] = 0
  BY FundsOfState DEF CustodyBalances
<1> DEFINE out(t) == IF t = token THEN amount ELSE 0
<1> HIDE DEF out
<1>7. \A t \in Tokens : out(t) \in Nat /\ released'[t] = released[t] + out(t)
  BY <1>5, SMT DEF out
<1>8. /\ TSSFunds(b) = TSSFunds(bal) - out(NATIVE)
      /\ \A t \in ERC20s : VaultFunds(b, t) = VaultFunds(bal, t) - out(t)
  <2>1. CustodyMoves(bal, b, token, 0 - amount)
    BY <1>1
  <2>2. TSSFunds(b) = TSSFunds(bal) + (IF token = NATIVE THEN 0 - amount ELSE 0)
    BY <2>1 DEF CustodyMoves
  <2>3. TSSFunds(b) = TSSFunds(bal) - out(NATIVE)
    <3>1. CASE token = NATIVE
      BY <1>3, <2>2, <3>1, SMT DEF out
    <3>2. CASE token # NATIVE
      BY <1>3, <2>2, <3>2, SMT DEF out
    <3> QED BY <3>1, <3>2
  <2>4. ASSUME NEW t \in ERC20s PROVE VaultFunds(b, t) = VaultFunds(bal, t) - out(t)
    <3>1. VaultFunds(b, t) = VaultFunds(bal, t) + (IF t = token THEN 0 - amount ELSE 0)
      BY <2>1 DEF CustodyMoves
    <3>2. CASE t = token
      BY <1>3, <3>1, <3>2, SMT DEF out
    <3>3. CASE t # token
      BY <1>3, <3>1, <3>3, SMT DEF out
    <3> QED BY <3>2, <3>3
  <2> QED BY <2>3, <2>4
<1>9. TSSFunds(bal') + released'[NATIVE] =
          TSSFunds(InitialBalances)
          + totalProtocolFeesCollected' + emittedGas' + emittedFunds'[NATIVE]
  <2>1. TSSFunds(bal') = TSSFunds(b) + (totalProtocolFeesCollected' - totalProtocolFeesCollected)
                                     + (emittedGas' - emittedGas)
                                     + (emittedFunds'[NATIVE] - emittedFunds[NATIVE])
    BY <1>1 DEF CustodyFollows
  <2>2. /\ released[NATIVE] \in Nat /\ released'[NATIVE] = released[NATIVE] + out(NATIVE)
        /\ out(NATIVE) \in Nat
        /\ emittedFunds[NATIVE] \in Nat /\ emittedFunds'[NATIVE] \in Nat
    BY <1>2, <1>4, <1>5, <1>7
  <2>3. /\ TSSFunds(InitialBalances) \in Int /\ TSSFunds(bal) \in Int
        /\ totalProtocolFeesCollected \in Nat /\ totalProtocolFeesCollected' \in Nat
        /\ emittedGas \in Nat /\ emittedGas' \in Nat
    BY <1>3, <1>4
  <2>4. /\ TSSFunds(b) = TSSFunds(bal) - out(NATIVE)
        /\ TSSFunds(bal) + released[NATIVE] =
               TSSFunds(InitialBalances)
               + totalProtocolFeesCollected + emittedGas + emittedFunds[NATIVE]
    BY <1>6, <1>8
  <2> QED BY <2>1, <2>2, <2>3, <2>4, SMT
<1>10. ASSUME NEW t \in ERC20s
       PROVE  VaultFunds(bal', t) + released'[t] = VaultFunds(InitialBalances, t) + emittedFunds'[t]
  <2>1. VaultFunds(bal', t) = VaultFunds(b, t) + (emittedFunds'[t] - emittedFunds[t])
    BY <1>1 DEF CustodyFollows
  <2>2. /\ released[t] \in Nat /\ released'[t] = released[t] + out(t) /\ out(t) \in Nat
        /\ emittedFunds[t] \in Nat /\ emittedFunds'[t] \in Nat
    BY <1>2, <1>4, <1>5, <1>7
  <2> QED BY <1>3, <1>6, <1>8, <2>1, <2>2, SMT
<1>11. \A v \in VaultAddresses : bal'[NATIVE][v] = 0
  BY <1>1, <1>6 DEF CustodyMoves, CustodyFollows
<1> QED BY <1>9, <1>10, <1>11, FundsOfState DEF CustodyBalances

\* Custody, over all TSS and Vault addresses that ever served, holds what was announced to Push
\* Chain minus what the TSS released, and no Vault ever holds native coin: reverts, rescues and
\* finalizations, nested deposits included, take out what they say and nothing else does.
THEOREM CustodyBalanced == VaultSpec => []CustodyBalances
<1>1. VaultInit => CustodyBalances
  <2> SUFFICES ASSUME VaultInit PROVE CustodyBalances
    OBVIOUS
  <2>1. /\ TSSFunds(InitialBalances) \in Int
        /\ \A t \in ERC20s : VaultFunds(InitialBalances, t) \in Int
    BY GatewayAssumption, FundsAreInt
  <2>2. /\ TSSFunds(bal) + released[NATIVE] =
               TSSFunds(InitialBalances)
               + totalProtocolFeesCollected + emittedGas + emittedFunds[NATIVE]
        /\ \A t \in ERC20s : VaultFunds(bal, t) + released[t] =
                                 VaultFunds(InitialBalances, t) + emittedFunds[t]
    BY <2>1, SMT DEF VaultInit, Init, Tokens
  <2>3. \A v \in VaultAddresses : bal[NATIVE][v] = 0
    BY VaultAssumption DEF VaultInit, Init
  <2> QED BY <2>2, <2>3, FundsOfState DEF CustodyBalances
<1>2. VaultTypeOK /\ VaultTypeOK' /\ CustodyBalances /\ [VaultNext]_allVars => CustodyBalances'
  <2> SUFFICES ASSUME VaultTypeOK, VaultTypeOK', CustodyBalances, [VaultNext]_allVars
               PROVE  CustodyBalances'
    OBVIOUS
  <2>1. CASE UNCHANGED <<bal, totalProtocolFeesCollected, emittedGas, emittedFunds, released>>
    BY <2>1, FundsOfState DEF CustodyBalances
  <2>2. CASE CallsFrom(Users) /\ UNCHANGED vaultVars
    <3>1. CustodyFollows(bal)
      BY <2>2, CallerStepEffect DEF Callers, VaultTypeOK
    <3>2. released' = released
      BY <2>2 DEF vaultVars
    <3>3. CustodyReleases(NATIVE, 0)
      <4>1. bal \in Ledgers(Tokens, Accounts)
        BY DEF VaultTypeOK, TypeOK, DepositTypeOK
      <4>2. 0 - 0 = 0
        BY SMT
      <4> QED BY <3>1, <4>1, <4>2, CustodyStill DEF CustodyReleases
    <3>4. released' = [released EXCEPT ![NATIVE] = @ + 0]
      BY <3>2, SMT DEF VaultTypeOK, VaultStateTypeOK, Tokens
    <3>5. NATIVE \in Tokens /\ 0 \in Nat
      BY DEF Tokens
    <3> QED BY <3>3, <3>4, <3>5, ReleaseBalances
  <2>3. CASE GatewayStep
    BY <2>1, <2>2, <2>3, AdminStepEffect, ChainStepEffect
       DEF GatewayStep, AdminEffect, ChainEffect, nonAdminVars, moneyVars, eventVars, vaultVars,
           VaultTypeOK
  <2>4. CASE VaultAdminStep
    BY <2>1, <2>4
       DEF VaultAdminStep, SetVaultPaused, SetGateway, SetVaultTSS, SetVaultCEAFactory,
           VaultUnchangedBut, vars, moneyVars, eventVars
  <2>5. CASE TSSStep
    <3>1. PICK v \in VaultAddresses, payout \in Payouts :
            \/ \E id \in SubTxIds, recipient \in Users :
                   VaultRefund(v, id, payout[1], payout[2], recipient)
            \/ \E u \in PushAccounts, sent \in {0, payout[2]}, recipient \in Users :
                   FinalizeToRecipient(v, u, payout[1], payout[2], sent, recipient)
            \/ \E u \in PushAccounts, req \in CEARequests, value \in MsgValues :
                   FinalizeBackToPush(v, u, payout[1], payout[2], req, value)
      BY <2>5 DEF TSSStep
    <3>2. /\ payout[1] \in Tokens /\ payout[2] \in Nat
          /\ released' = [released EXCEPT ![payout[1]] = @ + payout[2]]
      BY <3>1, PayoutTypes DEF VaultRefund, FinalizeToRecipient, FinalizeBackToPush, Finalized
    <3>3. CustodyReleases(payout[1], payout[2])
      BY <3>1, RefundReleases, FinalizeToRecipientReleases, FinalizeBackToPushReleases
    <3> QED BY <3>2, <3>3, ReleaseBalances
  <2>6. CASE UNCHANGED allVars
    BY <2>1, <2>6 DEF allVars, vars, moneyVars, eventVars, vaultVars
  <2> QED BY <2>3, <2>4, <2>5, <2>6 DEF VaultNext
<1> QED BY <1>1, <1>2, VaultTypeCorrect, PTL DEF VaultSpec

\* A refund needs both contracts unpaused, and only the Vault the gateway deposits to pays.
THEOREM OnlyServingVaultRefunds == VaultSpec => RefundsByServingVault
<1> DEFINE Served ==
        /\ ~paused
        /\ ~vaultPaused[VAULT]
        /\ \A v \in VaultAddresses \ {VAULT}, t \in Tokens : bal'[t][v] >= bal[t][v]
<1>1. VaultTypeOK /\ RolesFollowAddresses /\ [VaultNext]_allVars =>
          (isExecuted' # isExecuted => Served)
  <2> SUFFICES ASSUME VaultTypeOK, RolesFollowAddresses, [VaultNext]_allVars,
                      isExecuted' # isExecuted
               PROVE  Served
    OBVIOUS
  <2>1. TSSStep
    <3>1. ~GatewayStep
      BY GatewayKeepsExecuted DEF VaultTypeOK
    <3>2. ~VaultAdminStep
      BY DEF VaultAdminStep, SetVaultPaused, SetGateway, SetVaultTSS, SetVaultCEAFactory,
             VaultUnchangedBut, vars, moneyVars
    <3> QED BY <3>1, <3>2 DEF VaultNext, allVars, vars, moneyVars
  <2>2. PICK v \in VaultAddresses, payout \in Payouts, id \in SubTxIds, recipient \in Users :
            VaultRefund(v, id, payout[1], payout[2], recipient)
    BY <2>1, FinalizeKeepsExecuted DEF TSSStep
  <2>3. ~vaultPaused[v] /\ ~paused /\ v \in roleHolders["VAULT_ROLE"]
    BY <2>2 DEF VaultRefund, Refund, RefundAccess, RefundBySecond
  <2>4. v = VAULT
    BY <2>3 DEF RolesFollowAddresses
  <2> QED BY <2>2, <2>3, <2>4, RefundEffect
<1> QED BY <1>1, VaultTypeCorrect, VaultRolesFollow, PTL DEF VaultSpec, RefundsByServingVault

================================================================================
