------------------------- MODULE UniversalGatewayProofs -------------------------
(***************************************************************************)
(* Theorems about UniversalGateway, for every value of its constants.      *)
(***************************************************************************)
EXTENDS UniversalGateway, LedgerProofs

--------------------------------------------------------------------------------
(* What a deposit does, whoever makes it by whichever entry point. *)

Callers == Users \cup CEAs

\* What the addresses in custody hold together in a ledger.
TSSFunds(b) == SumOver(b[NATIVE], TSSAddresses)
VaultFunds(b, t) == SumOver(b[t], VaultAddresses)

\* Between two ledgers custody gains an amount of one token, which may be negative; native
\* coin never moves on a Vault's own account.
CustodyMoves(b, after, token, amount) ==
    /\ TSSFunds(after) = TSSFunds(b) + (IF token = NATIVE THEN amount ELSE 0)
    /\ \A t \in ERC20s :
           VaultFunds(after, t) = VaultFunds(b, t) + (IF t = token THEN amount ELSE 0)
    /\ \A v \in VaultAddresses : after[NATIVE][v] = b[NATIVE][v]

LEMMA FundsAreInt ==
    ASSUME NEW b \in Ledgers(Tokens, Accounts)
    PROVE  TSSFunds(b) \in Int /\ \A t \in ERC20s : VaultFunds(b, t) \in Int
<1>1. /\ TSSAddresses \in SUBSET Accounts /\ VaultAddresses \in SUBSET Accounts
      /\ NATIVE \in Tokens /\ \A t \in ERC20s : t \in Tokens
  BY DEF Accounts, Tokens
<1>2. TSSFunds(b) \in Int
  <2>1. \A a \in TSSAddresses : b[NATIVE][a] \in Int
    BY <1>1, BalancesAreInt
  <2> QED BY <2>1, SumOfElement, CustodyAssumption DEF TSSFunds
<1>3. ASSUME NEW t \in ERC20s PROVE VaultFunds(b, t) \in Int
  <2>1. \A a \in VaultAddresses : b[t][a] \in Int
    BY <1>1, BalancesAreInt
  <2> QED BY <2>1, SumOfElement, CustodyAssumption DEF VaultFunds
<1> QED BY <1>2, <1>3

LEMMA CustodyStill ==
    ASSUME NEW b \in Ledgers(Tokens, Accounts), NEW token PROVE CustodyMoves(b, b, token, 0)
<1>1. TSSFunds(b) \in Int /\ \A t \in ERC20s : VaultFunds(b, t) \in Int
  BY FundsAreInt
<1>2. TSSFunds(b) = TSSFunds(b) + (IF token = NATIVE THEN 0 ELSE 0)
  BY <1>1, SMT
<1>3. \A t \in ERC20s : VaultFunds(b, t) = VaultFunds(b, t) + (IF t = token THEN 0 ELSE 0)
  BY <1>1, SMT
<1> QED BY <1>2, <1>3 DEF CustodyMoves

\* A transfer into custody, out of it, or past it. The custody of the native coin is the TSS
\* addresses, that of an ERC20 the Vault addresses.
Custody(token) == IF token = NATIVE THEN TSSAddresses ELSE VaultAddresses

LEMMA CustodyTransfer ==
    ASSUME NEW b \in Ledgers(Tokens, Accounts), NEW token \in Tokens,
           NEW from \in Accounts, NEW to \in Accounts, NEW amount \in Nat,
           CanPay(b, token, from, amount),
           token = NATIVE => from \notin VaultAddresses /\ to \notin VaultAddresses
    PROVE  LET after == Transfer(b, token, from, to, amount)
               gain  == (IF to \in Custody(token) THEN amount ELSE 0)
                        - (IF from \in Custody(token) THEN amount ELSE 0)
           IN  after \in Ledgers(Tokens, Accounts) /\ CustodyMoves(b, after, token, gain)
<1> DEFINE after == Transfer(b, token, from, to, amount)
           gain  == (IF to \in Custody(token) THEN amount ELSE 0)
                    - (IF from \in Custody(token) THEN amount ELSE 0)
<1>1. /\ TSSAddresses \in SUBSET Accounts /\ VaultAddresses \in SUBSET Accounts
      /\ NATIVE \in Tokens /\ NATIVE \notin ERC20s /\ \A t \in ERC20s : t \in Tokens
      /\ IsFiniteSet(TSSAddresses) /\ IsFiniteSet(VaultAddresses)
  BY GatewayAssumption, CustodyAssumption DEF Accounts, Tokens
<1>2. after \in Ledgers(Tokens, Accounts)
  BY TransferMoves
<1>3. TSSFunds(after) = TSSFunds(b) + (IF token = NATIVE THEN gain ELSE 0)
  <2>1. /\ TSSFunds(b) \in Int
        /\ TSSFunds(after) =
               TSSFunds(b) - (IF NATIVE = token /\ from \in TSSAddresses THEN amount ELSE 0)
                           + (IF NATIVE = token /\ to \in TSSAddresses THEN amount ELSE 0)
    BY <1>1, TransferSum DEF TSSFunds
  <2> HIDE DEF after
  <2> QED BY <2>1, SMT DEF Custody
<1>4. ASSUME NEW t \in ERC20s
      PROVE  VaultFunds(after, t) = VaultFunds(b, t) + (IF t = token THEN gain ELSE 0)
  <2>1. /\ VaultFunds(b, t) \in Int
        /\ VaultFunds(after, t) =
               VaultFunds(b, t) - (IF t = token /\ from \in VaultAddresses THEN amount ELSE 0)
                                + (IF t = token /\ to \in VaultAddresses THEN amount ELSE 0)
    BY <1>1, TransferSum DEF VaultFunds
  <2> HIDE DEF after
  <2> QED BY <1>1, <2>1, SMT DEF Custody
<1>5. ASSUME NEW v \in VaultAddresses PROVE after[NATIVE][v] = b[NATIVE][v]
  <2>1. after[NATIVE][v] =
            b[NATIVE][v] - (IF NATIVE = token /\ v = from THEN amount ELSE 0)
                         + (IF NATIVE = token /\ v = to THEN amount ELSE 0)
    BY <1>1, TransferMoves
  <2>2. b[NATIVE][v] \in Nat
    BY <1>1 DEF Ledgers
  <2> HIDE DEF after
  <2> QED BY <2>1, <2>2, SMT
<1> QED BY <1>2, <1>3, <1>4, <1>5 DEF CustodyMoves

\* A transfer between accounts outside custody moves nothing of it.
LEMMA TransferOutsideCustody ==
    ASSUME NEW b \in Ledgers(Tokens, Accounts), NEW token \in Tokens,
           NEW from \in Accounts, NEW to \in Accounts, NEW amount \in Nat,
           CanPay(b, token, from, amount),
           {from, to} \cap (TSSAddresses \cup VaultAddresses) = {}
    PROVE  CustodyMoves(b, Transfer(b, token, from, to, amount), token, 0)
<1> DEFINE after == Transfer(b, token, from, to, amount)
           gain  == (IF to \in Custody(token) THEN amount ELSE 0)
                    - (IF from \in Custody(token) THEN amount ELSE 0)
<1> HIDE DEF after
<1>1. CustodyMoves(b, after, token, gain)
  BY CustodyTransfer DEF after
<1>2. gain = 0
  BY SMT DEF Custody
<1> HIDE DEF gain
<1> QED BY <1>1, <1>2 DEF after

\* _handleDeposits leaves the gateway with what it did not deposit, and custody with what it did.
LEMMA DepositedEffect ==
    ASSUME TypeOK, NEW b \in Ledgers(Tokens, Accounts), NEW caller \in Callers,
           NEW token \in Tokens, NEW amount \in Nat,
           CanPay(b, token, IF token = NATIVE THEN GATEWAY ELSE caller, amount)
    PROVE  LET after == Deposited(b, caller, token, amount)
           IN  /\ after \in Ledgers(Tokens, Accounts)
               /\ after[NATIVE][GATEWAY] =
                      b[NATIVE][GATEWAY] - (IF token = NATIVE THEN amount ELSE 0)
               /\ \A t \in ERC20s : after[t][GATEWAY] = b[t][GATEWAY]
               /\ CustodyMoves(b, after, token, amount)
<1> DEFINE after == Deposited(b, caller, token, amount)
<1>1. /\ TSS_ADDRESS \in Accounts \ {GATEWAY} /\ VAULT \in Accounts \ {GATEWAY}
      /\ caller \in Accounts \ {GATEWAY} /\ GATEWAY \in Accounts
      /\ NATIVE \in Tokens \ ERC20s
  BY GatewayAssumption, SMT DEF TypeOK, AdminTypeOK, Accounts, Callers, Tokens
<1>2. /\ TSS_ADDRESS \in TSSAddresses \ VaultAddresses /\ VAULT \in VaultAddresses
      /\ GATEWAY \notin TSSAddresses \cup VaultAddresses
      /\ caller \notin TSSAddresses \cup VaultAddresses
  BY GatewayAssumption, CustodyAssumption, SMT DEF TypeOK, AdminTypeOK, Callers
<1>3. CASE token = NATIVE
  <2>1. after = Transfer(b, NATIVE, GATEWAY, TSS_ADDRESS, amount)
    BY <1>3, SMT DEF Deposited
  <2>2. CanPay(b, NATIVE, GATEWAY, amount)
    BY <1>3, SMT
  <2>3. /\ after \in Ledgers(Tokens, Accounts)
        /\ after[NATIVE][GATEWAY] = b[NATIVE][GATEWAY] - amount
        /\ \A t \in Tokens : t # NATIVE => after[t][GATEWAY] = b[t][GATEWAY]
    <3> HIDE DEF after
    <3> QED BY <1>1, <2>1, <2>2, TransferEffect
  <2>4. CustodyMoves(b, after, token, amount)
    <3> HIDE DEF after
    <3> DEFINE gain == (IF TSS_ADDRESS \in Custody(NATIVE) THEN amount ELSE 0)
                       - (IF GATEWAY \in Custody(NATIVE) THEN amount ELSE 0)
    <3>1. CustodyMoves(b, after, NATIVE, gain)
      BY <1>1, <1>2, <2>1, <2>2, CustodyTransfer
    <3>2. gain = amount
      BY <1>2, SMT DEF Custody
    <3> HIDE DEF gain
    <3> QED BY <1>3, <3>1, <3>2
  <2> QED BY <1>1, <1>3, <2>3, <2>4, SMT DEF Tokens
<1>4. CASE token # NATIVE
  <2>1. after = Transfer(b, token, caller, VAULT, amount)
    BY <1>4, SMT DEF Deposited
  <2>2. CanPay(b, token, caller, amount)
    BY <1>4, SMT
  <2>3. /\ after \in Ledgers(Tokens, Accounts)
        /\ \A t \in Tokens : after[t][GATEWAY] = b[t][GATEWAY]
    <3> HIDE DEF after
    <3>1. GATEWAY \notin {caller, VAULT}
      BY <1>1
    <3> QED BY <1>1, <2>1, <2>2, <3>1, TransferEffect
  <2>4. b[NATIVE][GATEWAY] - 0 = b[NATIVE][GATEWAY]
    BY <1>1, SMT DEF Ledgers
  <2>5. CustodyMoves(b, after, token, amount)
    <3> HIDE DEF after
    <3> DEFINE gain == (IF VAULT \in Custody(token) THEN amount ELSE 0)
                       - (IF caller \in Custody(token) THEN amount ELSE 0)
    <3>1. CustodyMoves(b, after, token, gain)
      BY <1>1, <1>4, <2>1, <2>2, CustodyTransfer
    <3>2. gain = amount
      BY <1>4, <1>2, SMT DEF Custody
    <3> HIDE DEF gain
    <3> QED BY <3>1, <3>2
  <2> QED BY <1>1, <1>4, <2>3, <2>4, <2>5, SMT DEF Tokens
<1> QED BY <1>3, <1>4

\* A deposit that sends gas by the instant route and funds of a token by the other one.
Sent(token, gas, funds) ==
    /\ gas \in Nat /\ funds \in Nat
    /\ QuoteEthAmountInUsd(gas) \in Nat
    /\ gas > 0 => CheckUSDCaps(gas)
    /\ CheckBlockUSDCap(gas)
    /\ \/ ConsumeRateLimit(token, funds)
       \/ funds = 0 /\ UNCHANGED usage
    /\ emittedGas' = emittedGas + gas
    /\ emittedFunds' = [emittedFunds EXCEPT ![token] = @ + funds]
    /\ epochVolume' = [epochVolume EXCEPT ![token] = @ + funds]
    /\ blockSpend' = blockSpend + QuoteEthAmountInUsd(gas)

\* Since the ledger b, custody received what the step announced, and the fee.
CustodyFollows(b) ==
    /\ TSSFunds(bal') = TSSFunds(b) + (totalProtocolFeesCollected' - totalProtocolFeesCollected)
                                    + (emittedGas' - emittedGas)
                                    + (emittedFunds'[NATIVE] - emittedFunds[NATIVE])
    /\ \A t \in ERC20s :
           VaultFunds(bal', t) = VaultFunds(b, t) + (emittedFunds'[t] - emittedFunds[t])
    /\ \A v \in VaultAddresses : bal'[NATIVE][v] = b[NATIVE][v]

\* What custody received since a ledger it received since an earlier one, too, if what moved in
\* between was not its own.
LEMMA CustodyFollowsSince ==
    ASSUME NEW b \in Ledgers(Tokens, Accounts), NEW c, NEW token,
           CustodyMoves(b, c, token, 0), CustodyFollows(c)
    PROVE  CustodyFollows(b)
<1>1. TSSFunds(b) \in Int /\ \A t \in ERC20s : VaultFunds(b, t) \in Int
  BY FundsAreInt
<1>2. TSSFunds(c) = TSSFunds(b) /\ \A t \in ERC20s : VaultFunds(c, t) = VaultFunds(b, t)
  BY <1>1, SMT DEF CustodyMoves
<1>3. \A v \in VaultAddresses : c[NATIVE][v] = b[NATIVE][v]
  BY DEF CustodyMoves
<1> QED BY <1>2, <1>3 DEF CustodyFollows

\* The gas and funds legs share the value, and the gateway keeps none of it.
LEMMA LegsShareTheValue ==
    ASSUME NEW req \in RequestType, NEW txType, NEW native \in Nat,
           SplitAllowed(req, txType, native)
    PROVE  /\ GasLeg(req, txType, native) \in Nat
           /\ FundsLeg(req, txType) \in Nat
           /\ GasLeg(req, txType, native)
                  + (IF req.token = NATIVE THEN FundsLeg(req, txType) ELSE 0) = native
BY SMT DEF RequestType, SplitAllowed, GasLeg, FundsLeg, IsFunds

LEMMA QuoteIsNat ==
    ASSUME OracleTypeOK, NEW gas \in Nat, gas > 0 => CheckUSDCaps(gas)
    PROVE  QuoteEthAmountInUsd(gas) \in Nat
<1>1. WAD \in Nat /\ WAD # 0 /\ round.answer \in Int
  BY OracleAssumption, SMT DEF OracleTypeOK, Rounds
<1>2. CASE gas = 0
  <2>1. gas * round.answer = 0
    BY <1>1, <1>2, SMT
  <2> QED BY <1>1, <2>1, QuotientIsNat DEF QuoteEthAmountInUsd
<1>3. CASE gas > 0
  <2>1. round.answer > 0
    BY <1>3, SMT DEF CheckUSDCaps, QuoteAvailable, PriceAvailable, RoundSound
  <2>2. gas * round.answer \in Nat
    BY <1>1, <2>1, SMT
  <2> QED BY <1>1, <2>2, QuotientIsNat DEF QuoteEthAmountInUsd
<1> QED BY <1>2, <1>3, SMT

LEMMA RouteEffect ==
    ASSUME TypeOK, NEW b \in Ledgers(Tokens, Accounts), NEW caller \in Callers,
           NEW req \in RequestType, NEW value \in Nat, NEW fromCEA \in BOOLEAN,
           b[NATIVE][GATEWAY] >= value,
           RouteUniversalTx(b, caller, req, value, fromCEA)
    PROVE  /\ \E gas, funds : Sent(req.token, gas, funds) /\ funds \in {0, req.amount}
           /\ bal' \in Ledgers(Tokens, Accounts)
           /\ bal'[NATIVE][GATEWAY] = b[NATIVE][GATEWAY] - value
           /\ \A t \in ERC20s : bal'[t][GATEWAY] = b[t][GATEWAY]
           /\ CustodyFollows(b)
           /\ totalProtocolFeesCollected' \in Nat
           /\ attributed' \subseteq attributed \cup CEAs \X (PushAccounts \cup {ZERO})
           /\ \A e \in attributed' \ attributed :
                  e[1] = caller /\ (fromCEA => e[2] = req.recipient)
           /\ UNCHANGED <<adminVars, clockVars, oracleVars, isExecuted>>
<1> DEFINE txType == FetchTxType(req, value)
           fee    == InboundFee(fromCEA)
           native == value - fee
           gas    == GasLeg(req, txType, native)
           funds  == FundsLeg(req, txType)
           start  == Transfer(b, NATIVE, GATEWAY, TSS_ADDRESS, fee)
           paid   == Deposited(start, caller, NATIVE, gas)
<1>1. fee \in Nat /\ value >= fee /\ totalProtocolFeesCollected' \in Nat
  BY SMT DEF RouteUniversalTx, FeeCovered, InboundFee, TypeOK, AdminTypeOK, DepositTypeOK
<1>2. SendLegs(start, caller, req, txType, native, fromCEA)
  BY DEF RouteUniversalTx
<1>3. /\ SplitAllowed(req, txType, native)
      /\ gas > 0 => CheckUSDCaps(gas)
      /\ CheckBlockUSDCap(gas)
      /\ IF IsFunds(txType)
         THEN /\ ConsumeRateLimit(req.token, funds)
              /\ DepositAllowed(paid, caller, req.token, funds)
              /\ bal' = Deposited(paid, caller, req.token, funds)
         ELSE bal' = paid /\ UNCHANGED usage
      /\ EmitUniversalTx(caller, req, txType, gas, fromCEA)
  BY <1>2 DEF SendLegs
<1>4. native \in Nat
  BY <1>1, SMT
<1> HIDE DEF fee, native, txType
<1>5. /\ gas \in Nat /\ funds \in Nat
      /\ gas + (IF req.token = NATIVE THEN funds ELSE 0) = native
  BY <1>3, <1>4, LegsShareTheValue
<1>6. /\ TSS_ADDRESS \in Accounts \ {GATEWAY} /\ GATEWAY \in Accounts
      /\ NATIVE \in Tokens \ ERC20s /\ ERC20s \subseteq Tokens /\ req.token \in Tokens
  BY GatewayAssumption, SMT DEF TypeOK, AdminTypeOK, Accounts, Tokens, RequestType
<1> HIDE DEF gas, funds, start, paid
<1>7. /\ start \in Ledgers(Tokens, Accounts)
      /\ start[NATIVE][GATEWAY] = b[NATIVE][GATEWAY] - fee
      /\ \A t \in ERC20s : start[t][GATEWAY] = b[t][GATEWAY]
      /\ CustodyMoves(b, start, NATIVE, fee)
  <2>1. CanPay(b, NATIVE, IF NATIVE = NATIVE THEN GATEWAY ELSE caller, fee)
    BY <1>1, <1>6, SMT DEF CanPay, Ledgers
  <2>2. start = Deposited(b, caller, NATIVE, fee)
    BY DEF start, Deposited
  <2> QED BY <1>1, <1>6, <2>1, <2>2, DepositedEffect
<1>8. start[NATIVE][GATEWAY] >= native /\ b[NATIVE][GATEWAY] \in Nat
  BY <1>1, <1>6, <1>7, SMT DEF native, Ledgers
<1>9. /\ paid \in Ledgers(Tokens, Accounts)
      /\ paid[NATIVE][GATEWAY] = start[NATIVE][GATEWAY] - gas
      /\ \A t \in ERC20s : paid[t][GATEWAY] = start[t][GATEWAY]
      /\ CustodyMoves(start, paid, NATIVE, gas)
  <2>1. CanPay(start, NATIVE, GATEWAY, gas)
    BY <1>5, <1>4, <1>8, <1>6, <1>7, SMT DEF CanPay, Ledgers
  <2> QED BY <1>5, <1>6, <1>7, <2>1, DepositedEffect DEF paid
<1>10. /\ bal' \in Ledgers(Tokens, Accounts)
       /\ bal'[NATIVE][GATEWAY] = b[NATIVE][GATEWAY] - value
       /\ \A t \in ERC20s : bal'[t][GATEWAY] = b[t][GATEWAY]
       /\ CustodyMoves(paid, bal', req.token, funds)
  <2>1. CASE IsFunds(txType)
    <3>1. bal' = Deposited(paid, caller, req.token, funds)
      BY <1>3, <2>1
    <3>2. CanPay(paid, req.token, IF req.token = NATIVE THEN GATEWAY ELSE caller, funds)
      <4>1. CASE req.token = NATIVE
        BY <1>4, <1>5, <1>6, <1>7, <1>8, <1>9, <4>1, SMT DEF CanPay, Ledgers
      <4>2. CASE req.token # NATIVE
        BY <1>3, <2>1, <4>2, SMT DEF DepositAllowed
      <4> QED BY <4>1, <4>2
    <3>3. /\ bal' \in Ledgers(Tokens, Accounts)
          /\ bal'[NATIVE][GATEWAY] =
                 paid[NATIVE][GATEWAY] - (IF req.token = NATIVE THEN funds ELSE 0)
          /\ \A t \in ERC20s : bal'[t][GATEWAY] = paid[t][GATEWAY]
          /\ CustodyMoves(paid, bal', req.token, funds)
      BY <1>5, <1>6, <1>9, <3>1, <3>2, DepositedEffect
    <3>4. bal'[NATIVE][GATEWAY] = b[NATIVE][GATEWAY] - value
      BY <1>1, <1>5, <1>7, <1>8, <1>9, <3>3, SMT DEF native
    <3> QED BY <1>7, <1>9, <3>3, <3>4
  <2>2. CASE ~IsFunds(txType)
    <3>1. bal' = paid /\ funds = 0
      BY <1>3, <2>2 DEF funds, FundsLeg
    <3>2. bal'[NATIVE][GATEWAY] = b[NATIVE][GATEWAY] - value
      BY <1>1, <1>5, <1>7, <1>8, <1>9, <3>1, SMT DEF native
    <3>3. CustodyMoves(paid, bal', req.token, funds)
      BY <1>9, <3>1, CustodyStill
    <3> QED BY <1>7, <1>9, <3>1, <3>2, <3>3
  <2> QED BY <2>1, <2>2
<1>11. Sent(req.token, gas, funds)
  <2>1. QuoteEthAmountInUsd(gas) \in Nat
    BY <1>3, <1>5, QuoteIsNat DEF TypeOK
  <2>2. \/ ConsumeRateLimit(req.token, funds)
        \/ funds = 0 /\ UNCHANGED usage
    <3>1. CASE IsFunds(txType)
      BY <1>3, <3>1
    <3>2. CASE ~IsFunds(txType)
      <4>1. funds = 0
        BY <3>2 DEF funds, FundsLeg
      <4> QED BY <1>3, <3>2, <4>1
    <3> QED BY <3>1, <3>2
  <2>3. /\ emittedGas' = emittedGas + gas
        /\ emittedFunds' = [emittedFunds EXCEPT ![req.token] = @ + funds]
        /\ epochVolume' = [epochVolume EXCEPT ![req.token] = @ + funds]
        /\ blockSpend' = blockSpend + QuoteEthAmountInUsd(gas)
    BY <1>3 DEF EmitUniversalTx, funds
  <2> QED BY <1>3, <1>5, <2>1, <2>2, <2>3 DEF Sent
<1>12. /\ attributed' \subseteq attributed \cup CEAs \X (PushAccounts \cup {ZERO})
       /\ \A e \in attributed' \ attributed :
              e[1] = caller /\ (fromCEA => e[2] = req.recipient)
  <2> DEFINE named == {GasRecipient(req, fromCEA), FundsRecipient(req, txType, fromCEA)}
  <2>1. attributed' \subseteq attributed \cup (IF caller \in CEAs THEN {caller} \X named ELSE {})
    BY <1>3, SMT DEF EmitUniversalTx
  <2>2. /\ named \subseteq PushAccounts \cup {ZERO}
        /\ fromCEA => named = {req.recipient}
    BY SMT DEF GasRecipient, FundsRecipient, RequestType
  <2> HIDE DEF named
  <2> QED BY <2>1, <2>2, SMT
<1>13. UNCHANGED <<adminVars, clockVars, oracleVars, isExecuted>>
  BY DEF RouteUniversalTx
<1>14. funds \in {0, req.amount}
  BY DEF funds, FundsLeg
<1>15. CustodyFollows(b)
  <2>1. /\ TSSFunds(b) \in Int /\ TSSFunds(start) = TSSFunds(b) + fee
        /\ TSSFunds(paid) = TSSFunds(start) + gas
        /\ TSSFunds(bal') = TSSFunds(paid) + (IF req.token = NATIVE THEN funds ELSE 0)
    BY <1>7, <1>9, <1>10, FundsAreInt DEF CustodyMoves
  <2>2. /\ totalProtocolFeesCollected' = totalProtocolFeesCollected + fee
        /\ totalProtocolFeesCollected \in Nat /\ emittedGas \in Nat
        /\ emittedGas' = emittedGas + gas
    BY <1>11 DEF RouteUniversalTx, Sent, TypeOK, DepositTypeOK, fee
  <2>3. \A t \in Tokens : /\ emittedFunds[t] \in Int
                          /\ emittedFunds'[t] =
                                 emittedFunds[t] + (IF t = req.token THEN funds ELSE 0)
    BY <1>6, <1>11, SMT DEF Sent, TypeOK, DepositTypeOK
  <2>4. TSSFunds(bal') = TSSFunds(b) + (totalProtocolFeesCollected' - totalProtocolFeesCollected)
                                     + (emittedGas' - emittedGas)
                                     + (emittedFunds'[NATIVE] - emittedFunds[NATIVE])
    BY <1>1, <1>5, <1>6, <2>1, <2>2, <2>3, SMT
  <2>5. ASSUME NEW t \in ERC20s
        PROVE  VaultFunds(bal', t) = VaultFunds(b, t) + (emittedFunds'[t] - emittedFunds[t])
    <3>1. t # NATIVE /\ t \in Tokens
      BY <1>6
    <3>2. /\ VaultFunds(b, t) \in Int
          /\ VaultFunds(start, t) = VaultFunds(b, t) + 0
          /\ VaultFunds(paid, t) = VaultFunds(start, t) + 0
          /\ VaultFunds(bal', t) = VaultFunds(paid, t) + (IF t = req.token THEN funds ELSE 0)
      BY <1>7, <1>9, <1>10, <3>1, FundsAreInt DEF CustodyMoves
    <3>3. /\ emittedFunds[t] \in Int
          /\ emittedFunds'[t] = emittedFunds[t] + (IF t = req.token THEN funds ELSE 0)
      BY <2>3, <3>1
    <3> QED BY <1>5, <3>2, <3>3, SMT
  <2>6. \A v \in VaultAddresses : bal'[NATIVE][v] = b[NATIVE][v]
    BY <1>7, <1>9, <1>10 DEF CustodyMoves
  <2> QED BY <2>4, <2>5, <2>6 DEF CustodyFollows
<1> QED BY <1>1, <1>10, <1>11, <1>12, <1>13, <1>14, <1>15

\* The effect of a deposit of one of the amounts on everything the theorems are about.
DepositEffect(amounts) ==
    /\ \E token \in Tokens : \E gas, funds : Sent(token, gas, funds) /\ funds \in amounts
    /\ bal' \in Ledgers(Tokens, Accounts)
    /\ strandedValue' \in Nat
    /\ bal'[NATIVE][GATEWAY] - bal[NATIVE][GATEWAY] = strandedValue' - strandedValue
    /\ \A t \in ERC20s : bal'[t][GATEWAY] = bal[t][GATEWAY]
    /\ totalProtocolFeesCollected' \in Nat
    /\ attributed' \subseteq attributed \cup CEAs \X (PushAccounts \cup {ZERO})
    /\ \A e \in attributed' \ attributed :
           IsCEA(CEA_FACTORY, e[1]) => e[2] = PushAccountOf[CEA_FACTORY][e[1]]
    /\ UNCHANGED <<adminVars, clockVars, oracleVars, isExecuted>>

\* A call that brings the gateway the value it routes, and extra native coin on top.
LEMMA RoutedDeposit ==
    ASSUME TypeOK, NEW b \in Ledgers(Tokens, Accounts), NEW caller \in Callers,
           NEW req \in RequestType, NEW value \in Nat, NEW fromCEA \in BOOLEAN,
           NEW extra \in Nat,
           b[NATIVE][GATEWAY] = bal[NATIVE][GATEWAY] + value + extra,
           \A t \in ERC20s : b[t][GATEWAY] = bal[t][GATEWAY],
           RouteUniversalTx(b, caller, req, value, fromCEA),
           strandedValue' = strandedValue + extra,
           IF fromCEA THEN CEAMaySend(caller, req) ELSE ~IsCEA(CEA_FACTORY, caller)
    PROVE  DepositEffect({0, req.amount}) /\ CustodyFollows(b)
<1>1. bal[NATIVE][GATEWAY] \in Nat /\ strandedValue \in Nat /\ req.token \in Tokens
  BY SMT DEF TypeOK, DepositTypeOK, Ledgers, Tokens, Accounts, RequestType
<1>2. b[NATIVE][GATEWAY] >= value
  BY <1>1, SMT
<1>3. /\ \E gas, funds : Sent(req.token, gas, funds) /\ funds \in {0, req.amount}
      /\ bal' \in Ledgers(Tokens, Accounts)
      /\ bal'[NATIVE][GATEWAY] = b[NATIVE][GATEWAY] - value
      /\ \A t \in ERC20s : bal'[t][GATEWAY] = b[t][GATEWAY]
      /\ CustodyFollows(b)
      /\ totalProtocolFeesCollected' \in Nat
      /\ attributed' \subseteq attributed \cup CEAs \X (PushAccounts \cup {ZERO})
      /\ \A e \in attributed' \ attributed :
             e[1] = caller /\ (fromCEA => e[2] = req.recipient)
      /\ UNCHANGED <<adminVars, clockVars, oracleVars, isExecuted>>
  BY <1>2, RouteEffect
<1>4. /\ strandedValue' \in Nat
      /\ bal'[NATIVE][GATEWAY] - bal[NATIVE][GATEWAY] = strandedValue' - strandedValue
  BY <1>1, <1>3, SMT
<1>5. \A e \in attributed' \ attributed :
          IsCEA(CEA_FACTORY, e[1]) => e[2] = PushAccountOf[CEA_FACTORY][e[1]]
  <2>1. CASE fromCEA
    BY <1>3, <2>1 DEF CEAMaySend
  <2>2. CASE ~fromCEA
    BY <1>3, <2>2
  <2> QED BY <2>1, <2>2
<1> QED BY <1>1, <1>3, <1>4, <1>5 DEF DepositEffect

\* The amounts callers ask for, and none.
Amounts == {0} \cup {req.amount : req \in Requests} \cup {r.req.amount : r \in TokenRequests}

LEMMA CallerStepEffect ==
    ASSUME TypeOK, NEW callers \in SUBSET Callers, CallsFrom(callers)
    PROVE  DepositEffect(Amounts) /\ CustodyFollows(bal)
<1>1. /\ bal \in Ledgers(Tokens, Accounts) /\ strandedValue \in Nat
      /\ GATEWAY \in Accounts /\ DEX \in Accounts \ {GATEWAY}
      /\ NATIVE \in Tokens \ ERC20s /\ ERC20s \subseteq Tokens
      /\ \A caller \in Callers : caller \in Accounts \ {GATEWAY}
      /\ Requests \subseteq RequestType /\ MsgValues \subseteq Nat
  BY GatewayAssumption, SMT DEF TypeOK, DepositTypeOK, Accounts, Tokens, Callers
<1>2. \A caller \in Callers :
          {caller, GATEWAY, DEX} \cap (TSSAddresses \cup VaultAddresses) = {}
  BY GatewayAssumption, CustodyAssumption DEF Callers
<1>3. ASSUME NEW caller \in Callers, NEW value \in Nat, CanPay(bal, NATIVE, caller, value)
      PROVE  LET b == Transfer(bal, NATIVE, caller, GATEWAY, value)
             IN  /\ b \in Ledgers(Tokens, Accounts)
                 /\ b[NATIVE][GATEWAY] = bal[NATIVE][GATEWAY] + value
                 /\ \A t \in Tokens, a \in Accounts \ {caller} :
                        t # NATIVE \/ a # GATEWAY => b[t][a] = bal[t][a]
                 /\ CustodyMoves(bal, b, NATIVE, 0)
  <2>1. NATIVE \in Tokens /\ caller \in Accounts /\ GATEWAY \in Accounts /\ caller # GATEWAY
    BY <1>1
  <2> QED BY <1>1, <1>3, <1>2, <2>1, TransferEffect, TransferOutsideCustody
<1>4. ASSUME NEW caller \in Callers, NEW req \in Requests, NEW value \in MsgValues,
             SendUniversalTx(bal, caller, req, value)
      PROVE  DepositEffect(Amounts) /\ CustodyFollows(bal)
  <2> DEFINE b == Transfer(bal, NATIVE, caller, GATEWAY, value)
  <2>1. /\ ~IsCEA(CEA_FACTORY, caller) /\ CanPay(bal, NATIVE, caller, value)
        /\ RouteUniversalTx(b, caller, req, value, FALSE)
        /\ strandedValue' = strandedValue
    BY <1>4 DEF SendUniversalTx
  <2> HIDE DEF b
  <2>2. /\ b \in Ledgers(Tokens, Accounts)
        /\ b[NATIVE][GATEWAY] = bal[NATIVE][GATEWAY] + value
        /\ \A t \in ERC20s : b[t][GATEWAY] = bal[t][GATEWAY]
        /\ CustodyMoves(bal, b, NATIVE, 0)
    BY <1>1, <1>3, <2>1 DEF b
  <2>3. /\ b[NATIVE][GATEWAY] = bal[NATIVE][GATEWAY] + value + 0
        /\ strandedValue' = strandedValue + 0
    BY <1>1, <2>1, <2>2, SMT DEF Ledgers
  <2>4. DepositEffect({0, req.amount}) /\ CustodyFollows(b)
    BY <1>1, <2>1, <2>2, <2>3, RoutedDeposit
  <2>5. CustodyFollows(bal)
    BY <1>1, <2>2, <2>4, CustodyFollowsSince
  <2> QED BY <2>4, <2>5 DEF DepositEffect, Amounts
<1>5. ASSUME NEW caller \in Callers, NEW req \in Requests, NEW value \in MsgValues,
             SendUniversalTxFromCEA(bal, caller, req, value)
      PROVE  DepositEffect(Amounts) /\ CustodyFollows(bal)
  <2> DEFINE b == Transfer(bal, NATIVE, caller, GATEWAY, value)
  <2>1. /\ CEAMaySend(caller, req) /\ CanPay(bal, NATIVE, caller, value)
        /\ RouteUniversalTx(b, caller, req, value, TRUE)
        /\ strandedValue' = strandedValue
    BY <1>5 DEF SendUniversalTxFromCEA
  <2> HIDE DEF b
  <2>2. /\ b \in Ledgers(Tokens, Accounts)
        /\ b[NATIVE][GATEWAY] = bal[NATIVE][GATEWAY] + value
        /\ \A t \in ERC20s : b[t][GATEWAY] = bal[t][GATEWAY]
        /\ CustodyMoves(bal, b, NATIVE, 0)
    BY <1>1, <1>3, <2>1 DEF b
  <2>3. /\ b[NATIVE][GATEWAY] = bal[NATIVE][GATEWAY] + value + 0
        /\ strandedValue' = strandedValue + 0
    BY <1>1, <2>1, <2>2, SMT DEF Ledgers
  <2>4. DepositEffect({0, req.amount}) /\ CustodyFollows(b)
    BY <1>1, <2>1, <2>2, <2>3, RoutedDeposit
  <2>5. CustodyFollows(bal)
    BY <1>1, <2>2, <2>4, CustodyFollowsSince
  <2> QED BY <2>4, <2>5 DEF DepositEffect, Amounts
<1>6. ASSUME NEW caller \in Callers, NEW reqToken \in TokenRequests, NEW value \in MsgValues,
             NEW ethOut \in SwapOuts \cup {reqToken.swap.gasAmount},
             SendUniversalTxWithToken(caller, reqToken.req, reqToken.swap, ethOut, value)
      PROVE  DepositEffect(Amounts) /\ CustodyFollows(bal)
  <2> DEFINE swap == reqToken.swap
             b    == Transfer(bal, NATIVE, caller, GATEWAY, value)
             sold == Transfer(b, swap.gasToken, caller, DEX, swap.gasAmount)
             c    == Transfer(sold, NATIVE, DEX, GATEWAY, ethOut)
  <2>1. /\ reqToken.req \in RequestType
        /\ swap.gasToken \in ERC20s /\ swap.gasAmount \in Nat /\ ethOut \in Nat
    <3>1. reqToken \in TokenRequestType /\ SwapOuts \subseteq Nat
      BY GatewayAssumption
    <3>2. /\ reqToken.req \in RequestType
          /\ swap \in [gasToken : ERC20s, gasAmount : Nat, amountOutMinETH : Nat, deadline : Nat]
      BY <3>1 DEF TokenRequestType
    <3> QED BY <3>1, <3>2
  <2>2. /\ ~IsCEA(CEA_FACTORY, caller)
        /\ CanPay(bal, NATIVE, caller, value)
        /\ CanPay(bal, swap.gasToken, caller, swap.gasAmount)
        /\ CanPay(bal, NATIVE, DEX, ethOut)
        /\ RouteUniversalTx(c, caller, reqToken.req, ethOut, FALSE)
        /\ strandedValue' = strandedValue + value
    BY <1>6 DEF SendUniversalTxWithToken, Swapped
  <2> HIDE DEF swap, b, sold, c
  <2>3. /\ b \in Ledgers(Tokens, Accounts)
        /\ b[NATIVE][GATEWAY] = bal[NATIVE][GATEWAY] + value
        /\ \A t \in Tokens, a \in Accounts :
               t # NATIVE \/ a \notin {caller, GATEWAY} => b[t][a] = bal[t][a]
        /\ CustodyMoves(bal, b, NATIVE, 0)
    BY <1>1, <1>2, <2>2, TransferEffect, TransferOutsideCustody DEF b
  <2>4. /\ sold \in Ledgers(Tokens, Accounts)
        /\ \A t \in Tokens, a \in Accounts :
               t # swap.gasToken \/ a \notin {caller, DEX} => sold[t][a] = b[t][a]
        /\ CustodyMoves(b, sold, swap.gasToken, 0)
    <3>1. CanPay(b, swap.gasToken, caller, swap.gasAmount)
      BY <1>1, <2>1, <2>2, <2>3, SMT DEF CanPay
    <3> QED BY <1>1, <1>2, <2>1, <2>3, <3>1, TransferEffect, TransferOutsideCustody DEF sold
  <2>5. sold[NATIVE][GATEWAY] = bal[NATIVE][GATEWAY] + value
    BY <1>1, <2>1, <2>3, <2>4
  <2>6. CanPay(sold, NATIVE, DEX, ethOut)
    <3>1. CASE caller = DEX
      BY <1>1, <3>1, GatewayAssumption DEF Callers
    <3>2. CASE caller # DEX
      <4>1. sold[NATIVE][DEX] = b[NATIVE][DEX] /\ b[NATIVE][DEX] = bal[NATIVE][DEX]
        BY <1>1, <2>1, <2>3, <2>4, <3>2
      <4> QED BY <2>2, <4>1 DEF CanPay
    <3> QED BY <3>1, <3>2
  <2>7. /\ c \in Ledgers(Tokens, Accounts)
        /\ c[NATIVE][GATEWAY] = sold[NATIVE][GATEWAY] + ethOut
        /\ \A t \in ERC20s : c[t][GATEWAY] = sold[t][GATEWAY]
        /\ CustodyMoves(sold, c, NATIVE, 0)
    <3>1. DEX \in Accounts /\ DEX # GATEWAY /\ NATIVE \in Tokens
      BY <1>1
    <3>2. \A t \in ERC20s : t \in Tokens /\ t # NATIVE
      BY <1>1
    <3>3. CustodyMoves(sold, c, NATIVE, 0)
      BY <1>1, <1>2, <2>1, <2>4, <2>6, TransferOutsideCustody DEF c
    <3> QED BY <1>1, <2>1, <2>4, <2>6, <3>1, <3>2, <3>3, TransferEffect DEF c
  <2>8. \A t \in ERC20s : c[t][GATEWAY] = bal[t][GATEWAY]
    BY <1>1, <2>3, <2>4, <2>7
  <2>9. c[NATIVE][GATEWAY] = bal[NATIVE][GATEWAY] + ethOut + value
    BY <1>1, <2>1, <2>5, <2>7, SMT DEF Ledgers
  <2>10. DepositEffect({0, reqToken.req.amount}) /\ CustodyFollows(c)
    BY <1>1, <2>1, <2>2, <2>7, <2>8, <2>9, RoutedDeposit
  <2>11. CustodyFollows(bal)
    <3>1. CustodyFollows(sold)
      BY <2>4, <2>7, <2>10, CustodyFollowsSince
    <3>2. CustodyFollows(b)
      BY <2>3, <2>4, <3>1, CustodyFollowsSince
    <3> QED BY <1>1, <2>3, <3>2, CustodyFollowsSince
  <2> QED BY <2>10, <2>11 DEF DepositEffect, Amounts
<1> QED BY <1>4, <1>5, <1>6 DEF CallsFrom

--------------------------------------------------------------------------------
(* What the administration and the chain do. *)

NoVolume == [t \in Tokens |-> 0]

\* An operation of the administration touches the configuration, and the windows of the
\* history variables only where it starts them anew.
AdminEffect ==
    /\ AdminTypeOK' /\ OracleTypeOK'
    /\ RolesFollowAddresses => RolesFollowAddresses'
    /\ \A t \in Tokens :
           \/ tokenToLimitThreshold'[t] = tokenToLimitThreshold[t]
           \/ tokenToLimitThreshold'[t] \in Thresholds
    /\ epochVolume' = NoVolume \/ UNCHANGED <<epochDurationSec, epochVolume>>
    /\ \/ blockSpend' = 0
       \/ BLOCK_USD_CAP # 0 /\ UNCHANGED blockSpend
       \/ UNCHANGED <<BLOCK_USD_CAP, blockSpend>>
    /\ UNCHANGED nonAdminVars

\* An operation that changes one setting and keeps it well typed.
LEMMA AdminStepEffect == ASSUME TypeOK, AdminStep PROVE AdminEffect
<1> USE DEF adminVars, roleVars, limitConfig, windowVars, oracleVars
<1>1. AdminTypeOK /\ OracleTypeOK
  BY DEF TypeOK
<1>2. CASE SetPaused
  BY <1>1, <1>2, SMT
     DEF SetPaused, AdminEffect, AdminTypeOK, OracleTypeOK, RolesFollowAddresses
<1>3. ASSUME NEW new \in TSSAddresses, SetTSS(new) PROVE AdminEffect
  <2>1. AdminTypeOK' /\ OracleTypeOK'
    BY <1>1, <1>3, SMT DEF SetTSS, MovedRole, AdminTypeOK, OracleTypeOK
  <2>2. RolesFollowAddresses => RolesFollowAddresses'
    BY <1>1, <1>3, SMT DEF SetTSS, MovedRole, RolesFollowAddresses, AdminTypeOK
  <2> QED BY <1>3, <2>1, <2>2 DEF SetTSS, AdminEffect
<1>4. ASSUME NEW new \in VaultAddresses, SetVault(new) PROVE AdminEffect
  <2>1. AdminTypeOK' /\ OracleTypeOK'
    BY <1>1, <1>4, SMT DEF SetVault, MovedRole, AdminTypeOK, OracleTypeOK
  <2>2. RolesFollowAddresses => RolesFollowAddresses'
    BY <1>1, <1>4, SMT DEF SetVault, MovedRole, RolesFollowAddresses, AdminTypeOK
  <2> QED BY <1>4, <2>1, <2>2 DEF SetVault, AdminEffect
<1>5. ASSUME NEW factory \in Factories, SetCEAFactory(factory) PROVE AdminEffect
  BY <1>1, <1>5, SMT
     DEF SetCEAFactory, AdminEffect, AdminTypeOK, OracleTypeOK, RolesFollowAddresses
<1>6. ASSUME NEW caps \in Caps, SetCapsUSD(caps) PROVE AdminEffect
  <2>1. caps[1] \in Nat /\ caps[2] \in Nat
    BY GatewayAssumption, SMT
  <2> QED BY <1>1, <1>6, <2>1, SMT
          DEF SetCapsUSD, AdminEffect, AdminTypeOK, OracleTypeOK, RolesFollowAddresses
<1>7. ASSUME NEW cap \in BlockCaps, SetBlockUsdCap(cap) PROVE AdminEffect
  <2>1. cap \in Nat
    BY GatewayAssumption, SMT
  <2> QED BY <1>1, <1>7, <2>1, SMT
          DEF SetBlockUsdCap, AdminEffect, AdminTypeOK, OracleTypeOK, RolesFollowAddresses
<1>8. ASSUME NEW tokens \in SUBSET Tokens, NEW batch \in [tokens -> Thresholds],
             SetTokenLimitThresholds(batch)
      PROVE  AdminEffect
  <2>1. \A t \in Tokens :
            \/ tokenToLimitThreshold'[t] = tokenToLimitThreshold[t]
            \/ tokenToLimitThreshold'[t] \in Thresholds
    BY <1>8, SMT DEF SetTokenLimitThresholds
  <2>2. tokenToLimitThreshold' \in [Tokens -> Nat]
    <3>1. Thresholds \subseteq Nat /\ tokenToLimitThreshold \in [Tokens -> Nat]
      BY <1>1, GatewayAssumption DEF AdminTypeOK
    <3>2. tokenToLimitThreshold' =
              [t \in Tokens |-> IF t \in DOMAIN batch THEN batch[t] ELSE tokenToLimitThreshold[t]]
      BY <1>8 DEF SetTokenLimitThresholds
    <3>3. \A t \in Tokens :
              (IF t \in DOMAIN batch THEN batch[t] ELSE tokenToLimitThreshold[t]) \in Nat
      <4>1. \A t \in DOMAIN batch : batch[t] \in Nat
        BY <3>1, Zenon
      <4> QED BY <3>1, <4>1, Zenon
    <3> QED BY <3>2, <3>3, SMT
  <2> QED BY <1>1, <1>8, <2>1, <2>2, SMT
          DEF SetTokenLimitThresholds, AdminEffect, AdminTypeOK, OracleTypeOK,
              RolesFollowAddresses
<1>9. ASSUME NEW sec \in Durations, UpdateEpochDuration(sec) PROVE AdminEffect
  <2>1. sec \in Nat \ {0} /\ epochVolume' = NoVolume
    BY <1>9, GatewayAssumption, SMT DEF UpdateEpochDuration, NoVolume
  <2> QED BY <1>1, <1>9, <2>1, SMT
          DEF UpdateEpochDuration, AdminEffect, AdminTypeOK, OracleTypeOK, RolesFollowAddresses
<1>10. ASSUME NEW fee \in Fees, SetProtocolFee(fee) PROVE AdminEffect
  <2>1. fee \in Nat
    BY GatewayAssumption, SMT
  <2> QED BY <1>1, <1>10, <2>1, SMT
          DEF SetProtocolFee, AdminEffect, AdminTypeOK, OracleTypeOK, RolesFollowAddresses
<1>11. ASSUME NEW config \in SwapConfigs, ConfigureSwap(config) PROVE AdminEffect
  <2>1. config \in [routers : BOOLEAN, feeOrder : FeeOrders \cup {{}}, deadlineSec : Nat]
    <3>1. SwapDeadlines \subseteq Nat
      BY GatewayAssumption
    <3> QED BY <3>1, Zenon DEF SwapConfigs
  <2>2. swapConfig' = config
    BY <1>11 DEF ConfigureSwap
  <2>3. AdminTypeOK'
    BY <1>1, <1>11, <2>1, <2>2 DEF ConfigureSwap, AdminTypeOK
  <2> QED BY <1>1, <1>11, <2>3
          DEF ConfigureSwap, AdminEffect, OracleTypeOK, RolesFollowAddresses
<1>12. CASE ConfigureOracle
  <2>1. feedConfig' \in FeedConfigs
    <3>1. feedConfig \in FeedConfigs /\ StalePeriods \subseteq Nat /\ GracePeriods \subseteq Nat
      BY <1>1, OracleAssumption DEF OracleTypeOK
    <3>2. CASE SetEthUsdFeed
      BY <3>1, <3>2, Zenon DEF SetEthUsdFeed, FeedConfigs
    <3>3. CASE \E sec \in StalePeriods : SetChainlinkStalePeriod(sec)
      BY <3>1, <3>3, SMT DEF SetChainlinkStalePeriod, FeedConfigs
    <3>4. CASE \E isSet \in BOOLEAN : SetL2SequencerFeed(isSet)
      BY <3>1, <3>4, SMT DEF SetL2SequencerFeed, FeedConfigs
    <3>5. CASE \E sec \in GracePeriods : SetL2SequencerGracePeriod(sec)
      BY <3>1, <3>5, SMT DEF SetL2SequencerGracePeriod, FeedConfigs
    <3> QED BY <1>12, <3>2, <3>3, <3>4, <3>5 DEF ConfigureOracle
  <2> QED BY <1>1, <1>12, <2>1
          DEF ConfigureOracle, AdminEffect, AdminTypeOK, OracleTypeOK, RolesFollowAddresses
<1> QED BY <1>2, <1>3, <1>4, <1>5, <1>6, <1>7, <1>8, <1>9, <1>10, <1>11, <1>12 DEF AdminStep

\* The chain moves the clock or the price, and a new block ends the windows that are over.
ChainEffect ==
    /\ WindowTypeOK' /\ OracleTypeOK'
    /\ \/ epochVolume' = NoVolume
       \/ epochVolume' = epochVolume /\ CurrentEpoch' = CurrentEpoch
    /\ blockSpend' = 0 \/ UNCHANGED <<blockNumber, blockSpend>>
    /\ UNCHANGED <<adminVars, limitState, moneyVars, eventVars>>

LEMMA ChainStepEffect == ASSUME TypeOK, ChainStep PROVE ChainEffect
<1>1. WindowTypeOK /\ OracleTypeOK
  BY DEF TypeOK
<1>2. CASE OracleMoves
  <2>1. OracleTypeOK'
    <3>1. timestamp \in Nat /\ Prices \subseteq Int /\ sequencer.up \in BOOLEAN
      BY <1>1, OracleAssumption, SMT DEF OracleTypeOK, WindowTypeOK, Sequencers
    <3>2. ASSUME NEW answer \in Prices, NEW complete \in BOOLEAN,
                 PostRound(timestamp, answer, complete)
          PROVE  OracleTypeOK'
      <4>1. [answer |-> answer, updatedAt |-> timestamp, complete |-> complete] \in Rounds
        BY <3>1, SMT DEF Rounds
      <4> QED BY <1>1, <3>2, <4>1 DEF PostRound, OracleTypeOK
    <3>3. CASE SequencerFlips(timestamp)
      <4>1. [up |-> ~sequencer.up, since |-> timestamp] \in Sequencers
        BY <3>1 DEF Sequencers
      <4> QED BY <1>1, <3>3, <4>1 DEF SequencerFlips, OracleTypeOK
    <3> QED BY <1>2, <3>2, <3>3 DEF OracleMoves
  <2>2. UNCHANGED <<adminVars, limitState, moneyVars, clockVars, eventVars, windowVars>>
    BY <1>2 DEF OracleMoves
  <2>3. CurrentEpoch' = CurrentEpoch /\ WindowTypeOK'
    BY <1>1, <2>2 DEF CurrentEpoch, WindowTypeOK, adminVars, limitConfig, clockVars, windowVars
  <2> QED BY <2>1, <2>2, <2>3 DEF ChainEffect, windowVars, clockVars
<1>3. ASSUME NEW sec \in Ticks, NewBlock(sec) PROVE ChainEffect
  <2>1. timestamp' = timestamp + sec /\ timestamp' \in Nat /\ blockNumber' \in Nat
    BY <1>1, <1>3, GatewayAssumption, SMT DEF NewBlock, WindowTypeOK
  <2>2. epochDurationSec' = epochDurationSec
    BY <1>3 DEF NewBlock, adminVars, limitConfig
  <2>3. CurrentEpoch' = EpochAt(timestamp + sec, epochDurationSec)
    BY <2>1, <2>2 DEF CurrentEpoch
  <2>4. \/ epochVolume' = NoVolume
        \/ epochVolume' = epochVolume /\ CurrentEpoch' = CurrentEpoch
    BY <1>3, <2>3 DEF NewBlock, NoVolume
  <2>5. WindowTypeOK' /\ OracleTypeOK'
    BY <1>1, <1>3, <2>1, <2>4, SMT
       DEF NewBlock, WindowTypeOK, OracleTypeOK, NoVolume, oracleVars
  <2> QED BY <1>3, <2>4, <2>5 DEF ChainEffect, NewBlock
<1> QED BY <1>2, <1>3 DEF ChainStep

--------------------------------------------------------------------------------
(* Invariants of the specification. *)

LEMMA InitTypeOK == Init => TypeOK
<1> SUFFICES ASSUME Init PROVE TypeOK
  OBVIOUS
<1> USE DEF Init
<1>1. AdminTypeOK
  <2>1. roleHolders \in [{"TSS_ROLE", "VAULT_ROLE"} -> SUBSET (VaultAddresses \cup TSSAddresses)]
    BY GatewayAssumption, SMT
  <2>2. capsUSD \in [min : Nat, max : Nat] /\ InitialEpochDuration \in Nat \ {0}
    BY GatewayAssumption, SMT
  <2>3. swapConfig \in [routers : BOOLEAN, feeOrder : FeeOrders \cup {{}}, deadlineSec : Nat]
    <3>1. SwapDeadlines \subseteq Nat
      BY GatewayAssumption
    <3> QED BY <3>1, Zenon
  <2>4. /\ TSS_ADDRESS \in TSSAddresses /\ VAULT \in VaultAddresses
        /\ CEA_FACTORY \in Factories \cup {ZERO}
        /\ BLOCK_USD_CAP \in Nat /\ INBOUND_FEE \in Nat
        /\ tokenToLimitThreshold \in [Tokens -> Nat]
    BY GatewayAssumption, SMT
  <2>5. paused \in BOOLEAN
    OBVIOUS
  <2> QED BY <2>1, <2>2, <2>3, <2>4, <2>5 DEF AdminTypeOK
<1>2. DepositTypeOK /\ WindowTypeOK
  BY GatewayAssumption, SMT DEF DepositTypeOK, WindowTypeOK
<1>3. OracleTypeOK
  <2>1. InitialTime \in Nat /\ InitialStalePeriod \in Nat /\ Prices \subseteq Int
    BY GatewayAssumption, OracleAssumption
  <2>2. feedConfig \in FeedConfigs /\ sequencer \in Sequencers
    BY <2>1, Zenon DEF OracleInit, FeedConfigs, Sequencers
  <2>3. round \in Rounds
    BY <2>1, Zenon DEF OracleInit, Rounds
  <2> QED BY <2>2, <2>3 DEF OracleTypeOK
<1> QED BY <1>1, <1>2, <1>3 DEF TypeOK

\* The limiter stores numbers that fit: uint192 truncates whatever the sum was.
LEMMA UsageTypeKept ==
    ASSUME TypeOK, NEW token \in Tokens, NEW funds \in Nat, ConsumeRateLimit(token, funds)
    PROVE  usage' \in [Tokens -> [epoch : Nat, used : 0 .. UINT192 - 1]]
<1>1. /\ usage \in [Tokens -> [epoch : Nat, used : 0 .. UINT192 - 1]]
      /\ timestamp \in Nat /\ epochDurationSec \in Nat /\ epochDurationSec # 0
      /\ UINT256 \in Nat /\ UINT256 # 0 /\ UINT192 \in Nat /\ UINT192 # 0
  BY GatewayAssumption, SMT DEF TypeOK, AdminTypeOK, DepositTypeOK, WindowTypeOK
<1>2. CurrentEpoch \in Nat
  BY <1>1, QuotientIsNat DEF CurrentEpoch, EpochAt
<1>3. UsedNow(token) + funds \in Nat
  BY <1>1, SMT DEF UsedNow
<1>4. NewUsed(token, funds) \in Nat
  BY <1>1, <1>3, RemainderInRange, SMT DEF NewUsed
<1>5. NewUsed(token, funds) % UINT192 \in 0 .. UINT192 - 1
  BY <1>1, <1>4, RemainderInRange
<1>6. RecordedUsage(token, funds) \in [epoch : Nat, used : 0 .. UINT192 - 1]
  BY <1>2, <1>5 DEF RecordedUsage
<1> QED BY <1>1, <1>6 DEF ConsumeRateLimit

LEMMA DepositKeepsTypes ==
    ASSUME TypeOK, NEW amounts, DepositEffect(amounts) PROVE TypeOK'
<1>1. PICK token \in Tokens, gas \in Nat, funds \in Nat : Sent(token, gas, funds)
  BY DEF DepositEffect, Sent
<1>2. /\ gas \in Nat /\ funds \in Nat /\ QuoteEthAmountInUsd(gas) \in Nat
      /\ emittedGas' = emittedGas + gas
      /\ emittedFunds' = [emittedFunds EXCEPT ![token] = @ + funds]
      /\ epochVolume' = [epochVolume EXCEPT ![token] = @ + funds]
      /\ blockSpend' = blockSpend + QuoteEthAmountInUsd(gas)
  BY <1>1 DEF Sent
<1>3. AdminTypeOK' /\ OracleTypeOK'
  BY DEF DepositEffect, TypeOK, AdminTypeOK, OracleTypeOK, adminVars, roleVars, limitConfig,
         oracleVars
<1>4. WindowTypeOK'
  BY <1>2, SMT DEF DepositEffect, TypeOK, WindowTypeOK, clockVars
<1>5. lastBlockNumber' \in Nat /\ consumedUSDinBlock' \in Nat
  BY <1>1, <1>2, SMT
     DEF Sent, CheckBlockUSDCap, BlockUsed, TypeOK, DepositTypeOK, WindowTypeOK
<1>6. usage' \in [Tokens -> [epoch : Nat, used : 0 .. UINT192 - 1]]
  <2>1. CASE ConsumeRateLimit(token, funds)
    BY <1>2, <2>1, UsageTypeKept
  <2>2. CASE UNCHANGED usage
    BY <2>2 DEF TypeOK, DepositTypeOK
  <2> QED BY <1>1, <2>1, <2>2 DEF Sent
<1>7. emittedGas' \in Nat /\ emittedFunds' \in [Tokens -> Nat]
  BY <1>2, SMT DEF TypeOK, DepositTypeOK
<1>8. attributed' \subseteq CEAs \X (PushAccounts \cup {ZERO})
  BY DEF DepositEffect, TypeOK, DepositTypeOK
<1>9. DepositTypeOK'
  BY <1>5, <1>6, <1>7, <1>8 DEF DepositEffect, DepositTypeOK
<1> QED BY <1>3, <1>4, <1>9 DEF TypeOK

LEMMA AdminKeepsTypes == ASSUME TypeOK, AdminEffect PROVE TypeOK'
<1>1. DepositTypeOK' /\ blockNumber' \in Nat /\ timestamp' \in Nat
  BY DEF AdminEffect, nonAdminVars, limitState, moneyVars, clockVars, eventVars, TypeOK,
         DepositTypeOK, WindowTypeOK
<1>2. epochVolume' \in [Tokens -> Nat] /\ blockSpend' \in Nat
  BY SMT DEF AdminEffect, NoVolume, TypeOK, WindowTypeOK
<1> QED BY <1>1, <1>2 DEF AdminEffect, TypeOK, WindowTypeOK

LEMMA ChainKeepsTypes == ASSUME TypeOK, ChainEffect PROVE TypeOK'
BY DEF ChainEffect, TypeOK, AdminTypeOK, DepositTypeOK, adminVars, roleVars, limitConfig,
       limitState, moneyVars, eventVars

LEMMA StutterKeepsTypes == ASSUME TypeOK, UNCHANGED vars PROVE TypeOK'
BY DEF vars, TypeOK, AdminTypeOK, DepositTypeOK, WindowTypeOK, OracleTypeOK, adminVars,
       roleVars, limitConfig, limitState, moneyVars, clockVars, eventVars, windowVars,
       oracleVars

\* Every step of the specification is a deposit, an operation of the administration, a
\* move of the chain, or none of them.
LEMMA StepEffects ==
    ASSUME TypeOK, [Next]_vars
    PROVE  DepositEffect(Amounts) \/ AdminEffect \/ ChainEffect \/ UNCHANGED vars
BY CallerStepEffect, AdminStepEffect, ChainStepEffect DEF Next, CallerStep, Callers

\* The state of the gateway and of the history variables keeps its type.
THEOREM TypeCorrect == Spec => []TypeOK
<1>1. TypeOK /\ [Next]_vars => TypeOK'
  BY StepEffects, DepositKeepsTypes, AdminKeepsTypes, ChainKeepsTypes, StutterKeepsTypes
<1> QED BY InitTypeOK, <1>1, PTL DEF Spec

\* The gateway deposits to the one address that holds the role of the receiver.
THEOREM RolesFollow == Spec => []RolesFollowAddresses
<1>1. Init => RolesFollowAddresses
  BY DEF Init, RolesFollowAddresses
<1>2. TypeOK /\ RolesFollowAddresses /\ [Next]_vars => RolesFollowAddresses'
  <2> SUFFICES ASSUME TypeOK, RolesFollowAddresses, [Next]_vars PROVE RolesFollowAddresses'
    OBVIOUS
  <2>1. CASE AdminEffect
    BY <2>1 DEF AdminEffect
  <2>2. CASE UNCHANGED adminVars
    BY <2>2 DEF RolesFollowAddresses, adminVars, roleVars
  <2> QED BY <2>1, <2>2, StepEffects DEF DepositEffect, ChainEffect, vars
<1> QED BY <1>1, <1>2, TypeCorrect, PTL DEF Spec

LEMMA DepositPassesOn ==
    ASSUME TypeOK, GatewayPassesEverythingOn, NEW amounts, DepositEffect(amounts)
    PROVE  GatewayPassesEverythingOn'
<1>1. bal'[NATIVE][GATEWAY] \in Nat /\ bal[NATIVE][GATEWAY] \in Nat
  BY SMT DEF DepositEffect, TypeOK, DepositTypeOK, Ledgers, Tokens, Accounts
<1>2. strandedValue' \in Nat /\ strandedValue \in Nat
  BY DEF DepositEffect, TypeOK, DepositTypeOK
<1> QED BY <1>1, <1>2, SMT DEF DepositEffect, GatewayPassesEverythingOn

\* The gateway keeps no user money between transactions, whatever the split of msg.value,
\* the fee, the swap and the two deposits of a batch were.
THEOREM NothingKept == Spec => []GatewayPassesEverythingOn
<1>1. Init => GatewayPassesEverythingOn
  BY GatewayAssumption, SMT DEF Init, GatewayPassesEverythingOn
<1>2. TypeOK /\ GatewayPassesEverythingOn /\ [Next]_vars => GatewayPassesEverythingOn'
  <2> SUFFICES ASSUME TypeOK, GatewayPassesEverythingOn, [Next]_vars
               PROVE  GatewayPassesEverythingOn'
    OBVIOUS
  <2>1. CASE DepositEffect(Amounts)
    BY <2>1, DepositPassesOn
  <2>2. CASE UNCHANGED <<bal, strandedValue>>
    BY <2>2 DEF GatewayPassesEverythingOn
  <2> QED BY <2>1, <2>2, StepEffects
          DEF AdminEffect, ChainEffect, vars, nonAdminVars, moneyVars, eventVars
<1> QED BY <1>1, <1>2, TypeCorrect, PTL DEF Spec

LEMMA FundsOfState ==
    /\ InitiallyFunded(NATIVE, TSSAddresses) = TSSFunds(InitialBalances)
    /\ Funded(NATIVE, TSSAddresses) = TSSFunds(bal)
    /\ Funded(NATIVE, TSSAddresses)' = TSSFunds(bal')
    /\ \A t \in ERC20s : /\ InitiallyFunded(t, VaultAddresses) = VaultFunds(InitialBalances, t)
                         /\ Funded(t, VaultAddresses) = VaultFunds(bal, t)
                         /\ Funded(t, VaultAddresses)' = VaultFunds(bal', t)
BY DEF InitiallyFunded, Funded, TSSFunds, VaultFunds, SumOver, MapThenSumSet, MapThenFoldSet

LEMMA DepositIsBacked ==
    ASSUME TypeOK, TypeOK', EventsBacked, CustodyFollows(bal) PROVE EventsBacked'
<1>1. /\ bal \in Ledgers(Tokens, Accounts) /\ NATIVE \in Tokens /\ \A t \in ERC20s : t \in Tokens
      /\ InitialBalances \in Ledgers(Tokens, Accounts)
  BY GatewayAssumption DEF TypeOK, DepositTypeOK, Tokens
<1>2. /\ TSSFunds(bal) = TSSFunds(InitialBalances)
                         + totalProtocolFeesCollected + emittedGas + emittedFunds[NATIVE]
      /\ \A t \in ERC20s : VaultFunds(bal, t) = VaultFunds(InitialBalances, t) + emittedFunds[t]
  BY FundsOfState DEF EventsBacked
<1>3. /\ TSSFunds(InitialBalances) \in Int
      /\ \A t \in ERC20s : VaultFunds(InitialBalances, t) \in Int
  BY <1>1, FundsAreInt
<1>4. /\ totalProtocolFeesCollected \in Nat /\ totalProtocolFeesCollected' \in Nat
      /\ emittedGas \in Nat /\ emittedGas' \in Nat
      /\ \A t \in Tokens : emittedFunds[t] \in Nat /\ emittedFunds'[t] \in Nat
  BY DEF TypeOK, DepositTypeOK
<1>5. TSSFunds(bal') = TSSFunds(InitialBalances)
                       + totalProtocolFeesCollected' + emittedGas' + emittedFunds'[NATIVE]
  BY <1>1, <1>2, <1>3, <1>4, SMT DEF CustodyFollows
<1>6. \A t \in ERC20s : VaultFunds(bal', t) = VaultFunds(InitialBalances, t) + emittedFunds'[t]
  BY <1>1, <1>2, <1>3, <1>4, SMT DEF CustodyFollows
<1> QED BY <1>5, <1>6, FundsOfState DEF EventsBacked

\* Every amount announced to Push Chain is in custody, in the custody of the addresses of its
\* token, along every entry point: no split of msg.value loses, doubles or misroutes any of it.
THEOREM CustodyBacksEvents == Spec => []EventsBacked
<1>1. Init => EventsBacked
  <2> SUFFICES ASSUME Init PROVE EventsBacked
    OBVIOUS
  <2>1. /\ TSSFunds(InitialBalances) \in Int
        /\ \A t \in ERC20s : VaultFunds(InitialBalances, t) \in Int
    BY GatewayAssumption, FundsAreInt
  <2>2. /\ TSSFunds(bal) = TSSFunds(InitialBalances)
                           + totalProtocolFeesCollected + emittedGas + emittedFunds[NATIVE]
        /\ \A t \in ERC20s : VaultFunds(bal, t) = VaultFunds(InitialBalances, t) + emittedFunds[t]
    BY <2>1, SMT DEF Init, Tokens
  <2> QED BY <2>2, FundsOfState DEF EventsBacked
<1>2. TypeOK /\ TypeOK' /\ EventsBacked /\ [Next]_vars => EventsBacked'
  <2> SUFFICES ASSUME TypeOK, TypeOK', EventsBacked, [Next]_vars PROVE EventsBacked'
    OBVIOUS
  <2>1. CASE CallerStep
    BY <2>1, CallerStepEffect, DepositIsBacked DEF CallerStep, Callers
  <2>2. CASE UNCHANGED <<bal, totalProtocolFeesCollected, emittedGas, emittedFunds>>
    BY <2>2, FundsOfState DEF EventsBacked
  <2> QED BY <2>1, <2>2, AdminStepEffect, ChainStepEffect
          DEF Next, AdminEffect, ChainEffect, vars, nonAdminVars, moneyVars, eventVars
<1> QED BY <1>1, <1>2, TypeCorrect, PTL DEF Spec

\* While a factory vouches for a CEA, its events name the mapped UEA.
THEOREM CEAsNameTheirUEA == Spec => CEAEventsNameTheirUEA
<1>1. TypeOK /\ [Next]_vars =>
          \A e \in attributed' \ attributed :
              IsCEA(CEA_FACTORY, e[1]) => e[2] = PushAccountOf[CEA_FACTORY][e[1]]
  BY StepEffects DEF DepositEffect, AdminEffect, ChainEffect, vars, nonAdminVars, eventVars
<1> QED BY <1>1, TypeCorrect, PTL DEF Spec, CEAEventsNameTheirUEA

\* No call moves native coin by the instant route outside the USD caps in force.
THEOREM GasStaysWithinCaps == Spec => GasWithinCaps
<1> DEFINE Within == LET usd == QuoteEthAmountInUsd(emittedGas' - emittedGas)
                     IN  capsUSD.min <= usd /\ usd <= capsUSD.max
<1>1. TypeOK /\ [Next]_vars => (emittedGas' # emittedGas => Within)
  <2> SUFFICES ASSUME TypeOK, [Next]_vars, emittedGas' # emittedGas PROVE Within
    OBVIOUS
  <2>1. DepositEffect(Amounts)
    BY StepEffects DEF AdminEffect, ChainEffect, vars, nonAdminVars, eventVars
  <2>2. PICK gas \in Nat : emittedGas' = emittedGas + gas /\ (gas > 0 => CheckUSDCaps(gas))
    BY <2>1 DEF DepositEffect, Sent
  <2>3. gas > 0 /\ emittedGas' - emittedGas = gas
    BY <2>2, SMT DEF TypeOK, DepositTypeOK
  <2> QED BY <2>2, <2>3 DEF CheckUSDCaps
<1> QED BY <1>1, TypeCorrect, PTL DEF Spec, GasWithinCaps

--------------------------------------------------------------------------------
(* The USD budget of a block. *)

\* What was spent since the block began, or since the cap was enabled, is recorded: the
\* property alone is not inductive, because a cap switched off records nothing.
BlockInv == BLOCK_USD_CAP # 0 => blockSpend <= BlockUsed

LEMMA BlockStep ==
    ASSUME TypeOK, BlockInv, [Next]_vars
    PROVE  /\ BlockInv'
           /\ emittedGas' # emittedGas /\ BLOCK_USD_CAP # 0 => blockSpend' <= BLOCK_USD_CAP
<1>1. /\ blockSpend \in Nat /\ lastBlockNumber \in Nat /\ consumedUSDinBlock \in Nat
      /\ BLOCK_USD_CAP \in Nat /\ BlockUsed \in Nat /\ emittedGas \in Nat
  BY SMT DEF TypeOK, AdminTypeOK, DepositTypeOK, WindowTypeOK, BlockUsed
<1>2. TypeOK' /\ BlockUsed' \in Nat
  <2>1. TypeOK'
    BY StepEffects, DepositKeepsTypes, AdminKeepsTypes, ChainKeepsTypes, StutterKeepsTypes
  <2> QED BY <2>1, SMT DEF TypeOK, DepositTypeOK, BlockUsed
<1>3. CASE DepositEffect(Amounts)
  <2>1. PICK gas \in Nat :
            /\ QuoteEthAmountInUsd(gas) \in Nat
            /\ CheckBlockUSDCap(gas)
            /\ emittedGas' = emittedGas + gas
            /\ blockSpend' = blockSpend + QuoteEthAmountInUsd(gas)
    BY <1>3 DEF DepositEffect, Sent
  <2>2. BLOCK_USD_CAP' = BLOCK_USD_CAP /\ blockNumber' = blockNumber
    BY <1>3 DEF DepositEffect, adminVars, limitConfig, clockVars
  <2>3. CASE gas = 0
    <3>1. QuoteEthAmountInUsd(gas) = 0
      <4>1. 0 * round.answer = 0 /\ WAD \in Nat /\ WAD # 0
        BY OracleAssumption, SMT DEF TypeOK, OracleTypeOK, Rounds
      <4>2. 0 \div WAD = 0
        BY <4>1, SMT
      <4> QED BY <2>3, <4>1, <4>2 DEF QuoteEthAmountInUsd
    <3>2. blockSpend' = blockSpend /\ BlockUsed' = BlockUsed /\ emittedGas' = emittedGas
      BY <1>1, <2>1, <2>2, <2>3, <3>1, SMT DEF CheckBlockUSDCap, BlockUsed
    <3> QED BY <2>2, <3>2 DEF BlockInv
  <2>4. CASE gas # 0 /\ BLOCK_USD_CAP # 0
    <3>1. /\ BlockUsed' = BlockUsed + QuoteEthAmountInUsd(gas)
          /\ BlockUsed + QuoteEthAmountInUsd(gas) <= BLOCK_USD_CAP
      BY <2>1, <2>2, <2>4 DEF CheckBlockUSDCap, WithinBlockUSDCap, BlockUsed
    <3> QED BY <1>1, <2>1, <2>2, <2>4, <3>1, SMT DEF BlockInv
  <2>5. CASE BLOCK_USD_CAP = 0
    BY <2>2, <2>5 DEF BlockInv
  <2> QED BY <2>3, <2>4, <2>5
<1>4. CASE AdminEffect \/ ChainEffect \/ UNCHANGED vars
  <2>1. emittedGas' = emittedGas /\ UNCHANGED limitState
    BY <1>4 DEF AdminEffect, ChainEffect, vars, nonAdminVars, eventVars
  <2>2. \/ blockSpend' = 0
        \/ /\ UNCHANGED <<blockSpend, blockNumber>>
           /\ BLOCK_USD_CAP' # 0 => BLOCK_USD_CAP # 0
    BY <1>4 DEF AdminEffect, ChainEffect, vars, nonAdminVars, clockVars, windowVars, adminVars,
                limitConfig
  <2>3. CASE blockSpend' = 0
    BY <1>2, <2>1, <2>3, SMT DEF BlockInv
  <2>4. CASE /\ UNCHANGED <<blockSpend, blockNumber>>
             /\ BLOCK_USD_CAP' # 0 => BLOCK_USD_CAP # 0
    BY <2>1, <2>4 DEF BlockInv, BlockUsed, limitState
  <2> QED BY <2>1, <2>2, <2>3, <2>4
<1> QED BY <1>3, <1>4, StepEffects

\* While the block cap is on, every deposit leaves the gas of the block within it.
THEOREM BlockBudget == Spec => BlockBudgetHolds
<1>1. Init => BlockInv
  BY DEF Init, BlockInv
<1>2. TypeOK /\ BlockInv /\ [Next]_vars => BlockInv'
  BY BlockStep
<1>3. TypeOK /\ BlockInv /\ [Next]_vars =>
          (emittedGas' # emittedGas /\ BLOCK_USD_CAP # 0 => blockSpend' <= BLOCK_USD_CAP)
  BY BlockStep
<1> QED BY <1>1, <1>2, <1>3, TypeCorrect, PTL DEF Spec, BlockBudgetHolds

--------------------------------------------------------------------------------
(* The quota of a token in an epoch. *)

\* No caller asks for an amount so large that the unchecked sum of _consumeRateLimit wraps:
\* no token has a supply near 2^256, and a deposit that cannot be paid reverts.
AmountsBelowWrap == \A amount \in Amounts : amount + UINT192 <= UINT256

\* Every threshold fits the uint192 the usage is stored in.
ThresholdsFit == \A threshold \in Thresholds : threshold < UINT192

\* What was deposited in this epoch of this schedule is recorded: the lazily reset counter
\* never counts less than that, though it may count more after a change of the duration.
EpochInv ==
    /\ \A t \in Tokens : epochVolume[t] <= UsedNow(t)
    /\ \A t \in Tokens : tokenToLimitThreshold[t] < UINT192

LEMMA EpochStep ==
    ASSUME AmountsBelowWrap, ThresholdsFit, TypeOK, EpochInv, [Next]_vars
    PROVE  /\ EpochInv'
           /\ \A t \in Tokens : emittedFunds'[t] # emittedFunds[t] =>
                  epochVolume'[t] <= tokenToLimitThreshold[t]
<1>1. /\ usage \in [Tokens -> [epoch : Nat, used : 0 .. UINT192 - 1]]
      /\ epochVolume \in [Tokens -> Nat] /\ emittedFunds \in [Tokens -> Nat]
      /\ UINT256 \in Nat /\ UINT256 # 0 /\ UINT192 \in Nat /\ UINT192 # 0
      /\ tokenToLimitThreshold \in [Tokens -> Nat]
  BY GatewayAssumption, SMT DEF TypeOK, AdminTypeOK, DepositTypeOK, WindowTypeOK
<1>2. \A t \in Tokens : UsedNow(t) \in 0 .. UINT192 - 1
  BY <1>1, SMT DEF UsedNow
<1>3. TypeOK' /\ \A t \in Tokens : UsedNow(t)' \in Nat
  <2>1. TypeOK'
    BY StepEffects, DepositKeepsTypes, AdminKeepsTypes, ChainKeepsTypes, StutterKeepsTypes
  <2> QED BY <2>1, SMT DEF TypeOK, DepositTypeOK, UsedNow
<1>4. CASE DepositEffect(Amounts)
  <2>1. PICK token \in Tokens, funds \in Nat :
            /\ \/ ConsumeRateLimit(token, funds)
               \/ funds = 0 /\ UNCHANGED usage
            /\ emittedFunds' = [emittedFunds EXCEPT ![token] = @ + funds]
            /\ epochVolume' = [epochVolume EXCEPT ![token] = @ + funds]
            /\ funds + UINT192 <= UINT256
    BY <1>4 DEF DepositEffect, Sent, AmountsBelowWrap
  <2>2. /\ CurrentEpoch' = CurrentEpoch
        /\ tokenToLimitThreshold' = tokenToLimitThreshold
    BY <1>4 DEF DepositEffect, adminVars, limitConfig, clockVars, CurrentEpoch
  <2>3. /\ epochVolume'[token] = epochVolume[token] + funds
        /\ \A t \in Tokens : t # token => /\ epochVolume'[t] = epochVolume[t]
                                          /\ emittedFunds'[t] = emittedFunds[t]
    BY <1>1, <2>1, SMT
  <2>4. CASE ConsumeRateLimit(token, funds)
    <3>1. NewUsed(token, funds) <= tokenToLimitThreshold[token]
      BY <2>4 DEF ConsumeRateLimit, WithinRateLimit
    <3>2. UsedNow(token) + funds \in Nat /\ UsedNow(token) + funds < UINT256
      BY <1>1, <1>2, <2>1, SMT
    <3>3. NewUsed(token, funds) = UsedNow(token) + funds
      BY <1>1, <3>2, RemainderOfSmall DEF NewUsed
    <3>4. UsedNow(token) + funds < UINT192
      BY <1>1, <3>1, <3>2, <3>3, SMT DEF EpochInv
    <3>5. NewUsed(token, funds) % UINT192 = UsedNow(token) + funds
      BY <1>1, <3>2, <3>3, <3>4, RemainderOfSmall
    <3>6. usage' = [usage EXCEPT ![token] =
                        [epoch |-> CurrentEpoch, used |-> UsedNow(token) + funds]]
      BY <2>4, <3>5 DEF ConsumeRateLimit, RecordedUsage
    <3>7. /\ UsedNow(token)' = UsedNow(token) + funds
          /\ \A t \in Tokens : t # token => UsedNow(t)' = UsedNow(t)
      BY <1>1, <2>2, <3>6, SMT DEF UsedNow
    <3>8. epochVolume'[token] <= UsedNow(token) + funds
      BY <1>1, <1>2, <2>1, <2>3, SMT DEF EpochInv
    <3>9. EpochInv'
      BY <2>2, <2>3, <3>7, <3>8 DEF EpochInv
    <3>10. epochVolume'[token] <= tokenToLimitThreshold[token]
      BY <1>1, <1>2, <2>1, <2>3, <3>1, <3>3, <3>8, SMT
    <3> QED BY <2>3, <3>9, <3>10
  <2>5. CASE funds = 0 /\ UNCHANGED usage
    <3>1. \A t \in Tokens : /\ epochVolume'[t] = epochVolume[t]
                            /\ emittedFunds'[t] = emittedFunds[t]
                            /\ UsedNow(t)' = UsedNow(t)
      BY <1>1, <2>1, <2>2, <2>3, <2>5, SMT DEF UsedNow
    <3> QED BY <2>2, <3>1 DEF EpochInv
  <2> QED BY <2>1, <2>4, <2>5
<1>5. CASE AdminEffect \/ ChainEffect \/ UNCHANGED vars
  <2>1. UNCHANGED <<emittedFunds, usage>>
    BY <1>5 DEF AdminEffect, ChainEffect, vars, nonAdminVars, eventVars, limitState
  <2>2. \A t \in Tokens : tokenToLimitThreshold'[t] < UINT192
    BY <1>5 DEF AdminEffect, ChainEffect, vars, adminVars, limitConfig, ThresholdsFit, EpochInv
  <2>3. \/ epochVolume' = NoVolume
        \/ epochVolume' = epochVolume /\ CurrentEpoch' = CurrentEpoch
    BY <1>5 DEF AdminEffect, ChainEffect, vars, nonAdminVars, clockVars, windowVars, adminVars,
                limitConfig, CurrentEpoch
  <2>4. CASE epochVolume' = NoVolume
    BY <1>3, <2>1, <2>2, <2>4, SMT DEF EpochInv, NoVolume
  <2>5. CASE epochVolume' = epochVolume /\ CurrentEpoch' = CurrentEpoch
    BY <2>1, <2>2, <2>5 DEF EpochInv, UsedNow
  <2> QED BY <2>1, <2>3, <2>4, <2>5
<1> QED BY <1>4, <1>5, StepEffects

\* Every deposit leaves what its token moved in the present epoch within the threshold, for
\* amounts that do not wrap the sum and thresholds that fit the stored width.
THEOREM EpochQuota ==
    ASSUME AmountsBelowWrap, ThresholdsFit
    PROVE  Spec => EpochQuotaHolds
<1>1. Init => EpochInv
  <2> SUFFICES ASSUME Init PROVE EpochInv
    OBVIOUS
  <2>1. \A t \in Tokens : UsedNow(t) = 0
    BY SMT DEF Init, UsedNow
  <2> QED BY <2>1, GatewayAssumption, SMT DEF Init, EpochInv
<1>2. TypeOK /\ EpochInv /\ [Next]_vars => EpochInv'
  BY EpochStep
<1>3. TypeOK /\ EpochInv /\ [Next]_vars =>
          \A t \in Tokens : emittedFunds'[t] # emittedFunds[t] =>
              epochVolume'[t] <= tokenToLimitThreshold[t]
  BY EpochStep
<1> QED BY <1>1, <1>2, <1>3, TypeCorrect, PTL DEF Spec, EpochQuotaHolds

================================================================================
