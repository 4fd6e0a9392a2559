------------------------------ MODULE SolanaProofs ------------------------------
(***************************************************************************)
(* Theorems about the universal-gateway program on Solana, for every value *)
(* of the constants: any messages, requests, settings and prices.          *)
(***************************************************************************)
EXTENDS SolanaReleases, LedgerProofs

--------------------------------------------------------------------------------
(* What a deposit does. *)

LEMMA SolAccountsDiffer ==
    /\ SOL \in SolTokens /\ SOL \notin Mints /\ Mints \subseteq SolTokens
    /\ VAULT_PDA \in SolAccounts /\ FEE_VAULT \in SolAccounts /\ VAULT_PDA # FEE_VAULT
    /\ \A u \in SolUsers \cup Relayers : u \in SolAccounts \ ({VAULT_PDA, FEE_VAULT} \cup PushUsers)
    /\ \A u \in PushUsers : u \in SolAccounts \ {VAULT_PDA, FEE_VAULT}
BY SolanaAssumption DEF SolTokens, SolAccounts

\* The native amount is the gas and, where the funds are SOL, the funds.
LEMMA SharesOfNative ==
    ASSUME NEW req \in SolRequestType, NEW native \in Nat,
           FetchSolTxType(req, native) # "NONE"
    PROVE  LET funds == SolFunds(req, FetchSolTxType(req, native))
               gas   == SolGas(req, FetchSolTxType(req, native), native)
           IN  /\ funds \in Nat /\ gas \in Nat
               /\ native = gas + (IF req.token = SOL THEN funds ELSE 0)
<1> DEFINE txType == FetchSolTxType(req, native)
<1>1. /\ req.amount \in Nat /\ req.payload \in BOOLEAN
  BY DEF SolRequestType
<1>2. CASE req.amount = 0
  <2>1. txType \in {"GAS", "GAS_AND_PAYLOAD"}
    BY <1>1, <1>2 DEF FetchSolTxType
  <2>2. SolFunds(req, txType) = 0
    BY <2>1 DEF SolFunds
  <2> HIDE DEF txType
  <2> QED BY <2>2, SMT DEF SolGas, txType
<1>3. CASE req.amount > 0
  <2>1. /\ txType \in {"FUNDS", "FUNDS_AND_PAYLOAD"}
        /\ req.token = SOL => native >= req.amount
    <3>1. CASE req.payload
      BY <1>1, <1>3, <3>1, SMT DEF FetchSolTxType
    <3>2. CASE ~req.payload
      BY <1>1, <1>3, <3>2, SMT DEF FetchSolTxType
    <3> QED BY <3>1, <3>2
  <2>2. SolFunds(req, txType) = req.amount
    BY <2>1 DEF SolFunds
  <2> HIDE DEF txType
  <2> QED BY <1>1, <2>1, <2>2, SMT DEF SolGas, txType
<1> QED BY <1>1, <1>2, <1>3, SMT

\* Gas that passed the caps, or none at all, is worth a natural number.
LEMMA UsdAmountIsNat ==
    ASSUME SolTypeOK, config.priceFeed \in PriceFeeds, NEW gas \in Nat,
           gas > 0 => CheckSolUsdCaps(gas)
    PROVE  UsdAmount(gas) \in Nat
<1>1. Round.price \in Int /\ LAMPORTS_PER_SOL \in Nat \ {0}
  BY SolanaAssumption DEF SolTypeOK, Round
<1> HIDE DEF Round
<1>2. gas * Round.price \in Nat
  <2>1. CASE gas = 0
    <3>1. 0 * Round.price = 0
      BY <1>1, SMT
    <3> QED BY <2>1, <3>1
  <2>2. CASE gas > 0
    <3>1. Round.price \in Nat
      BY <1>1, <2>2, SMT DEF CheckSolUsdCaps, SolPriceAvailable
    <3> QED BY <3>1, SMT
  <2> QED BY <2>1, <2>2, SMT
<1>3. ASSUME NEW product \in Nat PROVE product \div LAMPORTS_PER_SOL \in Nat
  BY <1>1, QuotientIsNat
<1> QED BY <1>2, <1>3 DEF UsdAmount

\* gas by the instant route and funds of a token by the other one, from a user.
SolDeposits(token, gas, funds) ==
    /\ ~config.paused
    /\ "fee_vault" \in created
    /\ UsdAmount(gas) \in Nat
    /\ gas > 0 => CheckSolUsdCaps(gas)
    /\ CheckSlotUsdCap(gas)
    /\ \/ ConsumeSolLimit(token, funds)
       \/ funds = 0 /\ UNCHANGED tokenRateLimit
    /\ lamports' \in Ledgers(SolTokens, SolAccounts)
    /\ \A t \in SolTokens : lamports'[t][VAULT_PDA] =
           lamports[t][VAULT_PDA] + (IF t = SOL THEN gas ELSE 0) + (IF t = token THEN funds ELSE 0)
    /\ lamports'[SOL][FEE_VAULT] = lamports[SOL][FEE_VAULT] + protocolFee
    /\ \A t \in SolTokens, u \in PushUsers : lamports'[t][u] = lamports[t][u]
    /\ SolFundsEvent(token, funds)
    /\ gasEvents' = gasEvents + gas
    /\ slotSpend' = slotSpend + UsdAmount(gas)
    /\ feesCollected' = feesCollected + protocolFee
    /\ UNCHANGED <<solConfigVars, executed, solClockVars>>

LEMMA DepositEffect ==
    ASSUME SolTypeOK, SolDepositStep
    PROVE  \E token \in SolTokens, gas \in Nat, funds \in Nat : SolDeposits(token, gas, funds)
<1> PICK user \in SolUsers, req \in SolRequests, nativeAmount \in NativeAmounts :
        SendSolUniversalTx(user, req, nativeAmount)
  BY DEF SolDepositStep
<1> DEFINE native == nativeAmount - protocolFee
           txType == FetchSolTxType(req, native)
           gas    == SolGas(req, txType, native)
           funds  == SolFunds(req, txType)
           b0     == FeeTaken(lamports, user, protocolFee)
           paid   == SolDeposited(b0, user, SOL, gas)
           solFunds == IF req.token = SOL THEN funds ELSE 0
<1>1. /\ req \in SolRequestType /\ req.token \in SolTokens
      /\ nativeAmount \in Nat /\ protocolFee \in Nat
      /\ lamports \in Ledgers(SolTokens, SolAccounts)
      /\ config.priceFeed \in PriceFeeds
  BY SolanaAssumption DEF SolTypeOK, SolRequestType
<1>2. /\ ~config.paused
      /\ {"fee_vault", "rate_limit_config"} \subseteq created
      /\ CanPay(lamports, SOL, user, nativeAmount)
      /\ nativeAmount >= protocolFee
      /\ txType # "NONE"
      /\ gas > 0 => CheckSolUsdCaps(gas)
      /\ CheckSlotUsdCap(gas)
      /\ \/ /\ ConsumeSolLimit(req.token, funds)
            /\ CanPay(paid, req.token, user, funds)
         \/ /\ ~(funds > 0)
            /\ UNCHANGED tokenRateLimit
      /\ lamports' = SolDeposited(paid, user, req.token, funds)
      /\ SolFundsEvent(req.token, funds)
      /\ gasEvents' = gasEvents + gas
      /\ slotSpend' = slotSpend + UsdAmount(gas)
      /\ feesCollected' = feesCollected + protocolFee
      /\ UNCHANGED <<solConfigVars, executed, solClockVars>>
  BY DEF SendSolUniversalTx
<1>3. native \in Nat
  BY <1>1, <1>2, SMT
<1>4. funds \in Nat /\ gas \in Nat /\ native = gas + solFunds
  BY <1>1, <1>2, <1>3, SharesOfNative
<1> HIDE DEF txType, gas, funds, b0, paid
<1>5. UsdAmount(gas) \in Nat
  BY <1>1, <1>2, <1>4, UsdAmountIsNat
<1>6. /\ user \in SolAccounts \ ({VAULT_PDA, FEE_VAULT} \cup PushUsers)
      /\ VAULT_PDA \in SolAccounts /\ FEE_VAULT \in SolAccounts /\ VAULT_PDA # FEE_VAULT
      /\ SOL \in SolTokens /\ PushUsers \subseteq SolAccounts \ {VAULT_PDA, FEE_VAULT}
  BY SolAccountsDiffer
<1>7. /\ b0 \in Ledgers(SolTokens, SolAccounts)
      /\ \A t \in SolTokens, a \in SolAccounts :
             b0[t][a] = lamports[t][a] - (IF t = SOL /\ a = user THEN protocolFee ELSE 0)
                                       + (IF t = SOL /\ a = FEE_VAULT THEN protocolFee ELSE 0)
  <2>1. CanPay(lamports, SOL, user, protocolFee)
    BY <1>1, <1>2, <1>6, SMT DEF CanPay, Ledgers
  <2> QED BY <1>1, <1>6, <2>1, TransferMoves DEF b0, FeeTaken
<1>8. /\ paid \in Ledgers(SolTokens, SolAccounts)
      /\ \A t \in SolTokens, a \in SolAccounts :
             paid[t][a] = b0[t][a] - (IF t = SOL /\ a = user THEN gas ELSE 0)
                                   + (IF t = SOL /\ a = VAULT_PDA THEN gas ELSE 0)
  <2>1. b0[SOL][user] = lamports[SOL][user] - protocolFee
    BY <1>1, <1>6, <1>7, SMT DEF Ledgers
  <2>2. lamports[SOL][user] \in Nat /\ solFunds \in Nat
    BY <1>1, <1>4, <1>6, SMT DEF Ledgers
  <2>3. CanPay(b0, SOL, user, gas)
    BY <1>1, <1>2, <1>4, <2>1, <2>2, SMT DEF CanPay
  <2> QED BY <1>4, <1>6, <1>7, <2>3, TransferMoves DEF paid, SolDeposited
<1>9. /\ lamports' \in Ledgers(SolTokens, SolAccounts)
      /\ \A t \in SolTokens, a \in SolAccounts :
             lamports'[t][a] = paid[t][a] - (IF t = req.token /\ a = user THEN funds ELSE 0)
                                          + (IF t = req.token /\ a = VAULT_PDA THEN funds ELSE 0)
  <2>1. CanPay(paid, req.token, user, funds)
    BY <1>1, <1>2, <1>4, <1>6, <1>8, SMT DEF CanPay, Ledgers
  <2> QED BY <1>1, <1>2, <1>4, <1>6, <1>8, <2>1, TransferMoves DEF SolDeposited
<1>10. ASSUME NEW t \in SolTokens
       PROVE  /\ lamports'[t][VAULT_PDA] = lamports[t][VAULT_PDA]
                     + (IF t = SOL THEN gas ELSE 0) + (IF t = req.token THEN funds ELSE 0)
              /\ \A u \in PushUsers : lamports'[t][u] = lamports[t][u]
  BY <1>1, <1>4, <1>6, <1>7, <1>8, <1>9, SMT DEF Ledgers
<1>11. lamports'[SOL][FEE_VAULT] = lamports[SOL][FEE_VAULT] + protocolFee
  BY <1>1, <1>4, <1>6, <1>7, <1>8, <1>9, SMT DEF Ledgers
<1>12. \/ ConsumeSolLimit(req.token, funds)
       \/ funds = 0 /\ UNCHANGED tokenRateLimit
  BY <1>2, <1>4, SMT
<1>13. SolDeposits(req.token, gas, funds)
  BY <1>2, <1>5, <1>9, <1>10, <1>11, <1>12 DEF SolDeposits
<1> QED BY <1>1, <1>4, <1>13

--------------------------------------------------------------------------------
(* What a release does. *)

LEMMA MessageTypes ==
    ASSUME NEW m \in Messages
    PROVE  /\ m.subTxId \in SolSubTxIds /\ m.token \in SolTokens /\ m.pushAccount \in PushUsers
           /\ m.amount \in Nat /\ m.gasFee \in Nat /\ m.moved \in Nat
<1>1. m \in MessageType
  BY MessageAssumption
<1> QED BY <1>1 DEF MessageType

\* Staging moves the amount to the CEA and the gas fee to the relayer, out of the vault.
LEMMA StagedEffect ==
    ASSUME SolTypeOK, NEW m \in Messages, NEW relayer \in Relayers, CanStage(m)
    PROVE  /\ Staged(m, relayer) \in Ledgers(SolTokens, SolAccounts)
           /\ \A t \in SolTokens, a \in SolAccounts :
                  Staged(m, relayer)[t][a] = lamports[t][a]
                      - (IF t = m.token /\ a = VAULT_PDA THEN m.amount ELSE 0)
                      + (IF t = m.token /\ a = m.pushAccount THEN m.amount ELSE 0)
                      - (IF t = SOL /\ a = VAULT_PDA THEN m.gasFee ELSE 0)
                      + (IF t = SOL /\ a = relayer THEN m.gasFee ELSE 0)
<1>1. /\ lamports \in Ledgers(SolTokens, SolAccounts)
      /\ m.token \in SolTokens /\ m.amount \in Nat /\ m.gasFee \in Nat
      /\ SOL \in SolTokens /\ VAULT_PDA \in SolAccounts
  BY MessageTypes, SolAccountsDiffer DEF SolTypeOK
<1>2. /\ CanPay(lamports, m.token, VAULT_PDA, m.amount)
      /\ CanPay(Funded(m), SOL, VAULT_PDA, m.gasFee)
  BY DEF CanStage
<1>3. /\ Funded(m) \in Ledgers(SolTokens, SolAccounts)
      /\ \A t \in SolTokens, a \in SolAccounts :
             Funded(m)[t][a] = lamports[t][a]
                 - (IF t = m.token /\ a = VAULT_PDA THEN m.amount ELSE 0)
                 + (IF t = m.token /\ a = m.pushAccount THEN m.amount ELSE 0)
  BY <1>1, <1>2, TransferMoves DEF Funded
<1>4. /\ Staged(m, relayer) \in Ledgers(SolTokens, SolAccounts)
      /\ \A t \in SolTokens, a \in SolAccounts :
             Staged(m, relayer)[t][a] = Funded(m)[t][a]
                 - (IF t = SOL /\ a = VAULT_PDA THEN m.gasFee ELSE 0)
                 + (IF t = SOL /\ a = relayer THEN m.gasFee ELSE 0)
  BY <1>1, <1>2, <1>3, TransferMoves DEF Staged
<1>5. ASSUME NEW t \in SolTokens, NEW a \in SolAccounts
      PROVE  Staged(m, relayer)[t][a] = lamports[t][a]
                 - (IF t = m.token /\ a = VAULT_PDA THEN m.amount ELSE 0)
                 + (IF t = m.token /\ a = m.pushAccount THEN m.amount ELSE 0)
                 - (IF t = SOL /\ a = VAULT_PDA THEN m.gasFee ELSE 0)
                 + (IF t = SOL /\ a = relayer THEN m.gasFee ELSE 0)
  <2> DEFINE staged == Staged(m, relayer)[t][a]
             funded == Funded(m)[t][a]
             given  == IF t = m.token /\ a = VAULT_PDA THEN m.amount ELSE 0
             got    == IF t = m.token /\ a = m.pushAccount THEN m.amount ELSE 0
             paid   == IF t = SOL /\ a = VAULT_PDA THEN m.gasFee ELSE 0
             earned == IF t = SOL /\ a = relayer THEN m.gasFee ELSE 0
  <2>1. funded = lamports[t][a] - given + got
    BY <1>3
  <2>2. staged = funded - paid + earned
    BY <1>4
  <2>3. staged = lamports[t][a] - given + got - paid + earned
    <3>1. /\ lamports[t][a] \in Nat /\ funded \in Nat
          /\ given \in Nat /\ got \in Nat /\ paid \in Nat /\ earned \in Nat
      BY <1>1, <1>3, SMT DEF Ledgers
    <3> HIDE DEF staged, funded, given, got, paid, earned
    <3> QED BY <2>1, <2>2, <3>1, SMT
  <2> QED BY <2>3
<1> QED BY <1>4, <1>5, Zenon

\* A message takes effect: what it takes from the vault (its amount and vaultFee), from the fee
\* vault (paid) and from CEAs, and what it returns to the vault as a deposit.
Releases(m, vaultFee, paid, returned) ==
    /\ ~config.paused
    /\ m.tss = tss
    /\ m.subTxId \notin executed
    /\ vaultFee = OrderOf(m).fee
    /\ Executes(m)
    /\ vaultGasFees' = vaultGasFees + vaultFee
    /\ reimbursed' = reimbursed + paid
    /\ paid > 0 => lamports[SOL][FEE_VAULT] - RENT >= paid
    /\ lamports' \in Ledgers(SolTokens, SolAccounts)
    /\ \A t \in SolTokens : lamports'[t][VAULT_PDA] >= lamports[t][VAULT_PDA]
           + (IF t = m.token THEN returned - m.amount ELSE 0) - (IF t = SOL THEN vaultFee ELSE 0)
    /\ lamports'[SOL][FEE_VAULT] >= lamports[SOL][FEE_VAULT] - paid
    /\ \A t \in SolTokens, u \in PushUsers :
           \/ lamports'[t][u] >= lamports[t][u]
           \/ m.kind \in {"withdraw", "execute", "return"} /\ u = m.pushAccount
    /\ \/ ConsumeSolLimit(m.token, returned)
       \/ returned = 0 /\ UNCHANGED tokenRateLimit
    /\ SolFundsEvent(m.token, returned)

\* Without a deposit the record of events and volumes is as it was.
LEMMA NoFundsEvent ==
    ASSUME SolTypeOK, NEW token \in SolTokens, UNCHANGED <<fundsEvents, solEpochVolume>>
    PROVE  SolFundsEvent(token, 0)
<1>1. /\ fundsEvents \in [SolTokens -> Nat] /\ solEpochVolume \in [SolTokens -> Nat]
  BY DEF SolTypeOK
<1>2. fundsEvents[token] + 0 = fundsEvents[token] /\ solEpochVolume[token] + 0 = solEpochVolume[token]
  BY <1>1, SMT
<1>3. /\ [fundsEvents EXCEPT ![token] = fundsEvents[token] + 0] = fundsEvents
      /\ [solEpochVolume EXCEPT ![token] = solEpochVolume[token] + 0] = solEpochVolume
  BY <1>1, <1>2, SMT
<1> QED BY <1>3 DEF SolFundsEvent

LEMMA ReleaseEffect ==
    ASSUME ReleaseTypeOK, ReleaseStep
    PROVE  \E m \in Messages, vaultFee \in Nat, paid \in Nat, returned \in Nat :
               Releases(m, vaultFee, paid, returned)
<1> PICK m \in Messages, relayer \in Relayers :
        \/ Withdraw(m, relayer) \/ Execute(m, relayer) \/ ReturnToUEA(m, relayer)
        \/ Revert(m, relayer) \/ Rescue(m, relayer)
  BY DEF ReleaseStep
<1> DEFINE b == Staged(m, relayer)
<1>1. /\ SolTypeOK
      /\ lamports \in Ledgers(SolTokens, SolAccounts)
      /\ vaultGasFees \in Nat /\ reimbursed \in Nat
      /\ m.token \in SolTokens /\ m.pushAccount \in PushUsers
      /\ m.amount \in Nat /\ m.gasFee \in Nat /\ m.moved \in Nat
  BY MessageTypes DEF ReleaseTypeOK, SolTypeOK
<1>2. /\ SOL \in SolTokens
      /\ VAULT_PDA \in SolAccounts /\ FEE_VAULT \in SolAccounts /\ VAULT_PDA # FEE_VAULT
      /\ relayer \in SolAccounts \ ({VAULT_PDA, FEE_VAULT} \cup PushUsers)
      /\ PushUsers \subseteq SolAccounts \ {VAULT_PDA, FEE_VAULT}
  BY SolAccountsDiffer
<1>3. CanStage(m) =>
          /\ b \in Ledgers(SolTokens, SolAccounts)
          /\ \A t \in SolTokens, a \in SolAccounts :
                 b[t][a] = lamports[t][a]
                     - (IF t = m.token /\ a = VAULT_PDA THEN m.amount ELSE 0)
                     + (IF t = m.token /\ a = m.pushAccount THEN m.amount ELSE 0)
                     - (IF t = SOL /\ a = VAULT_PDA THEN m.gasFee ELSE 0)
                     + (IF t = SOL /\ a = relayer THEN m.gasFee ELSE 0)
  BY <1>1, StagedEffect
<1> HIDE DEF b
\* A finalization whose CEA spends up to amount of the token, and returns some of it.
<1>4. ASSUME Finalizes(m), m.kind \in {"withdraw", "execute", "return"},
             NEW amount \in Nat, NEW returned \in Nat,
             lamports' \in Ledgers(SolTokens, SolAccounts),
             \A t \in SolTokens, a \in SolAccounts :
                 lamports'[t][a] >= b[t][a]
                     - (IF t = m.token /\ a = m.pushAccount THEN amount ELSE 0)
                     + (IF t = m.token /\ a = VAULT_PDA THEN returned ELSE 0),
             \/ ConsumeSolLimit(m.token, returned)
             \/ returned = 0 /\ UNCHANGED tokenRateLimit,
             SolFundsEvent(m.token, returned)
      PROVE  Releases(m, m.gasFee, 0, returned)
  <2>1. /\ ~config.paused /\ m.tss = tss /\ m.subTxId \notin executed
        /\ Executes(m) /\ CanStage(m)
        /\ vaultGasFees' = vaultGasFees + m.gasFee
        /\ reimbursed' = reimbursed + 0
    BY <1>1, <1>4, SMT DEF Finalizes, Accepted, ValidateMessage, NotExecuted
  <2>2. \A t \in SolTokens : lamports'[t][VAULT_PDA] >= lamports[t][VAULT_PDA]
            + (IF t = m.token THEN returned - m.amount ELSE 0) - (IF t = SOL THEN m.gasFee ELSE 0)
    BY <1>1, <1>2, <1>3, <1>4, <2>1, SMT DEF Ledgers
  <2>3. lamports'[SOL][FEE_VAULT] >= lamports[SOL][FEE_VAULT] - 0
    BY <1>1, <1>2, <1>3, <1>4, <2>1, SMT DEF Ledgers
  <2>4. ASSUME NEW t \in SolTokens, NEW u \in PushUsers, u # m.pushAccount
        PROVE  lamports'[t][u] >= lamports[t][u]
    BY <1>1, <1>2, <1>3, <1>4, <2>1, <2>4, SMT DEF Ledgers
  <2>5. OrderOf(m).fee = m.gasFee
    BY <1>4, SMT DEF OrderOf
  <2> QED BY <1>4, <2>1, <2>2, <2>3, <2>4, <2>5 DEF Releases
<1>5. CASE Withdraw(m, relayer)
  <2>1. /\ Finalizes(m) /\ m.kind = "withdraw" /\ CanStage(m)
        /\ UNCHANGED <<tokenRateLimit, fundsEvents, solEpochVolume>>
        /\ lamports' = IF m.target = m.pushAccount THEN b
                       ELSE Transfer(b, m.token, m.pushAccount, m.target, m.amount)
    BY <1>5 DEF Withdraw, Finalizes, b
  <2>2. CanPay(b, m.token, m.pushAccount, m.amount)
    BY <1>1, <1>2, <1>3, <2>1, SMT DEF CanPay, Ledgers
  <2>3. /\ lamports' \in Ledgers(SolTokens, SolAccounts)
        /\ \A t \in SolTokens, a \in SolAccounts :
               lamports'[t][a] >= b[t][a]
                   - (IF t = m.token /\ a = m.pushAccount THEN m.amount ELSE 0)
                   + (IF t = m.token /\ a = VAULT_PDA THEN 0 ELSE 0)
    <3>1. CASE m.target = m.pushAccount
      BY <1>1, <1>3, <2>1, <3>1, SMT DEF Ledgers
    <3>2. CASE m.target # m.pushAccount
      <4> DEFINE after == Transfer(b, m.token, m.pushAccount, m.target, m.amount)
      <4>1. /\ after \in Ledgers(SolTokens, SolAccounts)
            /\ \A t \in SolTokens, a \in SolAccounts :
                   after[t][a] = b[t][a]
                       - (IF t = m.token /\ a = m.pushAccount THEN m.amount ELSE 0)
                       + (IF t = m.token /\ a = m.target THEN m.amount ELSE 0)
        <5> HIDE DEF after
        <5>1. m.pushAccount \in SolAccounts
          BY <1>1, <1>2
        <5> QED BY <1>1, <1>3, <2>1, <2>2, <5>1, TransferMoves DEF after
      <4>2. lamports' = after
        BY <2>1, <3>2
      <4> HIDE DEF after
      <4> QED BY <1>1, <1>3, <2>1, <4>1, <4>2, SMT DEF Ledgers
    <3> QED BY <3>1, <3>2
  <2>4. SolFundsEvent(m.token, 0)
    BY <1>1, <2>1, NoFundsEvent
  <2>5. Releases(m, m.gasFee, 0, 0)
    BY <1>1, <1>4, <2>1, <2>3, <2>4
  <2> QED BY <1>1, <2>5
<1>6. CASE Execute(m, relayer)
  <2>1. /\ Finalizes(m) /\ m.kind = "execute" /\ CanStage(m)
        /\ CanPay(b, m.token, m.pushAccount, m.moved)
        /\ UNCHANGED <<tokenRateLimit, fundsEvents, solEpochVolume>>
        /\ lamports' = Transfer(b, m.token, m.pushAccount, m.target, m.moved)
    BY <1>6 DEF Execute, Finalizes, b
  <2>2. m.pushAccount \in SolAccounts
    BY <1>1, <1>2
  <2>3. /\ lamports' \in Ledgers(SolTokens, SolAccounts)
        /\ \A t \in SolTokens, a \in SolAccounts :
               lamports'[t][a] = b[t][a]
                   - (IF t = m.token /\ a = m.pushAccount THEN m.moved ELSE 0)
                   + (IF t = m.token /\ a = m.target THEN m.moved ELSE 0)
    BY <1>1, <1>3, <2>1, <2>2, TransferMoves
  <2>4. \A t \in SolTokens, a \in SolAccounts :
            lamports'[t][a] >= b[t][a]
                - (IF t = m.token /\ a = m.pushAccount THEN m.moved ELSE 0)
                + (IF t = m.token /\ a = VAULT_PDA THEN 0 ELSE 0)
    BY <1>1, <1>3, <2>1, <2>3, SMT DEF Ledgers
  <2>5. SolFundsEvent(m.token, 0)
    BY <1>1, <2>1, NoFundsEvent
  <2>6. Releases(m, m.gasFee, 0, 0)
    BY <1>1, <1>4, <2>1, <2>3, <2>4, <2>5
  <2> QED BY <1>1, <2>6
<1>7. CASE ReturnToUEA(m, relayer)
  <2>1. /\ Finalizes(m) /\ m.kind = "return" /\ CanStage(m)
        /\ CanPay(b, m.token, m.pushAccount, m.moved)
        /\ ConsumeSolLimit(m.token, m.moved)
        /\ SolFundsEvent(m.token, m.moved)
        /\ lamports' = Transfer(b, m.token, m.pushAccount, VAULT_PDA, m.moved)
    BY <1>7 DEF ReturnToUEA, Finalizes, ReturnedFrom, b
  <2>2. m.pushAccount \in SolAccounts
    BY <1>1, <1>2
  <2>3. /\ lamports' \in Ledgers(SolTokens, SolAccounts)
        /\ \A t \in SolTokens, a \in SolAccounts :
               lamports'[t][a] = b[t][a]
                   - (IF t = m.token /\ a = m.pushAccount THEN m.moved ELSE 0)
                   + (IF t = m.token /\ a = VAULT_PDA THEN m.moved ELSE 0)
    BY <1>1, <1>3, <2>1, <2>2, TransferMoves
  <2>4. \A t \in SolTokens, a \in SolAccounts :
            lamports'[t][a] >= b[t][a]
                - (IF t = m.token /\ a = m.pushAccount THEN m.moved ELSE 0)
                + (IF t = m.token /\ a = VAULT_PDA THEN m.moved ELSE 0)
    BY <1>1, <1>3, <2>1, <2>3, SMT DEF Ledgers
  <2>5. Releases(m, m.gasFee, 0, m.moved)
    BY <1>1, <1>4, <2>1, <2>3, <2>4
  <2> QED BY <1>1, <2>5
<1>8. CASE m.kind \in {"revert", "rescue"} /\ Refund(m, relayer)
  <2> DEFINE c == Transfer(lamports, m.token, VAULT_PDA, m.target, m.amount)
  <2>1. /\ ~config.paused /\ m.tss = tss /\ m.subTxId \notin executed
        /\ Executes(m)
        /\ CanPay(lamports, m.token, VAULT_PDA, m.amount)
        /\ m.gasFee > 0 => lamports[SOL][FEE_VAULT] - RENT >= m.gasFee
        /\ lamports' = Transfer(c, SOL, FEE_VAULT, relayer, m.gasFee)
        /\ reimbursed' = reimbursed + m.gasFee
        /\ UNCHANGED <<tokenRateLimit, fundsEvents, solEpochVolume, vaultGasFees>>
    BY <1>8 DEF Refund, Accepted, ValidateMessage, NotExecuted, FeeVaultPays
  <2> HIDE DEF c
  <2>2. /\ c \in Ledgers(SolTokens, SolAccounts)
        /\ \A t \in SolTokens, a \in SolAccounts :
               c[t][a] = lamports[t][a]
                   - (IF t = m.token /\ a = VAULT_PDA THEN m.amount ELSE 0)
                   + (IF t = m.token /\ a = m.target THEN m.amount ELSE 0)
    BY <1>1, <1>2, <2>1, TransferMoves DEF c
  <2>3. CanPay(c, SOL, FEE_VAULT, m.gasFee)
    <3>1. c[SOL][FEE_VAULT] >= lamports[SOL][FEE_VAULT] /\ lamports[SOL][FEE_VAULT] \in Nat
      BY <1>1, <1>2, <2>2, SMT DEF Ledgers
    <3>2. RENT \in Nat /\ c[SOL][FEE_VAULT] \in Nat
      BY <1>2, <2>2, SolanaAssumption, SMT DEF Ledgers
    <3> QED BY <1>1, <2>1, <3>1, <3>2, SMT DEF CanPay
  <2>4. /\ lamports' \in Ledgers(SolTokens, SolAccounts)
        /\ \A t \in SolTokens, a \in SolAccounts :
               lamports'[t][a] = c[t][a]
                   - (IF t = SOL /\ a = FEE_VAULT THEN m.gasFee ELSE 0)
                   + (IF t = SOL /\ a = relayer THEN m.gasFee ELSE 0)
    BY <1>1, <1>2, <2>1, <2>2, <2>3, TransferMoves
  <2>5. ASSUME NEW t \in SolTokens
        PROVE  /\ lamports'[t][VAULT_PDA] >= lamports[t][VAULT_PDA]
                      + (IF t = m.token THEN 0 - m.amount ELSE 0) - (IF t = SOL THEN 0 ELSE 0)
               /\ \A u \in PushUsers : lamports'[t][u] >= lamports[t][u]
    <3>1. \A a \in SolAccounts : lamports[t][a] \in Nat /\ c[t][a] \in Nat /\ lamports'[t][a] \in Nat
      BY <1>1, <2>2, <2>4, SMT DEF Ledgers
    <3>2. lamports'[t][VAULT_PDA] >= lamports[t][VAULT_PDA]
              + (IF t = m.token THEN 0 - m.amount ELSE 0) - (IF t = SOL THEN 0 ELSE 0)
      BY <1>1, <1>2, <2>2, <2>4, <3>1, SMT
    <3>3. ASSUME NEW u \in PushUsers PROVE lamports'[t][u] >= lamports[t][u]
      BY <1>1, <1>2, <2>2, <2>4, <3>1, SMT
    <3> QED BY <3>2, <3>3
  <2>6. lamports'[SOL][FEE_VAULT] >= lamports[SOL][FEE_VAULT] - m.gasFee
    BY <1>1, <1>2, <2>2, <2>4, SMT DEF Ledgers
  <2>7. SolFundsEvent(m.token, 0) /\ vaultGasFees' = vaultGasFees + 0
    BY <1>1, <2>1, NoFundsEvent, SMT
  <2>8. OrderOf(m).fee = 0
    BY <1>8, SMT DEF OrderOf
  <2>9. Releases(m, 0, m.gasFee, 0)
    BY <2>1, <2>4, <2>5, <2>6, <2>7, <2>8 DEF Releases
  <2> QED BY <1>1, <2>9
<1> QED BY <1>5, <1>6, <1>7, <1>8 DEF Revert, Rescue

--------------------------------------------------------------------------------
(* Types. *)

RateConfigType == [blockUsdCap : Nat, epochDuration : Nat, lastSlot : Nat, consumed : Nat]
RateLimitType  == [limit : Nat, epoch : Nat, used : Nat]

LEMMA SlotCheckKeepsType ==
    ASSUME SolTypeOK, NEW gas, UsdAmount(gas) \in Nat, CheckSlotUsdCap(gas)
    PROVE  rateConfig' \in RateConfigType
<1>1. rateConfig \in RateConfigType /\ slot \in Nat
  BY DEF SolTypeOK, RateConfigType
<1>2. SlotConsumed \in Nat
  BY <1>1, SMT DEF SlotConsumed, RateConfigType
<1> HIDE DEF SlotConsumed
<1>3. SlotConsumed + UsdAmount(gas) \in Nat
  BY <1>2, SMT
<1>4. ASSUME NEW sum \in Nat
      PROVE  [rateConfig EXCEPT !.lastSlot = slot, !.consumed = sum] \in RateConfigType
  BY <1>1, Zenon DEF RateConfigType
<1> QED BY <1>1, <1>3, <1>4 DEF CheckSlotUsdCap

\* The cap check consumes; it changes no setting.
LEMMA SlotCheckKeepsSettings ==
    ASSUME SolTypeOK, NEW gas, CheckSlotUsdCap(gas)
    PROVE  /\ rateConfig'.blockUsdCap = rateConfig.blockUsdCap
           /\ rateConfig'.epochDuration = rateConfig.epochDuration
<1>1. rateConfig \in RateConfigType
  BY DEF SolTypeOK, RateConfigType
<1>2. ASSUME NEW sum
      PROVE  LET after == [rateConfig EXCEPT !.lastSlot = slot, !.consumed = sum]
             IN  /\ after.blockUsdCap = rateConfig.blockUsdCap
                 /\ after.epochDuration = rateConfig.epochDuration
  BY <1>1, Zenon DEF RateConfigType
<1> QED BY <1>2 DEF CheckSlotUsdCap

\* Within an epoch the usage of a token is a rate limit account with the token's limit.
LEMMA EpochUsageType ==
    ASSUME SolTypeOK, NEW token \in SolTokens, rateConfig.epochDuration > 0
    PROVE  /\ SolEpoch \in Nat
           /\ EpochUsage(token) \in RateLimitType
           /\ EpochUsage(token).limit = tokenRateLimit[token].limit
           /\ EpochUsage(token).epoch >= SolEpoch
<1>1. /\ rateConfig.epochDuration \in Nat /\ rateConfig.epochDuration # 0
      /\ unixTime \in Nat /\ tokenRateLimit[token] \in RateLimitType
  BY SMT DEF SolTypeOK, RateLimitType
<1>2. SolEpoch \in Nat
  BY <1>1, QuotientIsNat DEF SolEpoch
<1> HIDE DEF SolEpoch
<1> DEFINE held  == tokenRateLimit[token]
           fresh == [held EXCEPT !.epoch = SolEpoch, !.used = 0]
<1>3. /\ fresh \in RateLimitType
      /\ fresh.limit = held.limit /\ fresh.epoch = SolEpoch
  <2> HIDE DEF held
  <2> QED BY <1>1, <1>2, Zenon DEF RateLimitType, held
<1>4. EpochUsage(token) = IF SolEpoch > held.epoch THEN fresh ELSE held
  BY DEF EpochUsage
<1>5. held \in RateLimitType
  BY <1>1
<1> HIDE DEF held, fresh
<1>6. held.epoch \in Nat
  BY <1>5, Zenon DEF RateLimitType
<1>7. CASE SolEpoch > held.epoch
  BY <1>2, <1>3, <1>4, <1>7, SMT DEF held
<1>8. CASE ~(SolEpoch > held.epoch)
  BY <1>2, <1>4, <1>5, <1>6, <1>8, SMT DEF held
<1> QED BY <1>7, <1>8

\* Consuming a quota that is on adds the amount to the usage of the epoch.
LEMMA ConsumeEffect ==
    ASSUME SolTypeOK, NEW token \in SolTokens, NEW amount \in Nat, ConsumeSolLimit(token, amount)
    PROVE  /\ tokenRateLimit' \in [SolTokens -> RateLimitType]
           /\ \A t \in SolTokens : t # token => tokenRateLimit'[t] = tokenRateLimit[t]
           /\ rateConfig.epochDuration > 0 =>
                  /\ EpochUsage(token).used + amount <= tokenRateLimit[token].limit
                  /\ tokenRateLimit'[token].epoch = EpochUsage(token).epoch
                  /\ tokenRateLimit'[token].used = EpochUsage(token).used + amount
<1>1. /\ rateConfig.epochDuration \in Nat
      /\ tokenRateLimit \in [SolTokens -> RateLimitType]
  BY DEF SolTypeOK, RateLimitType
<1>2. CASE rateConfig.epochDuration = 0
  BY <1>1, <1>2, SMT DEF ConsumeSolLimit
<1>3. CASE rateConfig.epochDuration > 0
  <2> DEFINE usage == EpochUsage(token)
             after == [usage EXCEPT !.used = @ + amount]
  <2>1. usage \in RateLimitType
    BY <1>3, EpochUsageType
  <2>2. /\ usage.used + amount <= tokenRateLimit[token].limit
        /\ tokenRateLimit' = [tokenRateLimit EXCEPT ![token] = after]
    BY <1>1, <1>3, SMT DEF ConsumeSolLimit, WithinSolLimit
  <2> HIDE DEF usage
  <2>3. /\ after \in RateLimitType
        /\ after.epoch = usage.epoch /\ after.used = usage.used + amount
    BY <2>1, SMT DEF RateLimitType
  <2> HIDE DEF after
  <2>4. /\ tokenRateLimit' \in [SolTokens -> RateLimitType]
        /\ tokenRateLimit'[token] = after
        /\ \A t \in SolTokens : t # token => tokenRateLimit'[t] = tokenRateLimit[t]
    BY <1>1, <2>2, <2>3, Zenon
  <2> QED BY <1>3, <2>2, <2>3, <2>4 DEF usage
<1> QED BY <1>1, <1>2, <1>3, SMT

LEMMA FundsEventEffect ==
    ASSUME SolTypeOK, NEW token \in SolTokens, NEW amount \in Nat, SolFundsEvent(token, amount)
    PROVE  /\ fundsEvents' \in [SolTokens -> Nat] /\ solEpochVolume' \in [SolTokens -> Nat]
           /\ \A t \in SolTokens :
                  /\ fundsEvents'[t] = fundsEvents[t] + (IF t = token THEN amount ELSE 0)
                  /\ solEpochVolume'[t] = solEpochVolume[t] + (IF t = token THEN amount ELSE 0)
<1>1. /\ fundsEvents \in [SolTokens -> Nat] /\ solEpochVolume \in [SolTokens -> Nat]
  BY DEF SolTypeOK
<1>2. /\ fundsEvents' = [fundsEvents EXCEPT ![token] = @ + amount]
      /\ solEpochVolume' = [solEpochVolume EXCEPT ![token] = @ + amount]
  BY DEF SolFundsEvent
<1> QED BY <1>1, <1>2, SMT

\* A quota consumed or left alone keeps its type.
LEMMA QuotaKeepsType ==
    ASSUME SolTypeOK, NEW token \in SolTokens, NEW amount \in Nat,
           \/ ConsumeSolLimit(token, amount)
           \/ amount = 0 /\ UNCHANGED tokenRateLimit
    PROVE  tokenRateLimit' \in [SolTokens -> RateLimitType]
<1>1. CASE ConsumeSolLimit(token, amount)
  BY <1>1, ConsumeEffect
<1>2. CASE UNCHANGED tokenRateLimit
  BY <1>2 DEF SolTypeOK, RateLimitType
<1> QED BY <1>1, <1>2

\* The steps of the next-state relation, deposits and releases by their effect.
LEMMA StepCases ==
    ASSUME ReleaseTypeOK, [SolNext]_allSolVars
    PROVE  \/ \E token \in SolTokens, gas \in Nat, funds \in Nat :
                  SolDeposits(token, gas, funds) /\ UNCHANGED releaseVars
           \/ \E m \in Messages, vaultFee \in Nat, paid \in Nat, returned \in Nat :
                  Releases(m, vaultFee, paid, returned)
           \/ SolAdminStep /\ UNCHANGED releaseVars
           \/ SolChainStep /\ UNCHANGED releaseVars
           \/ UNCHANGED allSolVars
<1>1. SolTypeOK
  BY DEF ReleaseTypeOK
<1>2. CASE SolDepositStep /\ UNCHANGED releaseVars
  <2>1. \E token \in SolTokens, gas \in Nat, funds \in Nat : SolDeposits(token, gas, funds)
    BY <1>1, <1>2, DepositEffect
  <2> QED BY <1>2, <2>1
<1>3. CASE ReleaseStep
  BY <1>3, ReleaseEffect
<1> QED BY <1>2, <1>3 DEF SolNext

ConfigType == [paused : BOOLEAN, min : Nat, max : Nat, priceFeed : PriceFeeds, confidence : Nat]

LEMMA ConfigKeepsType ==
    ASSUME SolTypeOK, SolAdminStep PROVE config' \in ConfigType
<1>1. config \in ConfigType
  BY DEF SolTypeOK, ConfigType
<1>2. CASE SetSolPaused
  BY <1>1, <1>2, Zenon DEF SetSolPaused, ConfigType
<1>3. ASSUME NEW new \in SolConfigs, SetSolConfig(new) PROVE config' \in ConfigType
  <2>1. CASE \E caps \in SolCaps : new = [config EXCEPT !.min = caps[1], !.max = caps[2]]
    <3>1. PICK caps \in SolCaps : new = [config EXCEPT !.min = caps[1], !.max = caps[2]]
      BY <2>1
    <3>2. caps[1] \in Nat /\ caps[2] \in Nat
      BY SolanaAssumption
    <3> QED BY <1>1, <1>3, <3>1, <3>2, Zenon DEF SetSolConfig, ConfigType
  <2>2. CASE \E feed \in PriceFeeds : new = [config EXCEPT !.priceFeed = feed]
    BY <1>1, <1>3, <2>2, Zenon DEF SetSolConfig, ConfigType
  <2>3. CASE \E conf \in Confidences : new = [config EXCEPT !.confidence = conf]
    <3>1. PICK conf \in Confidences : new = [config EXCEPT !.confidence = conf]
      BY <2>3
    <3>2. conf \in Nat
      BY SolanaAssumption
    <3> QED BY <1>1, <1>3, <3>1, <3>2, Zenon DEF SetSolConfig, ConfigType
  <2> QED BY <1>3, <2>1, <2>2, <2>3 DEF SolConfigs
<1>4. CASE UNCHANGED config
  BY <1>1, <1>4
<1> QED BY <1>2, <1>3, <1>4 DEF SolAdminStep, SetSolProtocolFee, SetSlotUsdCap, SetEpochDuration,
                                SetTokenRateLimit, SetSolTss

\* Creating the fee vault pays it its rent; administration moves no other lamports.
LEMMA AdminMoves ==
    ASSUME SolTypeOK, SolAdminStep
    PROVE  /\ lamports' \in Ledgers(SolTokens, SolAccounts)
           /\ \A t \in SolTokens, a \in SolAccounts \ {FEE_VAULT} : lamports'[t][a] = lamports[t][a]
           /\ \/ /\ lamports'[SOL][FEE_VAULT] = lamports[SOL][FEE_VAULT] + RENT
                 /\ "fee_vault" \notin created
              \/ /\ lamports'[SOL][FEE_VAULT] = lamports[SOL][FEE_VAULT]
                 /\ "fee_vault" \in created' => "fee_vault" \in created
<1>1. /\ lamports \in [SolTokens -> [SolAccounts -> Nat]] /\ RENT \in Nat
      /\ SOL \in SolTokens /\ FEE_VAULT \in SolAccounts /\ "fee_vault" \notin SolTokens
  BY SolAccountsDiffer, SolanaAssumption DEF SolTypeOK, Ledgers
<1>2. ASSUME NEW fee, SetSolProtocolFee(fee), "fee_vault" \notin created
      PROVE  /\ lamports' \in [SolTokens -> [SolAccounts -> Nat]]
             /\ \A t \in SolTokens, a \in SolAccounts \ {FEE_VAULT} :
                    lamports'[t][a] = lamports[t][a]
             /\ lamports'[SOL][FEE_VAULT] = lamports[SOL][FEE_VAULT] + RENT
  <2>1. lamports' = [lamports EXCEPT ![SOL][FEE_VAULT] = @ + RENT]
    BY <1>2 DEF SetSolProtocolFee
  <2> QED BY <1>1, <2>1, SMT
<1>3. CASE /\ UNCHANGED lamports
           /\ "fee_vault" \in created' => "fee_vault" \in created
  BY <1>1, <1>3 DEF Ledgers
<1>4. ASSUME NEW fee, SetSolProtocolFee(fee), "fee_vault" \in created
      PROVE  UNCHANGED lamports
  BY <1>4 DEF SetSolProtocolFee
<1>5. ASSUME ~ \E fee \in ProtocolFees : SetSolProtocolFee(fee)
      PROVE  /\ UNCHANGED lamports
             /\ "fee_vault" \in created' => "fee_vault" \in created
  <2>1. CASE SetSolPaused
    BY <2>1 DEF SetSolPaused, solMoneyVars
  <2>2. CASE \E new \in SolConfigs : SetSolConfig(new)
    BY <2>2 DEF SetSolConfig, solMoneyVars
  <2>3. CASE \E cap \in SlotCaps : SetSlotUsdCap(cap)
    BY <2>3, Zenon DEF SetSlotUsdCap, solMoneyVars
  <2>4. CASE \E sec \in EpochDurations : SetEpochDuration(sec)
    BY <2>4, Zenon DEF SetEpochDuration, solMoneyVars
  <2>5. CASE \E token \in SolTokens, limit \in TokenLimits : SetTokenRateLimit(token, limit)
    BY <1>1, <2>5, Zenon DEF SetTokenRateLimit, solMoneyVars
  <2>6. CASE \E new \in TssStates : SetSolTss(new)
    BY <2>6, Zenon DEF SetSolTss, solMoneyVars
  <2> QED BY <1>5, <2>1, <2>2, <2>3, <2>4, <2>5, <2>6 DEF SolAdminStep
<1> QED BY <1>2, <1>3, <1>4, <1>5 DEF Ledgers

\* Administration keeps the type of what it writes besides the config and the lamports.
LEMMA AdminKeepsTypes ==
    ASSUME SolTypeOK, SolAdminStep
    PROVE  /\ created' \subseteq {"fee_vault", "rate_limit_config", "tss_pda"} \cup SolTokens
           /\ protocolFee' \in Nat /\ tss' \in TssStates
           /\ rateConfig' \in RateConfigType
           /\ tokenRateLimit' \in [SolTokens -> RateLimitType]
           /\ slotSpend' \in Nat /\ solEpochVolume' \in [SolTokens -> Nat]
           /\ UNCHANGED <<executed, solEventVars, solClockVars>>
<1> DEFINE P == /\ created' \subseteq {"fee_vault", "rate_limit_config", "tss_pda"} \cup SolTokens
                /\ protocolFee' \in Nat /\ tss' \in TssStates
                /\ rateConfig' \in RateConfigType
                /\ tokenRateLimit' \in [SolTokens -> RateLimitType]
                /\ slotSpend' \in Nat /\ solEpochVolume' \in [SolTokens -> Nat]
                /\ UNCHANGED <<executed, solEventVars, solClockVars>>
<1>1. /\ created \subseteq {"fee_vault", "rate_limit_config", "tss_pda"} \cup SolTokens
      /\ protocolFee \in Nat /\ tss \in TssStates
      /\ rateConfig \in RateConfigType
      /\ tokenRateLimit \in [SolTokens -> RateLimitType]
      /\ slotSpend \in Nat /\ solEpochVolume \in [SolTokens -> Nat]
  BY DEF SolTypeOK, RateConfigType, RateLimitType
<1>2. /\ ProtocolFees \subseteq Nat /\ SlotCaps \subseteq Nat /\ EpochDurations \subseteq Nat
      /\ TokenLimits \subseteq Nat
  BY SolanaAssumption
<1>3. CASE \/ SetSolPaused
           \/ \E new \in SolConfigs : SetSolConfig(new)
  BY <1>1, <1>3, Zenon DEF SetSolPaused, SetSolConfig, solLimitVars, solMoneyVars, solWindowVars
<1>4. ASSUME NEW fee \in ProtocolFees, SetSolProtocolFee(fee) PROVE P
  BY <1>1, <1>2, <1>4, Zenon DEF SetSolProtocolFee, solLimitVars, solWindowVars
<1>5. ASSUME NEW cap \in SlotCaps, SetSlotUsdCap(cap) PROVE P
  <2>1. [rateConfig EXCEPT !.blockUsdCap = cap] \in RateConfigType
    BY <1>1, <1>2, Zenon DEF RateConfigType
  <2>2. slotSpend' \in Nat
    BY <1>1, <1>5, SMT DEF SetSlotUsdCap
  <2> QED BY <1>1, <1>5, <2>1, <2>2, Zenon DEF SetSlotUsdCap, solMoneyVars
<1>6. ASSUME NEW sec \in EpochDurations, SetEpochDuration(sec) PROVE P
  <2>1. [rateConfig EXCEPT !.epochDuration = sec] \in RateConfigType
    BY <1>1, <1>2, Zenon DEF RateConfigType
  <2>2. [t \in SolTokens |-> 0] \in [SolTokens -> Nat]
    BY SMT
  <2> QED BY <1>1, <1>6, <2>1, <2>2, Zenon DEF SetEpochDuration, solMoneyVars
<1>7. ASSUME NEW token \in SolTokens, NEW limit \in TokenLimits, SetTokenRateLimit(token, limit)
      PROVE  P
  <2>1. [limit |-> limit, epoch |-> 0, used |-> 0] \in RateLimitType
    BY <1>2, SMT DEF RateLimitType
  <2>2. ASSUME NEW account \in RateLimitType
        PROVE  [tokenRateLimit EXCEPT ![token] = account] \in [SolTokens -> RateLimitType]
    BY <1>1, Zenon
  <2>3. [solEpochVolume EXCEPT ![token] = 0] \in [SolTokens -> Nat]
    BY <1>1, SMT
  <2> QED BY <1>1, <1>7, <2>1, <2>2, <2>3, Zenon DEF SetTokenRateLimit, solMoneyVars
<1>8. ASSUME NEW new \in TssStates, SetSolTss(new) PROVE P
  BY <1>1, <1>8, Zenon DEF SetSolTss, solLimitVars, solMoneyVars, solWindowVars
<1> QED BY <1>3, <1>4, <1>5, <1>6, <1>7, <1>8, Zenon DEF SolAdminStep

LEMMA InitTypes == ReleaseInit => ReleaseTypeOK
<1> SUFFICES ASSUME ReleaseInit PROVE ReleaseTypeOK
  OBVIOUS
<1>1. /\ StartCaps[1] \in Nat /\ StartCaps[2] \in Nat /\ DefaultConfidence \in Nat
      /\ StartTime \in Nat /\ StartBalances \in Ledgers(SolTokens, SolAccounts)
      /\ \A p \in PythPrices : p[1] \in Int
  BY SolanaAssumption
<1>2. config \in [paused : BOOLEAN, min : Nat, max : Nat, priceFeed : PriceFeeds,
                  confidence : Nat]
  <2>1. config \in [paused : {FALSE}, min : {StartCaps[1]}, max : {StartCaps[2]},
                    priceFeed : PriceFeeds, confidence : {DefaultConfidence}]
    BY DEF ReleaseInit, SolInit
  <2> QED BY <1>1, <2>1, Zenon
<1>3. pyth \in [PriceFeeds -> [price : Int, conf : Nat, publishTime : Nat]]
  BY <1>1, SMT DEF ReleaseInit, SolInit
<1>4. /\ rateConfig \in [blockUsdCap : Nat, epochDuration : Nat, lastSlot : Nat, consumed : Nat]
      /\ tokenRateLimit \in [SolTokens -> [limit : Nat, epoch : Nat, used : Nat]]
      /\ fundsEvents \in [SolTokens -> Nat] /\ solEpochVolume \in [SolTokens -> Nat]
      /\ releaseCount \in [SolSubTxIds -> Nat] /\ solReleased \in [SolTokens -> Nat]
      /\ slot \in Nat
  BY SMT DEF ReleaseInit, SolInit
<1>5. SolTypeOK
  BY <1>1, <1>2, <1>3, <1>4 DEF ReleaseInit, SolInit, SolTypeOK
<1> QED BY <1>4, <1>5 DEF ReleaseInit, SolInit, ReleaseTypeOK

LEMMA TypesPreserved == ReleaseTypeOK /\ [SolNext]_allSolVars => ReleaseTypeOK'
<1> SUFFICES ASSUME ReleaseTypeOK, [SolNext]_allSolVars PROVE ReleaseTypeOK'
  OBVIOUS
<1>1. /\ SolTypeOK
      /\ executed \subseteq SolSubTxIds
      /\ releaseCount \in [SolSubTxIds -> Nat] /\ solReleased \in [SolTokens -> Nat]
      /\ vaultGasFees \in Nat /\ reimbursed \in Nat
      /\ gasEvents \in Nat /\ feesCollected \in Nat /\ slotSpend \in Nat /\ protocolFee \in Nat
  BY DEF ReleaseTypeOK, SolTypeOK
<1>2. ASSUME NEW token \in SolTokens, NEW gas \in Nat, NEW funds \in Nat,
             SolDeposits(token, gas, funds), UNCHANGED releaseVars
      PROVE  ReleaseTypeOK'
  <2>1. rateConfig' \in RateConfigType /\ tokenRateLimit' \in [SolTokens -> RateLimitType]
    BY <1>1, <1>2, SlotCheckKeepsType, QuotaKeepsType DEF SolDeposits
  <2>2. fundsEvents' \in [SolTokens -> Nat] /\ solEpochVolume' \in [SolTokens -> Nat]
    BY <1>1, <1>2, FundsEventEffect DEF SolDeposits
  <2>3. gasEvents' \in Nat /\ feesCollected' \in Nat /\ slotSpend' \in Nat
    BY <1>1, <1>2, SMT DEF SolDeposits
  <2>4. /\ lamports' \in Ledgers(SolTokens, SolAccounts)
        /\ UNCHANGED <<solConfigVars, executed, solClockVars, releaseVars>>
    BY <1>2 DEF SolDeposits
  <2> QED BY <1>1, <2>1, <2>2, <2>3, <2>4
       DEF SolTypeOK, ReleaseTypeOK, solConfigVars, solClockVars, releaseVars, RateConfigType,
           RateLimitType
<1>3. ASSUME NEW m \in Messages, NEW vaultFee \in Nat, NEW paid \in Nat, NEW returned \in Nat,
             Releases(m, vaultFee, paid, returned)
      PROVE  ReleaseTypeOK'
  <2>1. m.subTxId \in SolSubTxIds /\ m.token \in SolTokens /\ m.amount \in Nat
    BY MessageTypes
  <2>2. tokenRateLimit' \in [SolTokens -> RateLimitType]
    BY <1>1, <1>3, <2>1, QuotaKeepsType DEF Releases
  <2>3. fundsEvents' \in [SolTokens -> Nat] /\ solEpochVolume' \in [SolTokens -> Nat]
    BY <1>1, <1>3, <2>1, FundsEventEffect DEF Releases
  <2>4. /\ releaseCount' = [releaseCount EXCEPT ![m.subTxId] = @ + 1]
        /\ solReleased' = [solReleased EXCEPT ![m.token] = @ + m.amount]
        /\ executed' = executed \cup {m.subTxId}
        /\ vaultGasFees' = vaultGasFees + vaultFee /\ reimbursed' = reimbursed + paid
        /\ lamports' \in Ledgers(SolTokens, SolAccounts)
        /\ UNCHANGED <<solConfigVars, solClockVars, gasEvents, feesCollected, slotSpend, rateConfig>>
    BY <1>3 DEF Releases, Executes
  <2>5. /\ releaseCount' \in [SolSubTxIds -> Nat] /\ solReleased' \in [SolTokens -> Nat]
        /\ vaultGasFees' \in Nat /\ reimbursed' \in Nat
    BY <1>1, <2>1, <2>4, SMT
  <2> QED BY <1>1, <2>1, <2>2, <2>3, <2>4, <2>5
       DEF SolTypeOK, ReleaseTypeOK, solConfigVars, solClockVars, RateLimitType
<1>4. CASE SolAdminStep /\ UNCHANGED releaseVars
  <2>1. config' \in ConfigType
    BY <1>1, <1>4, ConfigKeepsType
  <2>2. lamports' \in Ledgers(SolTokens, SolAccounts)
    BY <1>1, <1>4, AdminMoves
  <2> QED BY <1>1, <1>4, <2>1, <2>2, AdminKeepsTypes
       DEF SolTypeOK, ReleaseTypeOK, ConfigType, RateConfigType, RateLimitType, solEventVars,
           solClockVars, releaseVars
<1>5. CASE SolChainStep /\ UNCHANGED releaseVars
  <2>1. ASSUME NEW sec \in SlotTicks, NewSlot(sec) PROVE ReleaseTypeOK'
    <3>1. sec \in Nat /\ slot \in Nat /\ unixTime \in Nat /\ solEpochVolume \in [SolTokens -> Nat]
      BY <1>1, SolanaAssumption DEF SolTypeOK
    <3>2. slot' \in Nat /\ unixTime' \in Nat /\ slotSpend' \in Nat
      BY <2>1, <3>1, SMT DEF NewSlot
    <3>3. solEpochVolume' \in [SolTokens -> Nat]
      <4>1. [t \in SolTokens |-> 0] \in [SolTokens -> Nat]
        BY SMT
      <4> QED BY <2>1, <3>1, <4>1, Zenon DEF NewSlot
    <3> QED BY <1>1, <1>5, <2>1, <3>2, <3>3
         DEF NewSlot, SolTypeOK, ReleaseTypeOK, solConfigVars, solLimitVars, solEventVars,
             releaseVars
  <2>2. ASSUME NEW feed \in PriceFeeds, NEW p \in PythPrices, PythUpdates(feed, p)
        PROVE  ReleaseTypeOK'
    <3>1. p[1] \in Int /\ p[2] \in Nat
      BY SolanaAssumption
    <3>2. pyth \in [PriceFeeds -> [price : Int, conf : Nat, publishTime : Nat]] /\ unixTime \in Nat
      BY <1>1 DEF SolTypeOK
    <3>3. [price |-> p[1], conf |-> p[2], publishTime |-> unixTime]
              \in [price : Int, conf : Nat, publishTime : Nat]
      BY <3>1, <3>2, Zenon
    <3>4. pyth' \in [PriceFeeds -> [price : Int, conf : Nat, publishTime : Nat]]
      BY <2>2, <3>2, <3>3, Zenon DEF PythUpdates
    <3> QED BY <1>1, <1>5, <2>2, <3>4
         DEF PythUpdates, SolTypeOK, ReleaseTypeOK, solConfigVars, solLimitVars, solEventVars,
             solWindowVars, releaseVars
  <2> QED BY <1>5, <2>1, <2>2 DEF SolChainStep
<1>6. CASE UNCHANGED allSolVars
  BY <1>1, <1>6 DEF SolTypeOK, ReleaseTypeOK, allSolVars, solVars, solConfigVars, solLimitVars,
                    solEventVars, solWindowVars, solClockVars, releaseVars
<1> QED BY <1>2, <1>3, <1>4, <1>5, <1>6, StepCases

\* Every state of the program has its type, for every set of messages, requests, settings and
\* prices: no balance, quota or counter is ever negative.
THEOREM SolanaTypeCorrect == SolSpec => []ReleaseTypeOK
<1> QED BY InitTypes, TypesPreserved, PTL DEF SolSpec

--------------------------------------------------------------------------------
(* Safety of the releases. *)

\* A sub_tx_id has been used once if its executed_sub_tx account exists, else never.
CountsExecuted ==
    \A id \in SolSubTxIds : releaseCount[id] = IF id \in executed THEN 1 ELSE 0

LEMMA CountsPreserved ==
    ReleaseTypeOK /\ CountsExecuted /\ [SolNext]_allSolVars => CountsExecuted'
<1> SUFFICES ASSUME ReleaseTypeOK, CountsExecuted, [SolNext]_allSolVars PROVE CountsExecuted'
  OBVIOUS
<1>1. releaseCount \in [SolSubTxIds -> Nat] /\ SolTypeOK
  BY DEF ReleaseTypeOK
<1>2. CASE UNCHANGED <<releaseCount, executed>>
  BY <1>2 DEF CountsExecuted
<1>3. ASSUME NEW m \in Messages, m.subTxId \notin executed, Executes(m) PROVE CountsExecuted'
  <2>1. /\ releaseCount' = [releaseCount EXCEPT ![m.subTxId] = @ + 1]
        /\ executed' = executed \cup {m.subTxId}
    BY <1>3 DEF Executes
  <2>2. m.subTxId \in SolSubTxIds
    BY MessageTypes
  <2>3. /\ releaseCount'[m.subTxId] = releaseCount[m.subTxId] + 1
        /\ \A id \in SolSubTxIds \ {m.subTxId} : releaseCount'[id] = releaseCount[id]
    BY <1>1, <2>1, <2>2, Zenon
  <2>4. releaseCount[m.subTxId] = 0
    BY <1>3, <2>2 DEF CountsExecuted
  <2> QED BY <2>1, <2>3, <2>4, SMT DEF CountsExecuted
<1>4. ASSUME NEW token \in SolTokens, NEW gas \in Nat, NEW funds \in Nat,
             SolDeposits(token, gas, funds), UNCHANGED releaseVars
      PROVE  UNCHANGED <<releaseCount, executed>>
  BY <1>4 DEF SolDeposits, releaseVars
<1>5. CASE SolAdminStep /\ UNCHANGED releaseVars
  BY <1>1, <1>2, <1>5, AdminKeepsTypes DEF releaseVars
<1>6. CASE SolChainStep /\ UNCHANGED releaseVars
  BY <1>2, <1>6 DEF SolChainStep, NewSlot, PythUpdates, releaseVars
<1>7. CASE UNCHANGED allSolVars
  BY <1>2, <1>7 DEF allSolVars, solVars, releaseVars
<1>8. ASSUME NEW m \in Messages, NEW vaultFee, NEW paid, NEW returned,
             Releases(m, vaultFee, paid, returned)
      PROVE  CountsExecuted'
  BY <1>3, <1>8 DEF Releases
<1> QED BY <1>2, <1>4, <1>5, <1>6, <1>7, <1>8, StepCases

\* Of all messages the TSS ever signed with one sub_tx_id, of any kind and under any key, at
\* most one takes effect, however often and in whatever order relayers deliver them.
THEOREM ReleasedOnce == SolSpec => []ReleasedAtMostOnce
<1>1. ReleaseInit => CountsExecuted
  BY DEF ReleaseInit, SolInit, CountsExecuted
<1>2. CountsExecuted => ReleasedAtMostOnce
  <2> SUFFICES ASSUME CountsExecuted, NEW id \in SolSubTxIds PROVE releaseCount[id] <= 1
    BY DEF ReleasedAtMostOnce
  <2>1. releaseCount[id] \in {0, 1}
    BY DEF CountsExecuted
  <2> QED BY <2>1, SMT
<1> QED BY <1>1, <1>2, InitTypes, TypesPreserved, CountsPreserved, PTL DEF SolSpec

\* A CEA, the account of a Push Chain account on Solana, pays out only in a finalization whose
\* message names that Push Chain account: no release for another one, no deposit and no
\* instruction of an authority takes anything from it.
THEOREM CEASpends == SolSpec => CEASpendsForItsOwner
<1>1. ReleaseTypeOK /\ [SolNext]_allSolVars =>
          \A u \in PushUsers, t \in SolTokens : lamports'[t][u] < lamports[t][u] =>
              \E m \in Messages : /\ m.subTxId \in executed' \ executed
                                  /\ m.pushAccount = u
                                  /\ m.kind \in {"withdraw", "execute", "return"}
  <2> DEFINE Spends(u) == \E m \in Messages : /\ m.subTxId \in executed' \ executed
                                              /\ m.pushAccount = u
                                              /\ m.kind \in {"withdraw", "execute", "return"}
  <2> SUFFICES ASSUME ReleaseTypeOK, [SolNext]_allSolVars,
                      NEW u \in PushUsers, NEW t \in SolTokens, lamports'[t][u] < lamports[t][u]
               PROVE  Spends(u)
    OBVIOUS
  <2>1. SolTypeOK /\ ReleaseTypeOK'
    BY TypesPreserved DEF ReleaseTypeOK
  <2>2. /\ u \in SolAccounts \ {FEE_VAULT}
        /\ lamports[t][u] \in Nat /\ ~(lamports[t][u] < lamports[t][u])
    <3>1. u \in SolAccounts \ {FEE_VAULT}
      BY SolAccountsDiffer
    <3>2. lamports[t][u] \in Nat
      BY <2>1, <3>1, SMT DEF SolTypeOK, Ledgers
    <3> QED BY <3>1, <3>2, SMT
  <2>3. lamports'[t][u] # lamports[t][u]
    BY <2>2
  <2>4. ASSUME NEW token \in SolTokens, NEW gas \in Nat, NEW funds \in Nat,
               SolDeposits(token, gas, funds)
        PROVE  FALSE
    BY <2>3, <2>4 DEF SolDeposits
  <2>5. CASE SolAdminStep
    BY <2>1, <2>2, <2>3, <2>5, AdminMoves
  <2>6. CASE SolChainStep
    BY <2>3, <2>6 DEF SolChainStep, NewSlot, PythUpdates
  <2>7. CASE UNCHANGED allSolVars
    BY <2>3, <2>7 DEF allSolVars, solVars
  <2>8. ASSUME NEW m \in Messages, NEW vaultFee \in Nat, NEW paid \in Nat, NEW returned \in Nat,
               Releases(m, vaultFee, paid, returned)
        PROVE  Spends(u)
    <3>1. lamports'[t][u] \in Nat
      BY <2>1, <2>2, SMT DEF ReleaseTypeOK, SolTypeOK, Ledgers
    <3>2. ~(lamports'[t][u] >= lamports[t][u])
      BY <2>2, <3>1, SMT
    <3>3. m.pushAccount = u /\ m.kind \in {"withdraw", "execute", "return"}
      BY <2>8, <3>2 DEF Releases
    <3>4. m.subTxId \in executed' \ executed
      BY <2>8 DEF Releases, Executes
    <3> QED BY <3>3, <3>4
  <2> QED BY <2>4, <2>5, <2>6, <2>7, <2>8, StepCases
<1> QED BY <1>1, SolanaTypeCorrect, PTL DEF SolSpec, CEASpendsForItsOwner

--------------------------------------------------------------------------------
(* The two vaults. *)

LEMMA BackingPreserved ==
    ReleaseTypeOK /\ VaultBacksEvents /\ [SolNext]_allSolVars => VaultBacksEvents'
<1> SUFFICES ASSUME ReleaseTypeOK, VaultBacksEvents, [SolNext]_allSolVars
             PROVE  VaultBacksEvents'
  OBVIOUS
<1>1. /\ SolTypeOK
      /\ SOL \in SolTokens /\ SOL \notin Mints /\ Mints \subseteq SolTokens
      /\ VAULT_PDA \in SolAccounts \ {FEE_VAULT}
      /\ solReleased \in [SolTokens -> Nat] /\ fundsEvents \in [SolTokens -> Nat]
      /\ gasEvents \in Nat /\ vaultGasFees \in Nat
      /\ \A t \in SolTokens : /\ lamports[t][VAULT_PDA] \in Nat
                              /\ lamports'[t][VAULT_PDA] \in Nat
                              /\ StartBalances[t][VAULT_PDA] \in Nat
      /\ SolTypeOK'
  <2>1. ReleaseTypeOK'
    BY TypesPreserved
  <2>2. VAULT_PDA \in SolAccounts \ {FEE_VAULT}
    BY SolAccountsDiffer
  <2>3. /\ lamports \in Ledgers(SolTokens, SolAccounts)
        /\ lamports' \in Ledgers(SolTokens, SolAccounts)
        /\ StartBalances \in Ledgers(SolTokens, SolAccounts)
    BY <2>1, SolanaAssumption DEF ReleaseTypeOK, SolTypeOK
  <2>4. \A t \in SolTokens : /\ lamports[t][VAULT_PDA] \in Nat
                             /\ lamports'[t][VAULT_PDA] \in Nat
                             /\ StartBalances[t][VAULT_PDA] \in Nat
    BY <2>2, <2>3, SMT DEF Ledgers
  <2> QED BY <2>1, <2>2, <2>4, SolAccountsDiffer DEF ReleaseTypeOK, SolTypeOK
<1>2. ASSUME NEW token \in SolTokens, NEW gas \in Nat, NEW funds \in Nat,
             SolDeposits(token, gas, funds), UNCHANGED releaseVars
      PROVE  VaultBacksEvents'
  <2>1. /\ \A t \in SolTokens : lamports'[t][VAULT_PDA] =
               lamports[t][VAULT_PDA] + (IF t = SOL THEN gas ELSE 0)
                                      + (IF t = token THEN funds ELSE 0)
        /\ gasEvents' = gasEvents + gas
        /\ UNCHANGED <<solReleased, vaultGasFees>>
        /\ SolFundsEvent(token, funds)
    BY <1>2 DEF SolDeposits, releaseVars
  <2>2. \A t \in SolTokens : fundsEvents'[t] = fundsEvents[t] + (IF t = token THEN funds ELSE 0)
    BY <1>1, <2>1, FundsEventEffect
  <2> QED BY <1>1, <2>1, <2>2, SMT DEF VaultBacksEvents
<1>3. ASSUME NEW m \in Messages, NEW vaultFee \in Nat, NEW paid \in Nat, NEW returned \in Nat,
             Releases(m, vaultFee, paid, returned)
      PROVE  VaultBacksEvents'
  <2>1. m.token \in SolTokens /\ m.amount \in Nat
    BY MessageTypes
  <2>2. /\ \A t \in SolTokens : lamports'[t][VAULT_PDA] >= lamports[t][VAULT_PDA]
               + (IF t = m.token THEN returned - m.amount ELSE 0)
               - (IF t = SOL THEN vaultFee ELSE 0)
        /\ UNCHANGED gasEvents
        /\ vaultGasFees' = vaultGasFees + vaultFee
        /\ solReleased' = [solReleased EXCEPT ![m.token] = @ + m.amount]
        /\ SolFundsEvent(m.token, returned)
    BY <1>3 DEF Releases, Executes
  <2>3. \A t \in SolTokens :
            /\ fundsEvents'[t] = fundsEvents[t] + (IF t = m.token THEN returned ELSE 0)
            /\ solReleased'[t] = solReleased[t] + (IF t = m.token THEN m.amount ELSE 0)
    <3>1. \A t \in SolTokens :
              fundsEvents'[t] = fundsEvents[t] + (IF t = m.token THEN returned ELSE 0)
      BY <1>1, <2>1, <2>2, FundsEventEffect
    <3>2. \A t \in SolTokens :
              solReleased'[t] = solReleased[t] + (IF t = m.token THEN m.amount ELSE 0)
      BY <1>1, <2>1, <2>2, SMT
    <3> QED BY <3>1, <3>2
  <2> QED BY <1>1, <2>1, <2>2, <2>3, SMT DEF VaultBacksEvents
<1>4. CASE SolAdminStep /\ UNCHANGED releaseVars
  BY <1>1, <1>4, AdminMoves, AdminKeepsTypes DEF VaultBacksEvents, solEventVars, releaseVars
<1>5. CASE SolChainStep /\ UNCHANGED releaseVars
  BY <1>5 DEF SolChainStep, NewSlot, PythUpdates, VaultBacksEvents, solEventVars, releaseVars
<1>6. CASE UNCHANGED allSolVars
  BY <1>6 DEF allSolVars, solVars, VaultBacksEvents, solEventVars, releaseVars
<1> QED BY <1>2, <1>3, <1>4, <1>5, <1>6, StepCases

\* The vault backs what Push Chain was told: whatever was deposited, released, returned by CEAs
\* and paid to relayers, it holds what events announced less what messages released.
THEOREM VaultBacks == SolSpec => []VaultBacksEvents
<1>1. ReleaseInit => VaultBacksEvents
  <2> SUFFICES ASSUME ReleaseInit PROVE VaultBacksEvents
    OBVIOUS
  <2>1. /\ SOL \in SolTokens /\ Mints \subseteq SolTokens /\ VAULT_PDA \in SolAccounts
    BY SolAccountsDiffer
  <2>2. \A t \in SolTokens : StartBalances[t][VAULT_PDA] \in Nat
    BY <2>1, SolanaAssumption, SMT DEF Ledgers
  <2>3. /\ lamports = StartBalances
        /\ vaultGasFees = 0 /\ gasEvents = 0
        /\ \A t \in SolTokens : solReleased[t] = 0 /\ fundsEvents[t] = 0
    BY DEF ReleaseInit, SolInit
  <2> QED BY <2>1, <2>2, <2>3, SMT DEF VaultBacksEvents
<1> QED BY <1>1, InitTypes, TypesPreserved, BackingPreserved, PTL DEF SolSpec

\* Until the fee vault is created nothing was paid into it.
FeeVaultInv ==
    /\ FeeVaultKeepsRent
    /\ "fee_vault" \notin created => feesCollected = 0

LEMMA FeeVaultPreserved ==
    ReleaseTypeOK /\ FeeVaultInv /\ [SolNext]_allSolVars => FeeVaultInv'
<1> SUFFICES ASSUME ReleaseTypeOK, FeeVaultInv, [SolNext]_allSolVars PROVE FeeVaultInv'
  OBVIOUS
<1> DEFINE held == lamports[SOL][FEE_VAULT]
<1>1. /\ SolTypeOK
      /\ RENT \in Nat /\ feesCollected \in Nat /\ reimbursed \in Nat /\ protocolFee \in Nat
      /\ held \in Nat /\ held' \in Nat
  <2>1. ReleaseTypeOK'
    BY TypesPreserved
  <2>2. SOL \in SolTokens /\ FEE_VAULT \in SolAccounts
    BY SolAccountsDiffer
  <2>3. /\ lamports \in Ledgers(SolTokens, SolAccounts)
        /\ lamports' \in Ledgers(SolTokens, SolAccounts)
    BY <2>1 DEF ReleaseTypeOK, SolTypeOK
  <2>4. held \in Nat /\ held' \in Nat
    BY <2>2, <2>3, SMT DEF Ledgers
  <2> QED BY <2>4, SolanaAssumption DEF ReleaseTypeOK, SolTypeOK
<1> DEFINE Inv == /\ "fee_vault" \in created =>
                         held >= RENT + feesCollected - reimbursed /\ held >= RENT
                  /\ "fee_vault" \notin created => feesCollected = 0
<1>2. Inv
  BY DEF FeeVaultInv, FeeVaultKeepsRent
<1>3. SUFFICES Inv'
  BY DEF FeeVaultInv, FeeVaultKeepsRent
<1>4. ASSUME NEW token \in SolTokens, NEW gas \in Nat, NEW funds \in Nat,
             SolDeposits(token, gas, funds), UNCHANGED releaseVars
      PROVE  Inv'
  <2>1. /\ "fee_vault" \in created /\ UNCHANGED <<created, reimbursed>>
        /\ held' = held + protocolFee /\ feesCollected' = feesCollected + protocolFee
    BY <1>4 DEF SolDeposits, solConfigVars, releaseVars
  <2> QED BY <1>1, <1>2, <2>1, SMT
<1>5. ASSUME NEW m \in Messages, NEW vaultFee \in Nat, NEW paid \in Nat, NEW returned \in Nat,
             Releases(m, vaultFee, paid, returned)
      PROVE  Inv'
  <2>1. /\ UNCHANGED <<created, feesCollected>>
        /\ held' >= held - paid /\ reimbursed' = reimbursed + paid
        /\ paid > 0 => held - RENT >= paid
    BY <1>5 DEF Releases, Executes, solConfigVars
  <2> QED BY <1>1, <1>2, <2>1, SMT
<1>6. CASE SolAdminStep /\ UNCHANGED releaseVars
  <2>1. UNCHANGED <<feesCollected, reimbursed>>
    BY <1>1, <1>6, AdminKeepsTypes DEF solEventVars, releaseVars
  <2>2. \/ held' = held + RENT /\ "fee_vault" \notin created
        \/ held' = held /\ ("fee_vault" \in created' => "fee_vault" \in created)
    BY <1>1, <1>6, AdminMoves
  <2>3. "fee_vault" \in created => "fee_vault" \in created'
    BY <1>6 DEF SolAdminStep, SetSolPaused, SetSolConfig, SetSolProtocolFee, SetSlotUsdCap,
                SetEpochDuration, SetTokenRateLimit, SetSolTss
  <2> QED BY <1>1, <1>2, <2>1, <2>2, <2>3, SMT
<1>7. CASE SolChainStep /\ UNCHANGED releaseVars
  BY <1>2, <1>7 DEF SolChainStep, NewSlot, PythUpdates, solConfigVars, solEventVars, releaseVars
<1>8. CASE UNCHANGED allSolVars
  BY <1>2, <1>8 DEF allSolVars, solVars, solConfigVars, solEventVars, releaseVars
<1> QED BY <1>4, <1>5, <1>6, <1>7, <1>8, StepCases

\* The fee vault is kept apart from the bridge's funds: relayers are reimbursed from the fees
\* users paid, and from nothing else that the program holds, and the rent is never spent.
THEOREM FeeVaultKeeps == SolSpec => []FeeVaultKeepsRent
<1>1. ReleaseInit => FeeVaultInv
  BY DEF ReleaseInit, SolInit, FeeVaultInv, FeeVaultKeepsRent
<1>2. FeeVaultInv => FeeVaultKeepsRent
  BY DEF FeeVaultInv
<1> QED BY <1>1, <1>2, InitTypes, TypesPreserved, FeeVaultPreserved, PTL DEF SolSpec

--------------------------------------------------------------------------------
(* The limits on deposits. *)

\* Only a deposit with gas moves gasEvents, and its gas passed the USD caps.
LEMMA GasStep ==
    ASSUME ReleaseTypeOK, [SolNext]_allSolVars, gasEvents' # gasEvents
    PROVE  \E token \in SolTokens, gas \in Nat, funds \in Nat :
               /\ SolDeposits(token, gas, funds)
               /\ gas > 0 /\ gasEvents' - gasEvents = gas
<1>1. SolTypeOK /\ gasEvents \in Nat
  BY DEF ReleaseTypeOK, SolTypeOK
<1>2. ~ SolAdminStep
  BY <1>1, AdminKeepsTypes DEF solEventVars
<1>3. ~ SolChainStep
  BY DEF SolChainStep, NewSlot, PythUpdates, solEventVars
<1>4. ~ UNCHANGED allSolVars
  BY DEF allSolVars, solVars, solEventVars
<1>5. ASSUME NEW m \in Messages, NEW vaultFee, NEW paid, NEW returned,
             Releases(m, vaultFee, paid, returned)
      PROVE  FALSE
  BY <1>5 DEF Releases, Executes
<1>6. PICK token \in SolTokens, gas \in Nat, funds \in Nat : SolDeposits(token, gas, funds)
  BY <1>2, <1>3, <1>4, <1>5, StepCases
<1>7. gas > 0 /\ gasEvents' - gasEvents = gas
  <2>1. gasEvents' = gasEvents + gas
    BY <1>6 DEF SolDeposits
  <2> QED BY <1>1, <2>1, SMT
<1> QED BY <1>6, <1>7

\* No deposit sends lamports as gas that are worth less than the minimum or more than the
\* maximum in force, whatever mixture of gas, funds and fee its native amount is.
THEOREM SolGasStaysWithinCaps == SolSpec => SolGasWithinCaps
<1>1. ReleaseTypeOK /\ [SolNext]_allSolVars =>
          (gasEvents' # gasEvents =>
               LET usd == UsdAmount(gasEvents' - gasEvents)
               IN  config.min <= usd /\ usd <= config.max)
  <2> SUFFICES ASSUME ReleaseTypeOK, [SolNext]_allSolVars, gasEvents' # gasEvents
               PROVE  /\ config.min <= UsdAmount(gasEvents' - gasEvents)
                      /\ UsdAmount(gasEvents' - gasEvents) <= config.max
    OBVIOUS
  <2>1. PICK token \in SolTokens, gas \in Nat, funds \in Nat :
            SolDeposits(token, gas, funds) /\ gas > 0 /\ gasEvents' - gasEvents = gas
    BY GasStep
  <2>2. UsdAmount(gas) >= config.min /\ UsdAmount(gas) <= config.max
    BY <2>1 DEF SolDeposits, CheckSolUsdCaps
  <2> HIDE DEF UsdAmount
  <2>3. config.min <= UsdAmount(gas)
    BY <2>2, SMT
  <2> QED BY <2>1, <2>2, <2>3
<1> QED BY <1>1, SolanaTypeCorrect, PTL DEF SolSpec, SolGasWithinCaps

\* What the slot has spent was consumed, while the cap is on.
SlotInv == rateConfig.blockUsdCap > 0 => slotSpend <= SlotConsumed

LEMMA SlotConsumedIsNat == ASSUME SolTypeOK PROVE SlotConsumed \in Nat
<1>1. rateConfig \in RateConfigType
  BY DEF SolTypeOK, RateConfigType
<1> QED BY <1>1, SMT DEF SlotConsumed, RateConfigType

\* A deposit with the cap on consumes its gas, within the cap.
LEMMA SlotStep ==
    ASSUME SolTypeOK, SlotInv, rateConfig.blockUsdCap > 0,
           NEW token \in SolTokens, NEW gas \in Nat, NEW funds \in Nat,
           SolDeposits(token, gas, funds)
    PROVE  /\ slotSpend' <= SlotConsumed'
           /\ gas > 0 => slotSpend' <= rateConfig.blockUsdCap
<1> DEFINE usd == UsdAmount(gas)
<1>1. /\ rateConfig \in RateConfigType /\ SlotConsumed \in Nat /\ slotSpend \in Nat
      /\ slotSpend <= SlotConsumed /\ slot \in Nat /\ rateConfig.blockUsdCap \in Nat
  BY SlotConsumedIsNat, SMT DEF SolTypeOK, SlotInv, RateConfigType
<1>2. /\ usd \in Nat /\ CheckSlotUsdCap(gas)
      /\ slotSpend' = slotSpend + usd /\ UNCHANGED slot
  BY DEF SolDeposits, solClockVars
<1>3. CASE gas = 0
  <2>1. usd = 0
    <3>1. Round.price \in Int
      BY SMT DEF SolTypeOK, Round
    <3>2. 0 * Round.price = 0
      BY <3>1, SMT
    <3>3. LAMPORTS_PER_SOL \in Nat /\ LAMPORTS_PER_SOL > 0
      BY SolanaAssumption, SMT
    <3>4. 0 \div LAMPORTS_PER_SOL = 0
      BY <3>3, SMT
    <3> QED BY <1>3, <3>2, <3>4 DEF UsdAmount
  <2>2. UNCHANGED rateConfig
    BY <1>2, <1>3 DEF CheckSlotUsdCap
  <2>3. SlotConsumed' = SlotConsumed
    BY <1>2, <2>2 DEF SlotConsumed
  <2> HIDE DEF usd
  <2> QED BY <1>1, <1>2, <1>3, <2>1, <2>3, SMT
<1>4. CASE gas > 0
  <2> DEFINE sum == SlotConsumed + usd
  <2>1. /\ sum <= rateConfig.blockUsdCap
        /\ rateConfig' = [rateConfig EXCEPT !.lastSlot = slot, !.consumed = sum]
    BY <1>1, <1>2, <1>4, SMT DEF CheckSlotUsdCap
  <2> HIDE DEF sum
  <2>2. rateConfig'.lastSlot = slot /\ rateConfig'.consumed = sum
    BY <1>1, <2>1, Zenon DEF RateConfigType
  <2>3. SlotConsumed' = sum
    BY <1>2, <2>2 DEF SlotConsumed
  <2> HIDE DEF usd
  <2> QED BY <1>1, <1>2, <2>1, <2>3, SMT DEF sum
<1> QED BY <1>3, <1>4, SMT

LEMMA SlotInvPreserved ==
    ReleaseTypeOK /\ SlotInv /\ [SolNext]_allSolVars => SlotInv'
<1> SUFFICES ASSUME ReleaseTypeOK, SlotInv, [SolNext]_allSolVars PROVE SlotInv'
  OBVIOUS
<1>1. /\ SolTypeOK /\ SlotConsumed' \in Nat /\ 0 <= SlotConsumed'
      /\ rateConfig \in RateConfigType
  <2>1. SolTypeOK'
    BY TypesPreserved DEF ReleaseTypeOK
  <2>2. rateConfig' \in RateConfigType
    BY <2>1 DEF SolTypeOK, RateConfigType
  <2>3. SlotConsumed' \in Nat
    BY <2>2, SMT DEF SlotConsumed, RateConfigType
  <2> QED BY <2>3, SMT DEF ReleaseTypeOK, SolTypeOK, RateConfigType
<1>2. CASE UNCHANGED <<rateConfig, slot, slotSpend>>
  BY <1>2 DEF SlotInv, SlotConsumed
<1>3. ASSUME NEW token \in SolTokens, NEW gas \in Nat, NEW funds \in Nat,
             SolDeposits(token, gas, funds)
      PROVE  SlotInv'
  <2>1. rateConfig'.blockUsdCap = rateConfig.blockUsdCap
    BY <1>1, <1>3, SlotCheckKeepsSettings DEF SolDeposits
  <2> QED BY <1>1, <1>3, <2>1, SlotStep DEF SlotInv
<1>4. ASSUME NEW m \in Messages, NEW vaultFee, NEW paid, NEW returned,
             Releases(m, vaultFee, paid, returned)
      PROVE  UNCHANGED <<rateConfig, slot, slotSpend>>
  BY <1>4 DEF Releases, Executes, solClockVars
<1>5. CASE SolAdminStep
  <2>1. ASSUME NEW cap, SetSlotUsdCap(cap) PROVE SlotInv'
    <3>1. /\ rateConfig' = [rateConfig EXCEPT !.blockUsdCap = cap]
          /\ slotSpend' = IF rateConfig.blockUsdCap = 0 THEN 0 ELSE slotSpend
          /\ UNCHANGED slot
      BY <2>1 DEF SetSlotUsdCap, solMoneyVars, solClockVars
    <3>2. /\ rateConfig'.lastSlot = rateConfig.lastSlot
          /\ rateConfig'.consumed = rateConfig.consumed
      BY <1>1, <3>1, Zenon DEF RateConfigType
    <3>3. SlotConsumed' = SlotConsumed
      BY <3>1, <3>2 DEF SlotConsumed
    <3>4. rateConfig.blockUsdCap \in Nat /\ slotSpend \in Nat
      BY <1>1, SMT DEF SolTypeOK, RateConfigType
    <3>5. CASE rateConfig.blockUsdCap = 0
      BY <1>1, <3>1, <3>5, SMT DEF SlotInv
    <3>6. CASE rateConfig.blockUsdCap > 0
      BY <3>1, <3>3, <3>4, <3>6, SMT DEF SlotInv
    <3> QED BY <3>4, <3>5, <3>6, SMT
  <2>2. ASSUME NEW sec, SetEpochDuration(sec) PROVE SlotInv'
    <3>1. /\ rateConfig' = [rateConfig EXCEPT !.epochDuration = sec]
          /\ UNCHANGED <<slotSpend, slot>>
      BY <2>2 DEF SetEpochDuration, solMoneyVars, solClockVars
    <3>2. /\ rateConfig'.lastSlot = rateConfig.lastSlot
          /\ rateConfig'.consumed = rateConfig.consumed
          /\ rateConfig'.blockUsdCap = rateConfig.blockUsdCap
      BY <1>1, <3>1, Zenon DEF RateConfigType
    <3> QED BY <3>1, <3>2 DEF SlotInv, SlotConsumed
  <2>3. CASE \/ SetSolPaused
             \/ \E new \in SolConfigs : SetSolConfig(new)
             \/ \E fee \in ProtocolFees : SetSolProtocolFee(fee)
             \/ \E token \in SolTokens, limit \in TokenLimits : SetTokenRateLimit(token, limit)
             \/ \E new \in TssStates : SetSolTss(new)
    <3>1. UNCHANGED <<rateConfig, slot, slotSpend>>
      BY <2>3, Zenon DEF SetSolPaused, SetSolConfig, SetSolProtocolFee, SetTokenRateLimit,
                         SetSolTss, solLimitVars, solMoneyVars, solClockVars, solWindowVars
    <3> QED BY <1>2, <3>1
  <2> QED BY <1>5, <2>1, <2>2, <2>3 DEF SolAdminStep
<1>6. CASE SolChainStep
  <2>1. ASSUME NEW sec, NewSlot(sec) PROVE SlotInv'
    BY <1>1, <2>1 DEF NewSlot, SlotInv
  <2>2. ASSUME NEW feed, NEW p, PythUpdates(feed, p) PROVE SlotInv'
    BY <1>2, <2>2 DEF PythUpdates, solLimitVars, solWindowVars
  <2> QED BY <1>6, <2>1, <2>2 DEF SolChainStep
<1>7. CASE UNCHANGED allSolVars
  BY <1>2, <1>7 DEF allSolVars, solVars, solLimitVars, solWindowVars, solClockVars
<1> QED BY <1>2, <1>3, <1>4, <1>5, <1>6, <1>7, StepCases

\* With the block cap on, the gas of one slot stays within the cap in force at each deposit,
\* whenever in the slot the authority turns the cap on or changes it.
THEOREM SlotBudget == SolSpec => SlotBudgetHolds
<1>1. ReleaseInit => SlotInv
  BY SMT DEF ReleaseInit, SolInit, SlotInv
<1>2. ReleaseTypeOK /\ SlotInv /\ [SolNext]_allSolVars =>
          (gasEvents' # gasEvents /\ rateConfig.blockUsdCap > 0 =>
               slotSpend' <= rateConfig.blockUsdCap)
  BY GasStep, SlotStep DEF ReleaseTypeOK
<1> QED BY <1>1, <1>2, SolanaTypeCorrect, SlotInvPreserved, PTL DEF SolSpec, SlotBudgetHolds

\* What was deposited in the epoch was consumed, while the quota is on.
QuotaInv ==
    rateConfig.epochDuration > 0 =>
        \A t \in SolTokens : solEpochVolume[t] <= EpochUsage(t).used

LEMMA UsageIsNat ==
    ASSUME NEW held \in RateLimitType, NEW epoch
    PROVE  (IF epoch > held.epoch THEN [held EXCEPT !.epoch = epoch, !.used = 0] ELSE held).used \in Nat
<1>1. [held EXCEPT !.epoch = epoch, !.used = 0].used = 0
  BY Zenon DEF RateLimitType
<1>2. held.used \in Nat
  BY Zenon DEF RateLimitType
<1> QED BY <1>1, <1>2, SMT

\* What is left in a token's account when the window starts again is a natural number.
LEMMA NextUsageIsNat ==
    ASSUME ReleaseTypeOK, [SolNext]_allSolVars, NEW t \in SolTokens
    PROVE  /\ EpochUsage(t)'.used \in Nat
           /\ solEpochVolume'[t] = 0 => solEpochVolume'[t] <= EpochUsage(t)'.used
<1>1. SolTypeOK'
  BY TypesPreserved DEF ReleaseTypeOK
<1>2. tokenRateLimit'[t] \in RateLimitType
  BY <1>1 DEF SolTypeOK, RateLimitType
<1>3. EpochUsage(t)'.used \in Nat
  BY <1>2, UsageIsNat DEF EpochUsage
<1> QED BY <1>3, SMT

\* A deposit with the quota on consumes what it adds to the volume, within the limit.
LEMMA QuotaStep ==
    ASSUME SolTypeOK, QuotaInv, rateConfig.epochDuration > 0,
           NEW token \in SolTokens, NEW amount \in Nat,
           \/ ConsumeSolLimit(token, amount)
           \/ amount = 0 /\ UNCHANGED tokenRateLimit,
           SolFundsEvent(token, amount),
           rateConfig'.epochDuration = rateConfig.epochDuration, UNCHANGED unixTime
    PROVE  \A t \in SolTokens :
               /\ solEpochVolume'[t] <= EpochUsage(t)'.used
               /\ fundsEvents'[t] # fundsEvents[t] => solEpochVolume'[t] <= tokenRateLimit[t].limit
<1>1. \A t \in SolTokens :
          /\ solEpochVolume[t] \in Nat /\ solEpochVolume[t] <= EpochUsage(t).used
          /\ fundsEvents[t] \in Nat
          /\ fundsEvents'[t] = fundsEvents[t] + (IF t = token THEN amount ELSE 0)
          /\ solEpochVolume'[t] = solEpochVolume[t] + (IF t = token THEN amount ELSE 0)
  BY FundsEventEffect DEF SolTypeOK, QuotaInv
<1>2. SolEpoch' = SolEpoch
  BY DEF SolEpoch
<1>3. ASSUME NEW t \in SolTokens, tokenRateLimit'[t] = tokenRateLimit[t],
             t # token \/ amount = 0
      PROVE  /\ solEpochVolume'[t] <= EpochUsage(t)'.used
             /\ fundsEvents'[t] = fundsEvents[t]
  <2>1. EpochUsage(t)' = EpochUsage(t)
    BY <1>2, <1>3 DEF EpochUsage
  <2>2. solEpochVolume'[t] = solEpochVolume[t] /\ fundsEvents'[t] = fundsEvents[t]
    BY <1>1, <1>3, SMT
  <2> QED BY <1>1, <2>1, <2>2
<1>4. CASE amount = 0 /\ UNCHANGED tokenRateLimit
  BY <1>3, <1>4
<1>5. CASE ConsumeSolLimit(token, amount)
  <2>1. /\ \A t \in SolTokens : t # token => tokenRateLimit'[t] = tokenRateLimit[t]
        /\ EpochUsage(token).used + amount <= tokenRateLimit[token].limit
        /\ tokenRateLimit'[token].epoch = EpochUsage(token).epoch
        /\ tokenRateLimit'[token].used = EpochUsage(token).used + amount
    BY <1>5, ConsumeEffect
  <2>2. /\ SolEpoch \in Nat /\ EpochUsage(token) \in RateLimitType
        /\ EpochUsage(token).epoch >= SolEpoch
    BY EpochUsageType
  <2> DEFINE usage == EpochUsage(token)
  <2>3. usage.used \in Nat /\ usage.epoch \in Nat
    <3> HIDE DEF usage
    <3>1. usage \in RateLimitType
      BY <2>2 DEF usage
    <3> QED BY <3>1, Zenon DEF RateLimitType
  <2>4. ~(SolEpoch' > tokenRateLimit'[token].epoch)
    <3> HIDE DEF usage, SolEpoch
    <3>1. usage.epoch >= SolEpoch /\ tokenRateLimit'[token].epoch = usage.epoch
      BY <2>1, <2>2 DEF usage
    <3>2. ~(SolEpoch > usage.epoch)
      BY <2>2, <2>3, <3>1, SMT
    <3> QED BY <1>2, <3>1, <3>2
  <2>5. EpochUsage(token)' = tokenRateLimit'[token]
    BY <2>4 DEF EpochUsage
  <2>6. tokenRateLimit[token].limit \in Nat
    BY SMT DEF SolTypeOK
  <2>7. /\ solEpochVolume'[token] <= EpochUsage(token)'.used
        /\ solEpochVolume'[token] <= tokenRateLimit[token].limit
    <3>1. /\ solEpochVolume[token] \in Nat /\ solEpochVolume[token] <= usage.used
          /\ solEpochVolume'[token] = solEpochVolume[token] + amount
          /\ usage.used + amount <= tokenRateLimit[token].limit
          /\ EpochUsage(token)'.used = usage.used + amount
      BY <1>1, <2>1, <2>5
    <3> HIDE DEF usage
    <3> QED BY <2>3, <2>6, <3>1, SMT
  <2> QED BY <1>3, <2>1, <2>7
<1> QED BY <1>4, <1>5

LEMMA QuotaInvPreserved ==
    ReleaseTypeOK /\ QuotaInv /\ [SolNext]_allSolVars => QuotaInv'
<1> SUFFICES ASSUME ReleaseTypeOK, QuotaInv, [SolNext]_allSolVars PROVE QuotaInv'
  OBVIOUS
<1>1. SolTypeOK /\ rateConfig \in RateConfigType
  BY DEF ReleaseTypeOK, SolTypeOK, RateConfigType
<1>2. CASE UNCHANGED <<rateConfig, tokenRateLimit, unixTime, solEpochVolume>>
  BY <1>2 DEF QuotaInv, EpochUsage, SolEpoch
<1>3. ASSUME NEW token \in SolTokens, NEW gas \in Nat, NEW funds \in Nat,
             SolDeposits(token, gas, funds)
      PROVE  QuotaInv'
  <2>1. rateConfig'.epochDuration = rateConfig.epochDuration
    BY <1>1, <1>3, SlotCheckKeepsSettings DEF SolDeposits
  <2>2. /\ SolFundsEvent(token, funds) /\ UNCHANGED unixTime
        /\ \/ ConsumeSolLimit(token, funds)
           \/ funds = 0 /\ UNCHANGED tokenRateLimit
    BY <1>3 DEF SolDeposits, solClockVars
  <2> QED BY <1>1, <2>1, <2>2, QuotaStep DEF QuotaInv
<1>4. ASSUME NEW m \in Messages, NEW vaultFee \in Nat, NEW paid \in Nat, NEW returned \in Nat,
             Releases(m, vaultFee, paid, returned)
      PROVE  QuotaInv'
  <2>1. /\ SolFundsEvent(m.token, returned) /\ UNCHANGED <<unixTime, rateConfig>>
        /\ \/ ConsumeSolLimit(m.token, returned)
           \/ returned = 0 /\ UNCHANGED tokenRateLimit
        /\ m.token \in SolTokens
    BY <1>4, MessageTypes DEF Releases, Executes, solClockVars
  <2> QED BY <1>1, <2>1, QuotaStep DEF QuotaInv
<1>5. CASE SolAdminStep
  <2>1. ASSUME NEW sec, SetEpochDuration(sec) PROVE QuotaInv'
    BY <2>1, NextUsageIsNat DEF SetEpochDuration, QuotaInv
  <2>2. ASSUME NEW token \in SolTokens, NEW limit, SetTokenRateLimit(token, limit)
        PROVE  QuotaInv'
    <3>1. /\ tokenRateLimit' = [tokenRateLimit EXCEPT
                                   ![token] = [limit |-> limit, epoch |-> 0, used |-> 0]]
          /\ solEpochVolume' = [solEpochVolume EXCEPT ![token] = 0]
          /\ UNCHANGED <<rateConfig, unixTime>>
      BY <2>2 DEF SetTokenRateLimit, solMoneyVars, solClockVars
    <3>2. /\ tokenRateLimit \in [SolTokens -> RateLimitType] /\ solEpochVolume \in [SolTokens -> Nat]
      BY <1>1 DEF SolTypeOK, RateLimitType
    <3>3. /\ solEpochVolume'[token] = 0
          /\ \A t \in SolTokens \ {token} : /\ tokenRateLimit'[t] = tokenRateLimit[t]
                                            /\ solEpochVolume'[t] = solEpochVolume[t]
      BY <3>1, <3>2, Zenon
    <3>4. \A t \in SolTokens \ {token} : EpochUsage(t)' = EpochUsage(t)
      BY <3>1, <3>3 DEF EpochUsage, SolEpoch
    <3> QED BY <3>1, <3>3, <3>4, NextUsageIsNat DEF QuotaInv
  <2>3. ASSUME NEW cap, SetSlotUsdCap(cap) PROVE QuotaInv'
    <3>1. /\ rateConfig' = [rateConfig EXCEPT !.blockUsdCap = cap]
          /\ UNCHANGED <<tokenRateLimit, unixTime, solEpochVolume>>
      BY <2>3 DEF SetSlotUsdCap, solMoneyVars, solClockVars
    <3>2. rateConfig'.epochDuration = rateConfig.epochDuration
      BY <1>1, <3>1, Zenon DEF RateConfigType
    <3> QED BY <3>1, <3>2 DEF QuotaInv, EpochUsage, SolEpoch
  <2>4. CASE \/ SetSolPaused
             \/ \E new \in SolConfigs : SetSolConfig(new)
             \/ \E fee \in ProtocolFees : SetSolProtocolFee(fee)
             \/ \E new \in TssStates : SetSolTss(new)
    <3>1. UNCHANGED <<rateConfig, tokenRateLimit, unixTime, solEpochVolume>>
      BY <2>4, Zenon DEF SetSolPaused, SetSolConfig, SetSolProtocolFee, SetSolTss,
                         solLimitVars, solMoneyVars, solClockVars, solWindowVars
    <3> QED BY <1>2, <3>1
  <2> QED BY <1>5, <2>1, <2>2, <2>3, <2>4 DEF SolAdminStep
<1>6. CASE SolChainStep
  <2>1. ASSUME NEW sec, NewSlot(sec) PROVE QuotaInv'
    <3> SUFFICES ASSUME rateConfig.epochDuration > 0, NEW t \in SolTokens
                 PROVE  solEpochVolume'[t] <= EpochUsage(t)'.used
      BY <2>1 DEF NewSlot, solLimitVars, QuotaInv
    <3>1. /\ UNCHANGED <<rateConfig, tokenRateLimit>>
          /\ unixTime' = unixTime + sec
          /\ solEpochVolume' = IF SolEpoch' # SolEpoch THEN [u \in SolTokens |-> 0]
                               ELSE solEpochVolume
      BY <2>1 DEF NewSlot, solLimitVars, SolEpoch
    <3>2. CASE SolEpoch' # SolEpoch
      BY <3>1, <3>2, NextUsageIsNat
    <3>3. CASE SolEpoch' = SolEpoch
      BY <3>1, <3>3 DEF QuotaInv, EpochUsage
    <3> QED BY <3>2, <3>3
  <2>2. ASSUME NEW feed, NEW p, PythUpdates(feed, p) PROVE QuotaInv'
    BY <1>2, <2>2 DEF PythUpdates, solLimitVars, solWindowVars
  <2> QED BY <1>6, <2>1, <2>2 DEF SolChainStep
<1>7. CASE UNCHANGED allSolVars
  BY <1>2, <1>7 DEF allSolVars, solVars, solLimitVars, solWindowVars, solClockVars
<1> QED BY <1>3, <1>4, <1>5, <1>6, <1>7, StepCases

\* While the quota is on, what users and CEAs deposited of a token in the present epoch, since
\* its limit was last set and the epochs were last renumbered by a change of their duration,
\* fits the limit at each deposit.
THEOREM SolEpochQuota == SolSpec => SolEpochQuotaHolds
<1>1. ReleaseInit => QuotaInv
  BY SMT DEF ReleaseInit, SolInit, QuotaInv
<1>2. ReleaseTypeOK /\ QuotaInv /\ [SolNext]_allSolVars =>
          (\A t \in SolTokens :
               fundsEvents'[t] # fundsEvents[t] /\ rateConfig.epochDuration > 0 =>
                   solEpochVolume'[t] <= tokenRateLimit[t].limit)
  <2> SUFFICES ASSUME ReleaseTypeOK, QuotaInv, [SolNext]_allSolVars, NEW t \in SolTokens,
                      fundsEvents'[t] # fundsEvents[t], rateConfig.epochDuration > 0
               PROVE  solEpochVolume'[t] <= tokenRateLimit[t].limit
    OBVIOUS
  <2>1. SolTypeOK /\ rateConfig \in RateConfigType
    BY DEF ReleaseTypeOK, SolTypeOK, RateConfigType
  <2>2. ASSUME NEW token \in SolTokens, NEW gas \in Nat, NEW funds \in Nat,
               SolDeposits(token, gas, funds)
        PROVE  solEpochVolume'[t] <= tokenRateLimit[t].limit
    <3>1. rateConfig'.epochDuration = rateConfig.epochDuration
      BY <2>1, <2>2, SlotCheckKeepsSettings DEF SolDeposits
    <3>2. /\ SolFundsEvent(token, funds) /\ UNCHANGED unixTime
          /\ \/ ConsumeSolLimit(token, funds)
             \/ funds = 0 /\ UNCHANGED tokenRateLimit
      BY <2>2 DEF SolDeposits, solClockVars
    <3> QED BY <2>1, <3>1, <3>2, QuotaStep
  <2>3. ASSUME NEW m \in Messages, NEW vaultFee \in Nat, NEW paid \in Nat, NEW returned \in Nat,
               Releases(m, vaultFee, paid, returned)
        PROVE  solEpochVolume'[t] <= tokenRateLimit[t].limit
    <3>1. /\ SolFundsEvent(m.token, returned) /\ UNCHANGED <<unixTime, rateConfig>>
          /\ \/ ConsumeSolLimit(m.token, returned)
             \/ returned = 0 /\ UNCHANGED tokenRateLimit
          /\ m.token \in SolTokens
      BY <2>3, MessageTypes DEF Releases, Executes, solClockVars
    <3> QED BY <2>1, <3>1, QuotaStep
  <2>4. UNCHANGED fundsEvents => FALSE
    OBVIOUS
  <2>5. ~SolAdminStep
    BY <2>1, <2>4, AdminKeepsTypes DEF solEventVars
  <2>6. ~SolChainStep
    BY <2>4 DEF SolChainStep, NewSlot, PythUpdates, solEventVars
  <2>7. ~UNCHANGED allSolVars
    BY <2>4 DEF allSolVars, solVars, solEventVars
  <2> QED BY <2>2, <2>3, <2>5, <2>6, <2>7, StepCases
<1> QED BY <1>1, <1>2, SolanaTypeCorrect, QuotaInvPreserved, PTL DEF SolSpec, SolEpochQuotaHolds

--------------------------------------------------------------------------------
(* The refinement: the vault is what is in custody, the messages are the orders. *)

\* What the promise's actions say of this state and the next.
LEMMA CustodyOfState ==
    /\ Custody!CustodyInit <=>
           /\ \A t \in SolTokens : lamports[t][VAULT_PDA] \in Nat /\ Announced(t) = 0
           /\ executed = {}
    /\ Custody!Announces <=>
           \A t \in SolTokens : /\ lamports'[t][VAULT_PDA] \in Nat /\ Announced(t)' \in Nat
                                /\ Announced(t)' >= Announced(t)
    /\ Custody!TakeIn <=>
           /\ ~config.paused
           /\ UNCHANGED <<executed, tss>> /\ (~config.paused)' = ~config.paused
           /\ Custody!Announces
           /\ \A t \in SolTokens : lamports'[t][VAULT_PDA] + Announced(t) =
                                       lamports[t][VAULT_PDA] + Announced(t)'
    /\ \A m \in Messages : Custody!CarryOut(OrderOf(m)) <=>
           /\ ~config.paused
           /\ m.tss = tss /\ m.subTxId \notin executed
           /\ executed' = executed \cup {m.subTxId}
           /\ UNCHANGED tss /\ (~config.paused)' = ~config.paused
           /\ Custody!Announces
           /\ \A t \in SolTokens :
                  lamports'[t][VAULT_PDA] + Announced(t) + Custody!Cost(OrderOf(m), t) >=
                      lamports[t][VAULT_PDA] + Announced(t)'
    /\ \A m \in Messages, t \in SolTokens : Custody!Cost(OrderOf(m), t) =
           (IF t = m.token THEN m.amount ELSE 0) + (IF t = SOL THEN OrderOf(m).fee ELSE 0)
    /\ Custody!Govern <=>
           /\ \A t \in SolTokens : /\ lamports'[t][VAULT_PDA] = lamports[t][VAULT_PDA]
                                   /\ Announced(t)' = Announced(t)
           /\ UNCHANGED executed
    /\ Custody!CustodyNext <=>
           Custody!Govern \/ Custody!TakeIn \/ \E m \in Messages : Custody!CarryOut(OrderOf(m))
<1>1. Custody!CustodyInit <=>
          /\ \A t \in SolTokens : lamports[t][VAULT_PDA] \in Nat /\ Announced(t) = 0
          /\ executed = {}
  BY DEF Custody!CustodyInit
<1>2. Custody!Announces <=>
          \A t \in SolTokens : /\ lamports'[t][VAULT_PDA] \in Nat /\ Announced(t)' \in Nat
                               /\ Announced(t)' >= Announced(t)
  BY DEF Custody!Announces
<1>3. Custody!Govern <=>
          /\ \A t \in SolTokens : /\ lamports'[t][VAULT_PDA] = lamports[t][VAULT_PDA]
                                  /\ Announced(t)' = Announced(t)
          /\ UNCHANGED executed
  BY DEF Custody!Govern
<1>4. Custody!TakeIn <=>
          /\ ~config.paused
          /\ UNCHANGED <<executed, tss>> /\ (~config.paused)' = ~config.paused
          /\ Custody!Announces
          /\ \A t \in SolTokens : lamports'[t][VAULT_PDA] + Announced(t) =
                                      lamports[t][VAULT_PDA] + Announced(t)'
  BY DEF Custody!TakeIn
<1>5. ASSUME NEW m \in Messages
      PROVE  Custody!CarryOut(OrderOf(m)) <=>
                 /\ ~config.paused
                 /\ m.tss = tss /\ m.subTxId \notin executed
                 /\ executed' = executed \cup {m.subTxId}
                 /\ UNCHANGED tss /\ (~config.paused)' = ~config.paused
                 /\ Custody!Announces
                 /\ \A t \in SolTokens :
                        lamports'[t][VAULT_PDA] + Announced(t) + Custody!Cost(OrderOf(m), t) >=
                            lamports[t][VAULT_PDA] + Announced(t)'
  <2>1. OrderOf(m).id = m.subTxId /\ OrderOf(m).key = m.tss
    BY DEF OrderOf
  <2> QED BY <2>1 DEF Custody!CarryOut
<1>6. ASSUME NEW m \in Messages, NEW t \in SolTokens
      PROVE  Custody!Cost(OrderOf(m), t) =
                 (IF t = m.token THEN m.amount ELSE 0) + (IF t = SOL THEN OrderOf(m).fee ELSE 0)
  <2>1. OrderOf(m).asset = m.token /\ OrderOf(m).amount = m.amount
    BY DEF OrderOf
  <2> QED BY <2>1 DEF Custody!Cost
<1>7. Custody!CustodyNext <=>
          Custody!Govern \/ Custody!TakeIn \/ \E m \in Messages : Custody!CarryOut(OrderOf(m))
  BY DEF Custody!CustodyNext, SignedOrders
<1> QED BY <1>1, <1>2, <1>3, <1>4, <1>5, <1>6, <1>7

\* What the vault holds and what is announced are numbers, in this state and the next.
LEMMA VaultNumbers ==
    ASSUME ReleaseTypeOK, ReleaseTypeOK', NEW t \in SolTokens
    PROVE  /\ lamports[t][VAULT_PDA] \in Nat /\ lamports'[t][VAULT_PDA] \in Nat
           /\ fundsEvents[t] \in Nat /\ gasEvents \in Nat
           /\ Announced(t) \in Nat /\ Announced(t)' \in Nat
<1>1. /\ lamports \in Ledgers(SolTokens, SolAccounts)
      /\ lamports' \in Ledgers(SolTokens, SolAccounts)
      /\ fundsEvents \in [SolTokens -> Nat] /\ fundsEvents' \in [SolTokens -> Nat]
      /\ gasEvents \in Nat /\ gasEvents' \in Nat
  BY DEF ReleaseTypeOK, SolTypeOK
<1>2. VAULT_PDA \in SolAccounts
  BY SolAccountsDiffer
<1>3. lamports[t][VAULT_PDA] \in Nat /\ lamports'[t][VAULT_PDA] \in Nat
  BY <1>1, <1>2, SMT DEF Ledgers
<1>4. Announced(t) \in Nat /\ Announced(t)' \in Nat
  BY <1>1, SMT DEF Announced
<1> QED BY <1>1, <1>3, <1>4

\* Every step of the program takes in, carries out one message, or leaves custody alone.
LEMMA CustodyStep ==
    ReleaseTypeOK /\ [SolNext]_allSolVars => [Custody!CustodyNext]_(Custody!custodyVars)
<1> SUFFICES ASSUME ReleaseTypeOK, [SolNext]_allSolVars PROVE Custody!CustodyNext
  OBVIOUS
<1>1. SolTypeOK /\ ReleaseTypeOK'
  BY TypesPreserved DEF ReleaseTypeOK
<1>2. ASSUME NEW token \in SolTokens, NEW gas \in Nat, NEW funds \in Nat,
             SolDeposits(token, gas, funds)
      PROVE  Custody!TakeIn
  <2>1. /\ ~config.paused
        /\ UNCHANGED <<executed, tss, config>>
        /\ \A t \in SolTokens : lamports'[t][VAULT_PDA] =
               lamports[t][VAULT_PDA] + (IF t = SOL THEN gas ELSE 0)
                                      + (IF t = token THEN funds ELSE 0)
        /\ gasEvents' = gasEvents + gas
        /\ SolFundsEvent(token, funds)
    BY <1>2 DEF SolDeposits, solConfigVars
  <2>2. \A t \in SolTokens : fundsEvents'[t] = fundsEvents[t] + (IF t = token THEN funds ELSE 0)
    BY <1>1, <2>1, FundsEventEffect
  <2>3. ASSUME NEW t \in SolTokens
        PROVE  /\ Announced(t)' >= Announced(t)
               /\ lamports'[t][VAULT_PDA] + Announced(t) = lamports[t][VAULT_PDA] + Announced(t)'
    BY <1>1, <2>1, <2>2, VaultNumbers, SMT DEF Announced
  <2>4. Custody!Announces
    BY <1>1, <2>3, VaultNumbers, CustodyOfState
  <2> QED BY <2>1, <2>3, <2>4, CustodyOfState
<1>3. ASSUME NEW m \in Messages, NEW vaultFee \in Nat, NEW paid \in Nat, NEW returned \in Nat,
             Releases(m, vaultFee, paid, returned)
      PROVE  Custody!CarryOut(OrderOf(m))
  <2>1. m.token \in SolTokens /\ m.amount \in Nat
    BY MessageTypes
  <2>2. /\ ~config.paused /\ m.tss = tss /\ m.subTxId \notin executed
        /\ executed' = executed \cup {m.subTxId}
        /\ UNCHANGED <<tss, config, gasEvents>>
        /\ vaultFee = OrderOf(m).fee
        /\ \A t \in SolTokens : lamports'[t][VAULT_PDA] >= lamports[t][VAULT_PDA]
               + (IF t = m.token THEN returned - m.amount ELSE 0)
               - (IF t = SOL THEN vaultFee ELSE 0)
        /\ SolFundsEvent(m.token, returned)
    BY <1>3 DEF Releases, Executes, solConfigVars
  <2>3. \A t \in SolTokens :
            fundsEvents'[t] = fundsEvents[t] + (IF t = m.token THEN returned ELSE 0)
    BY <1>1, <2>1, <2>2, FundsEventEffect
  <2>4. ASSUME NEW t \in SolTokens
        PROVE  /\ Announced(t)' >= Announced(t)
               /\ lamports'[t][VAULT_PDA] + Announced(t) + Custody!Cost(OrderOf(m), t) >=
                      lamports[t][VAULT_PDA] + Announced(t)'
    <3>1. Custody!Cost(OrderOf(m), t) =
              (IF t = m.token THEN m.amount ELSE 0) + (IF t = SOL THEN vaultFee ELSE 0)
      BY <2>2, CustodyOfState
    <3>2. Announced(t)' = Announced(t) + (IF t = m.token THEN returned ELSE 0)
      BY <1>1, <2>2, <2>3, VaultNumbers, SMT DEF Announced
    <3>3. /\ lamports[t][VAULT_PDA] \in Nat /\ lamports'[t][VAULT_PDA] \in Nat
          /\ Announced(t) \in Nat /\ Announced(t)' \in Nat
      BY <1>1, VaultNumbers
    <3> HIDE DEF Announced
    <3> QED BY <2>1, <2>2, <3>1, <3>2, <3>3, SMT
  <2>5. Custody!Announces
    BY <1>1, <2>4, VaultNumbers, CustodyOfState
  <2> QED BY <2>2, <2>4, <2>5, CustodyOfState
<1>4. CASE /\ \A t \in SolTokens : lamports'[t][VAULT_PDA] = lamports[t][VAULT_PDA]
           /\ UNCHANGED <<fundsEvents, gasEvents, executed>>
  BY <1>4, CustodyOfState DEF Announced
<1>5. CASE SolAdminStep
  <2>1. \A t \in SolTokens : lamports'[t][VAULT_PDA] = lamports[t][VAULT_PDA]
    BY <1>1, <1>5, AdminMoves, SolAccountsDiffer
  <2>2. UNCHANGED <<fundsEvents, gasEvents, executed>>
    BY <1>1, <1>5, AdminKeepsTypes DEF solEventVars
  <2> QED BY <1>4, <2>1, <2>2
<1>6. CASE SolChainStep
  BY <1>4, <1>6 DEF SolChainStep, NewSlot, PythUpdates, solEventVars
<1>7. CASE UNCHANGED allSolVars
  BY <1>4, <1>7 DEF allSolVars, solVars, solEventVars
<1> QED BY <1>2, <1>3, <1>4, <1>5, <1>6, <1>7, StepCases, CustodyOfState

LEMMA CustodyInit_Holds == ReleaseInit => Custody!CustodyInit
<1> SUFFICES ASSUME ReleaseInit PROVE Custody!CustodyInit
  OBVIOUS
<1>1. VAULT_PDA \in SolAccounts
  BY SolAccountsDiffer
<1>2. \A t \in SolTokens : StartBalances[t][VAULT_PDA] \in Nat
  BY <1>1, SolanaAssumption, SMT DEF Ledgers
<1>3. /\ lamports = StartBalances /\ gasEvents = 0 /\ executed = {}
      /\ \A t \in SolTokens : fundsEvents[t] = 0
  BY DEF ReleaseInit, SolInit
<1>4. \A t \in SolTokens : Announced(t) = 0
  BY <1>3, SMT DEF Announced
<1> QED BY <1>2, <1>3, <1>4, CustodyOfState

\* The program implements CustodyPromise: what deposits and CEAs bring into the vault is
\* announced amount for amount; a message takes from it no more than it names and its gas fee,
\* once for its sub_tx_id, under the key of the TSS in force and never in a pause; whatever an
\* authority sets, and a passing slot, moves nothing of it.
THEOREM SolanaImplementsPromise == SolSpec => KeepsCustodyPromise
<1>1. ReleaseTypeOK /\ [SolNext]_allSolVars => [Custody!CustodyNext]_(Custody!custodyVars)
  BY CustodyStep
<1> QED BY <1>1, CustodyInit_Holds, SolanaTypeCorrect, PTL
        DEF SolSpec, KeepsCustodyPromise, Custody!CustodySpec

================================================================================
