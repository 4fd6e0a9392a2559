------------------------------- MODULE PushProofs -------------------------------
(***************************************************************************)
(* Type correctness of the outbound gateway, that it keeps nothing, that   *)
(* every outbound event has a subTxId of its own, where the fees are, and  *)
(* that it implements OutboundPromise, for every set of tokens, callers    *)
(* and requests. The invariant adds to the first three what makes the      *)
(* subTxIds new: those of the past hold a nonce already used.              *)
(***************************************************************************)
EXTENDS UniversalGatewayPC, LedgerProofs

IdsBelowNonce == \A id \in outbound : id[7] \in Nat /\ id[7] < nonce

PushInv ==
    /\ PushTypeOK
    /\ OutboundGatewayKeepsNothing
    /\ IsFiniteSet(outbound) /\ IdsBelowNonce /\ SubTxIdsUnique
    /\ FeesInVaultPC

--------------------------------------------------------------------------------
(* Ledgers. *)

PCLedgers == Ledgers(PCTokens, PCAccounts)

\* What the VaultPCs hold together in a ledger.
FeesHeld(b) == SumOver(b[PC], VaultPCs)

\* Between two ledgers an amount of a token leaves circulation, and the VaultPCs get a fee.
Retired(b, after, token, amount) ==
    \A t \in PRC20s :
        Circulating(after, t) = Circulating(b, t) - (IF t = token THEN amount ELSE 0)
Collected(b, after, fee) == FeesHeld(after) = FeesHeld(b) + fee

LEMMA LedgerSums ==
    ASSUME NEW b \in PCLedgers
    PROVE  /\ \A t \in PRC20s : Circulating(b, t) = SumOver(b[t], PCAccounts)
           /\ \A t \in PRC20s : Circulating(b, t) \in Nat
           /\ \A t \in PRC20s, a \in PCAccounts : b[t][a] <= Circulating(b, t)
           /\ FeesHeld(b) \in Int
<1>1. \A t \in PRC20s : Circulating(b, t) = SumOver(b[t], PCAccounts)
  BY DEF Circulating, SumOver
<1>2. /\ \A t \in PRC20s, a \in PCAccounts : b[t][a] \in Nat
      /\ \A a \in VaultPCs : b[PC][a] \in Int
      /\ IsFiniteSet(PCAccounts) /\ IsFiniteSet(VaultPCs)
  <2>1. VaultPCs \in SUBSET PCAccounts /\ PC \in PCTokens /\ PRC20s \subseteq PCTokens
    BY DEF PCAccounts, PCTokens
  <2>2. IsFiniteSet(VaultPCs)
    BY <2>1, AccountsAssumption, FS_Subset
  <2> QED BY <2>1, <2>2, AccountsAssumption, BalancesAreInt DEF PCLedgers, Ledgers
<1>3. ASSUME NEW t \in PRC20s
      PROVE  /\ SumOver(b[t], PCAccounts) \in Nat
             /\ \A a \in PCAccounts : b[t][a] <= SumOver(b[t], PCAccounts)
  BY <1>2, SumOfNats
<1>4. FeesHeld(b) \in Int
  BY <1>2, SumOfElement DEF FeesHeld
<1> QED BY <1>1, <1>3, <1>4

\* Balances that do not change leave the sums as they are.
LEMMA SamePRC20s ==
    ASSUME NEW b \in PCLedgers, NEW after \in PCLedgers, NEW token,
           \A t \in PRC20s, a \in PCAccounts : after[t][a] = b[t][a]
    PROVE  Retired(b, after, token, 0)
<1> SUFFICES ASSUME NEW t \in PRC20s
             PROVE  Circulating(after, t) = Circulating(b, t) - (IF t = token THEN 0 ELSE 0)
  BY DEF Retired
<1>1. \A a \in PCAccounts : b[t][a] \in Int /\ after[t][a] = b[t][a]
  BY BalancesAreInt DEF PCLedgers, PCTokens
<1>2. Circulating(after, t) = Circulating(b, t)
  BY <1>1, AccountsAssumption, LedgerSums, SumOfSame
<1>3. Circulating(b, t) \in Nat
  BY LedgerSums
<1> QED BY <1>2, <1>3, SMT

LEMMA SameFees ==
    ASSUME NEW b \in PCLedgers, NEW after \in PCLedgers,
           \A v \in VaultPCs : after[PC][v] = b[PC][v]
    PROVE  Collected(b, after, 0)
<1>1. VaultPCs \in SUBSET PCAccounts /\ PC \in PCTokens
  BY DEF PCAccounts, PCTokens
<1>2. IsFiniteSet(VaultPCs) /\ \A v \in VaultPCs : b[PC][v] \in Int
  BY <1>1, AccountsAssumption, FS_Subset, BalancesAreInt DEF PCLedgers
<1>3. FeesHeld(after) = FeesHeld(b)
  BY <1>2, SumOfSame DEF FeesHeld
<1> QED BY <1>3, LedgerSums, SMT DEF Collected

\* A transfer of PC that pays a VaultPC or is paid by one.
LEMMA FeesAfterTransfer ==
    ASSUME NEW b \in PCLedgers, NEW from \in PCAccounts, NEW to \in PCAccounts,
           NEW amount \in Nat, CanPay(b, PC, from, amount)
    PROVE  FeesHeld(Transfer(b, PC, from, to, amount)) =
               FeesHeld(b) - (IF from \in VaultPCs THEN amount ELSE 0)
                           + (IF to \in VaultPCs THEN amount ELSE 0)
<1>1. VaultPCs \in SUBSET PCAccounts /\ PC \in PCTokens
  BY DEF PCAccounts, PCTokens
<1>2. IsFiniteSet(VaultPCs)
  BY <1>1, AccountsAssumption, FS_Subset
<1>3. FeesHeld(Transfer(b, PC, from, to, amount)) =
          FeesHeld(b) - (IF PC = PC /\ from \in VaultPCs THEN amount ELSE 0)
                      + (IF PC = PC /\ to \in VaultPCs THEN amount ELSE 0)
  BY <1>1, <1>2, TransferSum DEF PCLedgers, FeesHeld
<1> QED BY <1>3

\* A burn of what the account has.
LEMMA BurnedEffect ==
    ASSUME NEW b \in PCLedgers, NEW a \in PCAccounts, NEW t \in PCTokens, NEW amount \in Nat,
           CanPay(b, t, a, amount)
    PROVE  /\ Burned(b, a, t, amount) \in PCLedgers
           /\ Burned(b, a, t, amount)[t][a] = b[t][a] - amount
           /\ \A u \in PCTokens, c \in PCAccounts :
                  u # t \/ c # a => Burned(b, a, t, amount)[u][c] = b[u][c]
BY SMT DEF Burned, PCLedgers, Ledgers, CanPay

\* A PRC20 that one account loses leaves circulation.
LEMMA RetiredByOne ==
    ASSUME NEW b \in PCLedgers, NEW after \in PCLedgers, NEW a \in PCAccounts,
           NEW token \in PRC20s, NEW amount \in Nat, after[token][a] = b[token][a] - amount,
           \A t \in PRC20s, c \in PCAccounts : t # token \/ c # a => after[t][c] = b[t][c]
    PROVE  Retired(b, after, token, amount)
<1> SUFFICES ASSUME NEW t \in PRC20s
             PROVE  Circulating(after, t) = Circulating(b, t) - (IF t = token THEN amount ELSE 0)
  BY DEF Retired
<1>1. \A c \in PCAccounts : b[t][c] \in Int /\ after[t][c] \in Int
  BY BalancesAreInt DEF PCLedgers, PCTokens
<1>2. /\ Circulating(b, t) = SumOver(b[t], PCAccounts) /\ Circulating(b, t) \in Nat
      /\ Circulating(after, t) = SumOver(after[t], PCAccounts)
  BY LedgerSums
<1>3. CASE t = token
  <2> DEFINE f == b[t]
             g == after[t]
  <2>1. /\ \A c \in PCAccounts : f[c] \in Int /\ g[c] \in Int
        /\ \A c \in PCAccounts \ {a} : g[c] = f[c]
        /\ g[a] - f[a] = 0 - amount
    BY <1>1, <1>3, SMT
  <2> HIDE DEF f, g
  <2>2. SumOver(g, PCAccounts) = SumOver(f, PCAccounts) + (g[a] - f[a])
    BY <2>1, AccountsAssumption, SumAfterChange
  <2>3. SumOver(after[t], PCAccounts) = SumOver(b[t], PCAccounts) + (0 - amount)
    BY <2>1, <2>2 DEF f, g
  <2> QED BY <1>2, <1>3, <2>3, SMT
<1>4. CASE t # token
  <2>1. SumOver(after[t], PCAccounts) = SumOver(b[t], PCAccounts)
    BY <1>1, <1>4, AccountsAssumption, SumOfSame
  <2> QED BY <1>2, <1>4, <2>1, SMT
<1> QED BY <1>3, <1>4

\* A sender's PRC20s are burned without a trace in any other balance.
LEMMA BurnPRC20Effect ==
    ASSUME NEW b \in PCLedgers, NEW sender \in Callers, NEW t \in PRC20s, NEW amount \in Nat,
           CanPay(b, t, sender, amount)
    PROVE  LET after == BurnPRC20(b, sender, t, amount)
           IN  /\ after \in PCLedgers
               /\ \A u \in PCTokens, c \in PCAccounts :
                      u # t \/ c # sender => after[u][c] = b[u][c]
               /\ Retired(b, after, t, amount) /\ Collected(b, after, 0)
<1> DEFINE pulled == Transfer(b, t, sender, UGPC, amount)
           after  == Burned(pulled, UGPC, t, amount)
<1>1. /\ sender \in PCAccounts /\ UGPC \in PCAccounts /\ sender # UGPC /\ t \in PCTokens
      /\ PC \in PCTokens /\ VaultPCs \subseteq PCAccounts /\ t # PC /\ PRC20s \subseteq PCTokens
  BY PushAssumption DEF PCAccounts, PCTokens
<1>2. /\ pulled \in PCLedgers
      /\ \A u \in PCTokens, c \in PCAccounts :
             u # t \/ c \notin {sender, UGPC} => pulled[u][c] = b[u][c]
      /\ pulled[t][UGPC] = b[t][UGPC] + amount /\ pulled[t][sender] = b[t][sender] - amount
  BY <1>1, TransferEffect DEF PCLedgers
<1>3. b[t][UGPC] \in Nat
  BY <1>1 DEF PCLedgers, Ledgers
<1> HIDE DEF pulled
<1>4. CanPay(pulled, t, UGPC, amount) /\ pulled[t][UGPC] - amount = b[t][UGPC]
  BY <1>2, <1>3, SMT DEF CanPay
<1>5. /\ after \in PCLedgers
      /\ after[t][UGPC] = b[t][UGPC]
      /\ \A u \in PCTokens, c \in PCAccounts : u # t \/ c # UGPC => after[u][c] = pulled[u][c]
  BY <1>1, <1>2, <1>4, BurnedEffect
<1>6. BurnPRC20(b, sender, t, amount) = after
  BY DEF BurnPRC20, pulled
<1> HIDE DEF after
<1>7. /\ after[t][sender] = b[t][sender] - amount
      /\ \A u \in PCTokens, c \in PCAccounts : u # t \/ c # sender => after[u][c] = b[u][c]
  BY <1>1, <1>2, <1>5
<1>8. Retired(b, after, t, amount)
  BY <1>1, <1>5, <1>7, RetiredByOne
<1>9. Collected(b, after, 0)
  <2>1. \A v \in VaultPCs : after[PC][v] = b[PC][v]
    BY <1>1, <1>7
  <2> QED BY <1>5, <2>1, SameFees
<1> QED BY <1>5, <1>6, <1>7, <1>8, <1>9

\* The value arrives, the fee goes on: the rest of the value is the gateway's.
LEMMA FeeForwardedEffect ==
    ASSUME NEW b \in PCLedgers, NEW sender \in Callers, NEW value \in Nat, NEW fee \in Nat,
           CanPay(b, PC, sender, value), fee <= value, VAULT_PC \in VaultPCs
    PROVE  LET after == FeeForwarded(b, sender, value, fee)
           IN  /\ after \in PCLedgers
               /\ after[PC][UGPC] = b[PC][UGPC] + (value - fee)
               /\ \A u \in PRC20s, c \in PCAccounts : after[u][c] = b[u][c]
               /\ Collected(b, after, fee)
<1> DEFINE arrived == Transfer(b, PC, sender, UGPC, value)
           after == Transfer(arrived, PC, UGPC, VAULT_PC, fee)
<1>1. /\ sender \in PCAccounts /\ UGPC \in PCAccounts /\ VAULT_PC \in PCAccounts
      /\ sender # UGPC /\ VAULT_PC # UGPC /\ PC \in PCTokens
      /\ sender \notin VaultPCs /\ UGPC \notin VaultPCs
      /\ \A u \in PRC20s : u \in PCTokens /\ u # PC
  BY PushAssumption DEF PCAccounts, PCTokens
<1>2. /\ arrived \in PCLedgers
      /\ \A u \in PCTokens, c \in PCAccounts :
             u # PC \/ c \notin {sender, UGPC} => arrived[u][c] = b[u][c]
      /\ arrived[PC][UGPC] = b[PC][UGPC] + value
  BY <1>1, TransferEffect DEF PCLedgers
<1>3. b[PC][UGPC] \in Nat
  BY <1>1 DEF PCLedgers, Ledgers
<1>4. FeesHeld(arrived) = FeesHeld(b) - 0 + 0
  BY <1>1, FeesAfterTransfer
<1> HIDE DEF arrived
<1>5. CanPay(arrived, PC, UGPC, fee)
  BY <1>2, <1>3, SMT DEF CanPay
<1>6. /\ after \in PCLedgers
      /\ \A u \in PCTokens, c \in PCAccounts :
             u # PC \/ c \notin {UGPC, VAULT_PC} => after[u][c] = arrived[u][c]
      /\ after[PC][UGPC] = arrived[PC][UGPC] - fee
  BY <1>1, <1>2, <1>5, TransferEffect DEF PCLedgers
<1>7. FeesHeld(after) = FeesHeld(arrived) - 0 + fee
  BY <1>1, <1>2, <1>5, FeesAfterTransfer
<1>8. FeeForwarded(b, sender, value, fee) = after
  BY DEF FeeForwarded, arrived
<1> HIDE DEF after
<1>9. after[PC][UGPC] = b[PC][UGPC] + (value - fee)
  BY <1>2, <1>3, <1>6, SMT
<1>10. Collected(b, after, fee)
  <2>1. FeesHeld(b) \in Int
    BY LedgerSums
  <2> QED BY <1>4, <1>7, <2>1, SMT DEF Collected
<1> QED BY <1>1, <1>2, <1>6, <1>8, <1>9, <1>10

\* The swap takes the gateway's PC and burns the gas fee; the change does not stay with the
\* gateway, and no fee of a VaultPC is touched.
LEMMA SwapAndBurnGasEffect ==
    ASSUME NEW b \in PCLedgers, NEW sender \in Callers, NEW gasToken \in PRC20s,
           NEW pcAmount \in Nat, NEW gasFee \in Nat, NEW cost \in Nat,
           SwapAllowed(b, gasToken, pcAmount, gasFee, cost), CanPay(b, PC, UGPC, pcAmount)
    PROVE  LET after == SwapAndBurnGas(b, sender, gasToken, pcAmount, gasFee, cost)
           IN  /\ after \in PCLedgers
               /\ after[PC][UGPC] = b[PC][UGPC] - pcAmount
               /\ \A u \in PRC20s : after[u][UGPC] = b[u][UGPC]
               /\ Retired(b, after, gasToken, gasFee) /\ Collected(b, after, 0)
<1> DEFINE paid    == Transfer(b, PC, UGPC, AMM, pcAmount)
           swapped == Transfer(paid, PC, AMM, sender, pcAmount - cost)
           after   == Burned(swapped, AMM, gasToken, gasFee)
<1>1. /\ sender \in PCAccounts /\ UGPC \in PCAccounts /\ AMM \in PCAccounts
      /\ sender # UGPC /\ AMM # UGPC /\ AMM # sender /\ PC \in PCTokens
      /\ gasToken \in PCTokens /\ gasToken # PC
      /\ \A u \in PRC20s : u \in PCTokens /\ u # PC
      /\ \A v \in VaultPCs : v \in PCAccounts /\ v \notin {UGPC, AMM, sender}
  BY PushAssumption DEF PCAccounts, PCTokens
<1>2. cost <= pcAmount /\ pcAmount - cost \in Nat /\ CanPay(b, gasToken, AMM, gasFee)
  BY SMT DEF SwapAllowed
<1>3. /\ paid \in PCLedgers
      /\ \A u \in PCTokens, c \in PCAccounts :
             u # PC \/ c \notin {UGPC, AMM} => paid[u][c] = b[u][c]
      /\ paid[PC][UGPC] = b[PC][UGPC] - pcAmount /\ paid[PC][AMM] = b[PC][AMM] + pcAmount
  BY <1>1, TransferEffect DEF PCLedgers
<1>4. b[PC][AMM] \in Nat
  BY <1>1 DEF PCLedgers, Ledgers
<1> HIDE DEF paid
<1>5. CanPay(paid, PC, AMM, pcAmount - cost)
  BY <1>2, <1>3, <1>4, SMT DEF CanPay
<1>6. /\ swapped \in PCLedgers
      /\ \A u \in PCTokens, c \in PCAccounts :
             u # PC \/ c \notin {AMM, sender} => swapped[u][c] = paid[u][c]
  BY <1>1, <1>2, <1>3, <1>5, TransferEffect DEF PCLedgers
<1> HIDE DEF swapped
<1>7. CanPay(swapped, gasToken, AMM, gasFee)
  BY <1>1, <1>2, <1>3, <1>6 DEF CanPay
<1>8. /\ after \in PCLedgers
      /\ after[gasToken][AMM] = swapped[gasToken][AMM] - gasFee
      /\ \A u \in PCTokens, c \in PCAccounts :
             u # gasToken \/ c # AMM => after[u][c] = swapped[u][c]
  BY <1>1, <1>6, <1>7, BurnedEffect
<1>9. SwapAndBurnGas(b, sender, gasToken, pcAmount, gasFee, cost) = after
  BY DEF SwapAndBurnGas, paid, swapped
<1> HIDE DEF after
<1>10. /\ after[gasToken][AMM] = b[gasToken][AMM] - gasFee
       /\ \A u \in PRC20s, c \in PCAccounts : u # gasToken \/ c # AMM => after[u][c] = b[u][c]
       /\ \A v \in VaultPCs : after[PC][v] = b[PC][v]
  BY <1>1, <1>3, <1>6, <1>8
<1>11. Retired(b, after, gasToken, gasFee)
  BY <1>1, <1>8, <1>10, RetiredByOne
<1>12. Collected(b, after, 0)
  BY <1>8, <1>10, SameFees
<1> QED BY <1>1, <1>3, <1>6, <1>8, <1>9, <1>10, <1>11, <1>12

--------------------------------------------------------------------------------
(* Steps. *)

LEMMA ProductIsNat ==
    ASSUME NEW m \in Nat, NEW n \in Nat PROVE m * n \in Nat
BY SMT

\* What is quoted and charged are amounts.
LEMMA QuotesAreAmounts ==
    ASSUME PushTypeOK, NEW t \in PRC20s
    PROVE  core.gasPrice[t] \in Nat /\ core.protocolFee[t] \in Nat
BY DEF PushTypeOK

LEMMA RequestFields ==
    ASSUME NEW req \in OutboundRequestType, req.token # ZERO
    PROVE  /\ req.token \in PRC20s /\ req.amount \in Nat /\ req.gasLimit \in Nat
BY DEF OutboundRequestType

\* The fees as the ledgers' lemmas say them, in this state and in the next.
LEMMA FeesOfState ==
    /\ FeesInVaultPC <=>
           FeesHeld(pcBal) + feesWithdrawn = FeesHeld(StartPC) + feesPaid + feesDonated
    /\ FeesInVaultPC' <=>
           FeesHeld(pcBal') + feesWithdrawn' = FeesHeld(StartPC) + feesPaid' + feesDonated'
BY DEF FeesInVaultPC, FeesHeld, SumOver, MapThenSumSet, MapThenFoldSet

\* A new request's subTxId is none of the earlier ones: its nonce is not.
LEMMA NewSubTxId ==
    ASSUME PushInv, NEW sender, NEW req
    PROVE  LET id == SubTxId(sender, req, nonce)
           IN  /\ id \notin outbound
               /\ id[7] = nonce
               /\ IsFiniteSet(outbound \cup {id})
               /\ Cardinality(outbound \cup {id}) = outboundCount + 1
<1> DEFINE id == SubTxId(sender, req, nonce)
<1>1. id[7] = nonce
  BY DEF SubTxId
<1> HIDE DEF id
<1>2. nonce \in Nat /\ \A old \in outbound : old[7] \in Nat /\ old[7] < nonce
  BY DEF PushInv, PushTypeOK, IdsBelowNonce
<1>3. id \notin outbound
  <2> SUFFICES ASSUME id \in outbound PROVE FALSE
    OBVIOUS
  <2>1. nonce < nonce
    BY <1>1, <1>2
  <2> QED BY <1>2, <2>1, SMT
<1>4. IsFiniteSet(outbound) /\ Cardinality(outbound) = outboundCount
  BY DEF PushInv, SubTxIdsUnique
<1>5. /\ IsFiniteSet(outbound \cup {id})
      /\ Cardinality(outbound \cup {id}) = Cardinality(outbound) + 1
  BY <1>3, <1>4, FS_AddElement
<1> QED BY <1>1, <1>3, <1>4, <1>5 DEF id

\* What a request does to the ledger: the amount and the gas fee leave circulation, the AMM
\* having the latter; the protocol fee comes to the VaultPCs; and the gateway is left empty.
LEMMA OutboundEffect ==
    ASSUME PushInv, NEW sender \in Callers, NEW req \in OutboundRequestType,
           NEW value \in Nat, NEW cost \in Nat,
           SendUniversalTxOutbound(sender, req, value, cost)
    PROVE  LET fee      == core.protocolFee[req.token]
               gasToken == GasTokenOf[req.token]
           IN  /\ req.token \in PRC20s /\ req.amount \in Nat
               /\ gasToken \in PRC20s /\ GasFee(req) \in Nat /\ fee \in Nat
               /\ pcBal' \in PCLedgers /\ \A t \in PCTokens : pcBal'[t][UGPC] = pcBal[t][UGPC]
               /\ \A t \in PRC20s : Circulating(pcBal', t) =
                      Circulating(pcBal, t) - (IF t = req.token THEN req.amount ELSE 0)
                                            - (IF t = gasToken THEN GasFee(req) ELSE 0)
               /\ GasFee(req) <= Circulating(pcBal, gasToken)
               /\ FeesHeld(pcBal') = FeesHeld(pcBal) + fee
<1> DEFINE fee      == core.protocolFee[req.token]
           gasToken == GasTokenOf[req.token]
           gasFee   == GasFee(req)
           burned   == BurnPRC20(pcBal, sender, req.token, req.amount)
           charged  == FeeForwarded(burned, sender, value, fee)
<1>1. /\ req.token # ZERO /\ Quoted(req) /\ CanPay(pcBal, PC, sender, value)
      /\ CanPay(pcBal, req.token, sender, req.amount) /\ value >= fee
      /\ SwapAllowed(charged, gasToken, value - fee, gasFee, cost)
      /\ pcBal' = SwapAndBurnGas(charged, sender, gasToken, value - fee, gasFee, cost)
  BY DEF SendUniversalTxOutbound, OutboundAccepted, PullAllowed
<1>2. /\ PushTypeOK /\ OutboundGatewayKeepsNothing
      /\ pcBal \in PCLedgers /\ VAULT_PC \in VaultPCs
  BY DEF PushInv, PushTypeOK, PCLedgers
<1>3. /\ req.token \in PRC20s /\ req.amount \in Nat /\ req.gasLimit \in Nat
      /\ BASE_GAS_LIMIT \in Nat
  BY <1>1, RequestFields, PushAssumption
<1>4. fee \in Nat /\ core.gasPrice[req.token] \in Nat
  BY <1>2, <1>3, QuotesAreAmounts
<1>5. gasToken \in PRC20s
  BY <1>1, <1>3, PushAssumption DEF Quoted
<1>6. gasFee \in Nat
  BY <1>3, <1>4, ProductIsNat DEF GasFee
<1> HIDE DEF fee, gasToken, gasFee
<1>7. /\ burned \in PCLedgers /\ burned[PC][UGPC] = 0 /\ CanPay(burned, PC, sender, value)
      /\ \A u \in PRC20s : burned[u][UGPC] = pcBal[u][UGPC]
      /\ Retired(pcBal, burned, req.token, req.amount) /\ Collected(pcBal, burned, 0)
      /\ \A u \in PRC20s : burned[u][AMM] = pcBal[u][AMM]
  <2>1. /\ sender \in PCAccounts /\ UGPC \in PCAccounts /\ sender # UGPC /\ PC \in PCTokens
        /\ \A u \in PRC20s : u \in PCTokens /\ u # PC
    BY PushAssumption DEF PCAccounts, PCTokens
  <2>2. /\ burned \in PCLedgers
        /\ \A u \in PCTokens, c \in PCAccounts :
               u # req.token \/ c # sender => burned[u][c] = pcBal[u][c]
        /\ Retired(pcBal, burned, req.token, req.amount) /\ Collected(pcBal, burned, 0)
    BY <1>1, <1>2, <1>3, BurnPRC20Effect
  <2> HIDE DEF burned
  <2>3. burned[PC][sender] = pcBal[PC][sender] /\ burned[PC][UGPC] = pcBal[PC][UGPC]
    BY <1>3, <2>1, <2>2
  <2>4. \A u \in PRC20s : burned[u][UGPC] = pcBal[u][UGPC] /\ burned[u][AMM] = pcBal[u][AMM]
    <3>1. AMM \in PCAccounts /\ AMM # sender
      BY PushAssumption DEF PCAccounts
    <3> QED BY <2>1, <2>2, <3>1
  <2> QED BY <1>1, <1>2, <2>1, <2>2, <2>3, <2>4 DEF OutboundGatewayKeepsNothing, CanPay
<1> HIDE DEF burned
<1>8. value - fee \in Nat /\ fee <= value
  BY <1>1, <1>3, <1>4, SMT
<1>9. /\ charged \in PCLedgers /\ charged[PC][UGPC] = value - fee
      /\ \A u \in PRC20s : charged[u][UGPC] = pcBal[u][UGPC] /\ charged[u][AMM] = burned[u][AMM]
      /\ Retired(burned, charged, gasToken, 0) /\ Collected(burned, charged, fee)
  <2>1. /\ charged \in PCLedgers /\ charged[PC][UGPC] = burned[PC][UGPC] + (value - fee)
        /\ \A u \in PRC20s, c \in PCAccounts : charged[u][c] = burned[u][c]
        /\ Collected(burned, charged, fee)
    BY <1>2, <1>3, <1>4, <1>7, <1>8, FeeForwardedEffect
  <2>2. UGPC \in PCAccounts /\ AMM \in PCAccounts
    BY DEF PCAccounts
  <2> HIDE DEF charged
  <2>3. charged[PC][UGPC] = value - fee
    BY <1>7, <1>8, <2>1, SMT
  <2>4. Retired(burned, charged, gasToken, 0)
    BY <1>7, <2>1, SamePRC20s
  <2> QED BY <1>7, <2>1, <2>2, <2>3, <2>4
<1> HIDE DEF charged
<1>10. CanPay(charged, PC, UGPC, value - fee)
  BY <1>8, <1>9, SMT DEF CanPay
<1>11. /\ pcBal' \in PCLedgers /\ pcBal'[PC][UGPC] = charged[PC][UGPC] - (value - fee)
       /\ \A u \in PRC20s : pcBal'[u][UGPC] = charged[u][UGPC]
       /\ Retired(charged, pcBal', gasToken, gasFee) /\ Collected(charged, pcBal', 0)
  BY <1>1, <1>3, <1>5, <1>6, <1>8, <1>9, <1>10, SwapAndBurnGasEffect
<1>12. \A t \in PCTokens : pcBal'[t][UGPC] = pcBal[t][UGPC]
  <2>1. pcBal'[PC][UGPC] = 0
    BY <1>8, <1>9, <1>11, SMT
  <2>2. pcBal[PC][UGPC] = 0
    BY <1>2 DEF OutboundGatewayKeepsNothing
  <2> QED BY <1>9, <1>11, <2>1, <2>2 DEF PCTokens
<1>13. ASSUME NEW t \in PRC20s
       PROVE  Circulating(pcBal', t) =
                  Circulating(pcBal, t) - (IF t = req.token THEN req.amount ELSE 0)
                                        - (IF t = gasToken THEN gasFee ELSE 0)
  <2> DEFINE sent == IF t = req.token THEN req.amount ELSE 0
             gas  == IF t = gasToken THEN gasFee ELSE 0
  <2>1. /\ Circulating(burned, t) = Circulating(pcBal, t) - sent
        /\ Circulating(charged, t) = Circulating(burned, t) - (IF t = gasToken THEN 0 ELSE 0)
        /\ Circulating(pcBal', t) = Circulating(charged, t) - gas
    BY <1>7, <1>9, <1>11 DEF Retired
  <2>2. sent \in Nat /\ gas \in Nat
    BY <1>3, <1>6
  <2>3. Circulating(pcBal, t) \in Nat
    BY <1>2, LedgerSums
  <2> HIDE DEF sent, gas
  <2>4. Circulating(pcBal', t) = Circulating(pcBal, t) - sent - gas
    BY <2>1, <2>2, <2>3, SMT
  <2> QED BY <2>4 DEF sent, gas
<1>14. gasFee <= Circulating(pcBal, gasToken)
  <2>1. AMM \in PCAccounts
    BY DEF PCAccounts
  <2>2. pcBal[gasToken][AMM] >= gasFee
    BY <1>1, <1>5, <1>7, <1>9 DEF SwapAllowed, CanPay
  <2>3. /\ pcBal[gasToken][AMM] <= Circulating(pcBal, gasToken)
        /\ Circulating(pcBal, gasToken) \in Nat
    BY <1>2, <1>5, <2>1, LedgerSums
  <2>4. pcBal[gasToken][AMM] \in Nat
    BY <1>2, <1>5, <2>1 DEF PCLedgers, Ledgers, PCTokens
  <2> QED BY <1>6, <2>2, <2>3, <2>4, SMT
<1>15. FeesHeld(pcBal') = FeesHeld(pcBal) + fee
  <2>1. /\ FeesHeld(burned) = FeesHeld(pcBal) + 0
        /\ FeesHeld(charged) = FeesHeld(burned) + fee
        /\ FeesHeld(pcBal') = FeesHeld(charged) + 0
    BY <1>7, <1>9, <1>11 DEF Collected
  <2>2. FeesHeld(pcBal) \in Int
    BY <1>2, LedgerSums
  <2> QED BY <1>4, <2>1, <2>2, SMT
<1> QED BY <1>3, <1>4, <1>5, <1>6, <1>11, <1>12, <1>13, <1>14, <1>15
        DEF fee, gasToken, gasFee

LEMMA SendUniversalTxOutbound_Inv ==
    ASSUME PushInv, NEW sender \in Callers, NEW req \in OutboundRequestType,
           NEW value \in Nat, NEW cost \in Nat,
           SendUniversalTxOutbound(sender, req, value, cost)
    PROVE  PushInv'
<1> DEFINE fee      == core.protocolFee[req.token]
           gasToken == GasTokenOf[req.token]
           id       == SubTxId(sender, req, nonce)
<1>1. /\ nonce' = nonce + 1 /\ outbound' = outbound \cup {id}
      /\ outboundCount' = outboundCount + 1
      /\ gasBurned' = [gasBurned EXCEPT ![gasToken] = @ + GasFee(req)]
      /\ feesPaid' = feesPaid + fee
      /\ UNCHANGED <<pcPaused, VAULT_PC, vaultPCPaused, core, feesWithdrawn, feesDonated,
                     misdirected>>
  BY DEF SendUniversalTxOutbound, pcConfig, directVars
<1>2. /\ gasToken \in PRC20s /\ GasFee(req) \in Nat /\ fee \in Nat
      /\ pcBal' \in PCLedgers /\ \A t \in PCTokens : pcBal'[t][UGPC] = pcBal[t][UGPC]
      /\ FeesHeld(pcBal') = FeesHeld(pcBal) + fee
  BY OutboundEffect
<1>3. /\ PushTypeOK /\ IdsBelowNonce /\ FeesInVaultPC /\ pcBal \in PCLedgers
      /\ nonce \in Nat /\ outboundCount \in Nat /\ gasBurned \in [PRC20s -> Nat]
      /\ feesPaid \in Nat /\ feesWithdrawn \in Nat /\ feesDonated \in Nat
      /\ OutboundGatewayKeepsNothing
  BY DEF PushInv, PushTypeOK, PCLedgers
<1>4. /\ id[7] = nonce /\ IsFiniteSet(outbound \cup {id})
      /\ Cardinality(outbound \cup {id}) = outboundCount + 1
  BY NewSubTxId DEF id
<1> HIDE DEF fee, gasToken, id
<1>5. OutboundGatewayKeepsNothing'
  BY <1>1, <1>2, <1>3 DEF OutboundGatewayKeepsNothing, PCTokens
<1>6. PushTypeOK'
  <2>1. nonce' \in Nat /\ outboundCount' \in Nat /\ feesPaid' \in Nat
    BY <1>1, <1>2, <1>3, SMT
  <2>2. gasBurned' \in [PRC20s -> Nat]
    BY <1>1, <1>2, <1>3, SMT
  <2> QED BY <1>1, <1>2, <1>3, <2>1, <2>2 DEF PushTypeOK, PCLedgers
<1>7. IdsBelowNonce'
  <2>1. ASSUME NEW old \in outbound \cup {id} PROVE old[7] \in Nat /\ old[7] < nonce + 1
    <3>1. CASE old = id
      BY <1>3, <1>4, <3>1, SMT
    <3>2. CASE old \in outbound
      BY <1>3, <3>2, SMT DEF IdsBelowNonce
    <3> QED BY <2>1, <3>1, <3>2
  <2> QED BY <1>1, <2>1 DEF IdsBelowNonce
<1>8. FeesInVaultPC'
  <2>1. FeesHeld(pcBal) \in Int /\ FeesHeld(StartPC) \in Int
    BY <1>3, LedgerSums, PushAssumption DEF PCLedgers
  <2>2. FeesHeld(pcBal) + feesWithdrawn = FeesHeld(StartPC) + feesPaid + feesDonated
    BY <1>3, FeesOfState
  <2>3. FeesHeld(pcBal') + feesWithdrawn' = FeesHeld(StartPC) + feesPaid' + feesDonated'
    BY <1>1, <1>2, <1>3, <2>1, <2>2, SMT
  <2> QED BY <2>3, FeesOfState
<1> QED BY <1>1, <1>4, <1>5, <1>6, <1>7, <1>8 DEF PushInv, SubTxIdsUnique

\* What a rescue does to the ledger: its gas fee leaves circulation, and that is all.
LEMMA RescueEffect ==
    ASSUME PushInv, NEW sender \in Callers, NEW prc20 \in PRC20s, NEW value \in Nat,
           NEW cost \in Nat, RescueFundsOnSourceChain(sender, prc20, value, cost)
    PROVE  LET gasToken == GasTokenOf[prc20]
               gasFee   == core.gasPrice[prc20] * RescueGasLimit
           IN  /\ gasToken \in PRC20s /\ gasFee \in Nat
               /\ pcBal' \in PCLedgers /\ \A t \in PCTokens : pcBal'[t][UGPC] = pcBal[t][UGPC]
               /\ Retired(pcBal, pcBal', gasToken, gasFee)
               /\ gasFee <= Circulating(pcBal, gasToken)
               /\ FeesHeld(pcBal') = FeesHeld(pcBal)
<1> DEFINE gasToken == GasTokenOf[prc20]
           gasFee   == core.gasPrice[prc20] * RescueGasLimit
           arrived  == Transfer(pcBal, PC, sender, UGPC, value)
<1>1. /\ gasToken # ZERO /\ CanPay(pcBal, PC, sender, value)
      /\ SwapAllowed(pcBal, gasToken, value, gasFee, cost)
      /\ pcBal' = SwapAndBurnGas(arrived, sender, gasToken, value, gasFee, cost)
  BY DEF RescueFundsOnSourceChain
<1>2. PushTypeOK /\ OutboundGatewayKeepsNothing /\ pcBal \in PCLedgers
  BY DEF PushInv, PushTypeOK, PCLedgers
<1>3. /\ gasToken \in PRC20s /\ gasFee \in Nat
  BY <1>1, <1>2, QuotesAreAmounts, ProductIsNat, PushAssumption
<1> HIDE DEF gasToken, gasFee
<1>4. /\ sender \in PCAccounts /\ UGPC \in PCAccounts /\ AMM \in PCAccounts
      /\ sender # UGPC /\ PC \in PCTokens /\ gasToken \in PCTokens /\ gasToken # PC
      /\ \A u \in PRC20s : u \in PCTokens /\ u # PC
      /\ sender \notin VaultPCs /\ UGPC \notin VaultPCs
  BY <1>3, PushAssumption DEF PCAccounts, PCTokens
<1>5. pcBal[PC][UGPC] = 0
  BY <1>2 DEF OutboundGatewayKeepsNothing
<1>6. /\ arrived \in PCLedgers
      /\ \A u \in PCTokens, c \in PCAccounts :
             u # PC \/ c \notin {sender, UGPC} => arrived[u][c] = pcBal[u][c]
      /\ arrived[PC][UGPC] = pcBal[PC][UGPC] + value
  BY <1>1, <1>2, <1>3, <1>4, TransferEffect DEF PCLedgers
<1>13. FeesHeld(arrived) = FeesHeld(pcBal) - 0 + 0
  BY <1>1, <1>2, <1>3, <1>4, FeesAfterTransfer
<1> HIDE DEF arrived
<1>14. Retired(pcBal, arrived, gasToken, 0)
  BY <1>2, <1>4, <1>6, SamePRC20s
<1>7. arrived[PC][UGPC] = value
  BY <1>3, <1>5, <1>6, SMT
<1>8. CanPay(arrived, PC, UGPC, value)
  BY <1>3, <1>7, SMT DEF CanPay
<1>9. SwapAllowed(arrived, gasToken, value, gasFee, cost)
  BY <1>1, <1>4, <1>6 DEF SwapAllowed, CanPay
<1>10. /\ pcBal' \in PCLedgers /\ pcBal'[PC][UGPC] = arrived[PC][UGPC] - value
       /\ \A u \in PRC20s : pcBal'[u][UGPC] = arrived[u][UGPC]
       /\ Retired(arrived, pcBal', gasToken, gasFee) /\ Collected(arrived, pcBal', 0)
  BY <1>1, <1>3, <1>6, <1>8, <1>9, SwapAndBurnGasEffect
<1>11. \A t \in PCTokens : pcBal'[t][UGPC] = pcBal[t][UGPC]
  <2>1. pcBal'[PC][UGPC] = 0
    BY <1>3, <1>7, <1>10, SMT
  <2>2. \A u \in PRC20s : pcBal'[u][UGPC] = pcBal[u][UGPC]
    BY <1>4, <1>6, <1>10
  <2> QED BY <1>5, <2>1, <2>2 DEF PCTokens
<1>12. Retired(pcBal, pcBal', gasToken, gasFee)
  <2> SUFFICES ASSUME NEW t \in PRC20s
               PROVE  Circulating(pcBal', t) =
                          Circulating(pcBal, t) - (IF t = gasToken THEN gasFee ELSE 0)
    BY DEF Retired
  <2>1. /\ Circulating(arrived, t) = Circulating(pcBal, t) - (IF t = gasToken THEN 0 ELSE 0)
        /\ Circulating(pcBal', t) = Circulating(arrived, t) - (IF t = gasToken THEN gasFee ELSE 0)
    BY <1>10, <1>14 DEF Retired
  <2>2. Circulating(pcBal, t) \in Nat
    BY <1>2, LedgerSums
  <2> QED BY <2>1, <2>2, SMT
<1>15. gasFee <= Circulating(pcBal, gasToken)
  <2>1. pcBal[gasToken][AMM] \in Nat /\ pcBal[gasToken][AMM] >= gasFee
    BY <1>1, <1>2, <1>4 DEF SwapAllowed, CanPay, PCLedgers, Ledgers
  <2>2. /\ pcBal[gasToken][AMM] <= Circulating(pcBal, gasToken)
        /\ Circulating(pcBal, gasToken) \in Nat
    BY <1>2, <1>3, <1>4, LedgerSums
  <2> QED BY <1>3, <2>1, <2>2, SMT
<1>16. FeesHeld(pcBal') = FeesHeld(pcBal)
  <2>1. FeesHeld(pcBal) \in Int
    BY <1>2, LedgerSums
  <2> QED BY <1>10, <1>13, <2>1, SMT DEF Collected
<1> QED BY <1>3, <1>10, <1>11, <1>12, <1>15, <1>16 DEF gasToken, gasFee

LEMMA RescueFundsOnSourceChain_Inv ==
    ASSUME PushInv, NEW sender \in Callers, NEW prc20 \in PRC20s, NEW value \in Nat,
           NEW cost \in Nat, RescueFundsOnSourceChain(sender, prc20, value, cost)
    PROVE  PushInv'
<1> DEFINE gasToken == GasTokenOf[prc20]
           gasFee   == core.gasPrice[prc20] * RescueGasLimit
<1>1. /\ gasBurned' = [gasBurned EXCEPT ![gasToken] = @ + gasFee]
      /\ UNCHANGED <<pcPaused, VAULT_PC, vaultPCPaused, nonce, core, outbound,
                     outboundCount, feesPaid, feesWithdrawn, feesDonated, misdirected>>
  BY DEF RescueFundsOnSourceChain, pcConfig, directVars
<1>2. /\ gasToken \in PRC20s /\ gasFee \in Nat
      /\ pcBal' \in PCLedgers /\ \A t \in PCTokens : pcBal'[t][UGPC] = pcBal[t][UGPC]
      /\ FeesHeld(pcBal') = FeesHeld(pcBal)
  BY RescueEffect
<1>3. /\ PushTypeOK /\ FeesInVaultPC /\ OutboundGatewayKeepsNothing
      /\ gasBurned \in [PRC20s -> Nat]
  BY DEF PushInv, PushTypeOK
<1> HIDE DEF gasToken, gasFee
<1>4. OutboundGatewayKeepsNothing'
  BY <1>1, <1>2, <1>3 DEF OutboundGatewayKeepsNothing, PCTokens
<1>5. PushTypeOK'
  <2>1. gasBurned' \in [PRC20s -> Nat]
    BY <1>1, <1>2, <1>3, SMT
  <2> QED BY <1>1, <1>2, <1>3, <2>1 DEF PushTypeOK, PCLedgers
<1>6. FeesInVaultPC'
  BY <1>1, <1>2, <1>3, FeesOfState
<1> QED BY <1>1, <1>4, <1>5, <1>6 DEF PushInv, IdsBelowNonce, SubTxIdsUnique

\* What is sent outside the gateway's operations stays in circulation; the gateway has more of a
\* token by what was misdirected, and the VaultPCs of PC by what crosses their boundary.
LEMMA SentPlainlyEffect ==
    ASSUME PushInv, NEW token \in PCTokens, NEW from \in PCAccounts, NEW to \in PCAccounts,
           NEW amount \in Nat, from # UGPC, SentPlainly(token, from, to, amount)
    PROVE  /\ pcBal' \in PCLedgers /\ misdirected' \in [PRC20s -> Nat]
           /\ OutboundGatewayKeepsNothing'
           /\ \A t \in PRC20s : Circulating(pcBal', t) = Circulating(pcBal, t)
           /\ FeesHeld(pcBal') =
                  FeesHeld(pcBal) - (IF token = PC /\ from \in VaultPCs THEN amount ELSE 0)
                                  + (IF token = PC /\ to \in VaultPCs THEN amount ELSE 0)
<1>1. /\ CanPay(pcBal, token, from, amount) /\ pcBal' = Transfer(pcBal, token, from, to, amount)
      /\ token = PC => to # UGPC
      /\ misdirected' = IF to = UGPC THEN [misdirected EXCEPT ![token] = @ + amount]
                                     ELSE misdirected
  BY DEF SentPlainly
<1>2. pcBal \in PCLedgers /\ misdirected \in [PRC20s -> Nat] /\ OutboundGatewayKeepsNothing
  BY DEF PushInv, PushTypeOK, PCLedgers
<1>3. /\ UGPC \in PCAccounts /\ VaultPCs \in SUBSET PCAccounts /\ PC \in PCTokens
      /\ PCAccounts \in SUBSET PCAccounts /\ token # PC => token \in PRC20s
      /\ \A t \in PRC20s : t \in PCTokens /\ t # PC
  BY PushAssumption DEF PCAccounts, PCTokens
<1>4. IsFiniteSet(VaultPCs)
  BY <1>3, AccountsAssumption, FS_Subset
<1>5. /\ pcBal' \in PCLedgers
      /\ \A t \in PCTokens, a \in PCAccounts :
             pcBal'[t][a] = pcBal[t][a] - (IF t = token /\ a = from THEN amount ELSE 0)
                                        + (IF t = token /\ a = to THEN amount ELSE 0)
  BY <1>1, <1>2, TransferMoves DEF PCLedgers
<1>6. ASSUME NEW t \in PRC20s PROVE Circulating(pcBal', t) = Circulating(pcBal, t)
  <2> DEFINE moved == IF t = token THEN amount ELSE 0
  <2>1. /\ SumOver(pcBal[t], PCAccounts) \in Int
        /\ SumOver(pcBal'[t], PCAccounts) =
               SumOver(pcBal[t], PCAccounts)
                   - (IF t = token /\ from \in PCAccounts THEN amount ELSE 0)
                   + (IF t = token /\ to \in PCAccounts THEN amount ELSE 0)
    BY <1>1, <1>2, <1>3, AccountsAssumption, TransferSum DEF PCLedgers
  <2>2. /\ SumOver(pcBal'[t], PCAccounts) = SumOver(pcBal[t], PCAccounts) - moved + moved
        /\ moved \in Nat
    BY <2>1
  <2> HIDE DEF moved
  <2>3. SumOver(pcBal'[t], PCAccounts) = SumOver(pcBal[t], PCAccounts)
    BY <2>1, <2>2, SMT
  <2> QED BY <1>2, <1>5, <2>3, LedgerSums
<1>7. FeesHeld(pcBal') =
          FeesHeld(pcBal) - (IF token = PC /\ from \in VaultPCs THEN amount ELSE 0)
                          + (IF token = PC /\ to \in VaultPCs THEN amount ELSE 0)
  <2>1. SumOver(pcBal'[PC], VaultPCs) =
            SumOver(pcBal[PC], VaultPCs)
                - (IF PC = token /\ from \in VaultPCs THEN amount ELSE 0)
                + (IF PC = token /\ to \in VaultPCs THEN amount ELSE 0)
    BY <1>1, <1>2, <1>3, <1>4, TransferSum DEF PCLedgers
  <2> QED BY <2>1 DEF FeesHeld
<1>8. misdirected' \in [PRC20s -> Nat] /\ OutboundGatewayKeepsNothing'
  <2>1. \A t \in PCTokens : pcBal[t][UGPC] \in Nat
    BY <1>2, <1>3 DEF PCLedgers, Ledgers
  <2>2. CASE to = UGPC
    <3>1. token \in PRC20s /\ misdirected' = [misdirected EXCEPT ![token] = @ + amount]
      BY <1>1, <1>3, <2>2
    <3>2. \A t \in PCTokens : pcBal'[t][UGPC] = pcBal[t][UGPC] - 0
                                                  + (IF t = token THEN amount ELSE 0)
      BY <1>3, <1>5, <2>2
    <3>3. /\ misdirected' \in [PRC20s -> Nat]
          /\ \A t \in PRC20s : misdirected'[t] = IF t = token THEN misdirected[t] + amount
                                                              ELSE misdirected[t]
      BY <1>2, <3>1, SMT
    <3>4. /\ pcBal[PC][UGPC] = 0
          /\ \A t \in PRC20s : pcBal[t][UGPC] = misdirected[t] /\ misdirected[t] \in Nat
      BY <1>2 DEF OutboundGatewayKeepsNothing
    <3>5. pcBal'[PC][UGPC] = 0
      BY <1>1, <1>3, <2>2, <3>2, <3>4, SMT
    <3>6. ASSUME NEW t \in PRC20s PROVE pcBal'[t][UGPC] = misdirected'[t]
      <4>1. pcBal'[t][UGPC] = pcBal[t][UGPC] - 0 + (IF t = token THEN amount ELSE 0)
        BY <1>3, <3>2
      <4>2. misdirected'[t] = (IF t = token THEN misdirected[t] + amount ELSE misdirected[t])
            /\ pcBal[t][UGPC] = misdirected[t] /\ misdirected[t] \in Nat
        BY <3>3, <3>4
      <4> QED BY <4>1, <4>2, SMT
    <3> QED BY <3>3, <3>5, <3>6 DEF OutboundGatewayKeepsNothing
  <2>3. CASE to # UGPC
    <3>1. \A t \in PCTokens : pcBal'[t][UGPC] = pcBal[t][UGPC] - 0 + 0
      BY <1>3, <1>5, <2>3
    <3>2. \A t \in PCTokens : pcBal'[t][UGPC] = pcBal[t][UGPC]
      BY <2>1, <3>1, SMT
    <3> QED BY <1>1, <1>2, <1>3, <2>3, <3>2 DEF OutboundGatewayKeepsNothing
  <2> QED BY <2>2, <2>3
<1> QED BY <1>5, <1>6, <1>7, <1>8

\* A withdrawal leaves the fees accounted for, wherever it goes.
LEMMA WithdrawFees_Inv ==
    ASSUME PushInv, NEW v \in VaultPCs, NEW token \in PCTokens, NEW to \in PCAccounts,
           NEW amount \in Nat, WithdrawFees(v, token, to, amount)
    PROVE  PushInv'
<1> DEFINE taken == IF token = PC THEN amount ELSE 0
           back  == IF token = PC /\ to \in VaultPCs THEN amount ELSE 0
<1>1. /\ SentPlainly(token, v, to, amount)
      /\ feesWithdrawn' = IF token = PC /\ to \notin VaultPCs THEN feesWithdrawn + amount
                                                              ELSE feesWithdrawn
      /\ UNCHANGED <<pcPaused, VAULT_PC, vaultPCPaused, nonce, core, outbound,
                     outboundCount, gasBurned, feesPaid, feesDonated>>
  BY DEF WithdrawFees, pcConfig
<1>2. /\ PushTypeOK /\ FeesInVaultPC /\ pcBal \in PCLedgers
      /\ feesWithdrawn \in Nat /\ feesPaid \in Nat /\ feesDonated \in Nat
  BY DEF PushInv, PushTypeOK, PCLedgers
<1>3. v \in PCAccounts /\ v # UGPC
  BY PushAssumption DEF PCAccounts
<1>4. /\ pcBal' \in PCLedgers /\ misdirected' \in [PRC20s -> Nat]
      /\ OutboundGatewayKeepsNothing' /\ FeesHeld(pcBal') = FeesHeld(pcBal) - taken + back
  BY <1>1, <1>3, SentPlainlyEffect
<1>5. /\ taken \in Nat /\ back \in Nat /\ feesWithdrawn' \in Nat
      /\ feesWithdrawn' = feesWithdrawn + taken - back
  BY <1>1, <1>2, SMT
<1> HIDE DEF taken, back
<1>6. PushTypeOK'
  BY <1>1, <1>2, <1>4, <1>5 DEF PushTypeOK, PCLedgers
<1>7. FeesInVaultPC'
  <2>1. FeesHeld(pcBal) \in Int /\ FeesHeld(StartPC) \in Int
    BY <1>2, LedgerSums, PushAssumption DEF PCLedgers
  <2>2. FeesHeld(pcBal) + feesWithdrawn = FeesHeld(StartPC) + feesPaid + feesDonated
    BY <1>2, FeesOfState
  <2>3. FeesHeld(pcBal') + feesWithdrawn' = FeesHeld(StartPC) + feesPaid' + feesDonated'
    BY <1>1, <1>2, <1>4, <1>5, <2>1, <2>2, SMT
  <2> QED BY <2>3, FeesOfState
<1> QED BY <1>1, <1>4, <1>6, <1>7 DEF PushInv, IdsBelowNonce, SubTxIdsUnique

\* So does what others send to a VaultPC; what they send to the gateway stays there.
LEMMA SendDirectly_Inv ==
    ASSUME PushInv, NEW sender \in Callers, NEW token \in PCTokens,
           NEW to \in VaultPCs \cup {UGPC}, NEW amount \in Nat,
           SendDirectly(sender, token, to, amount)
    PROVE  PushInv'
<1> DEFINE given == IF token = PC THEN amount ELSE 0
<1>1. /\ SentPlainly(token, sender, to, amount)
      /\ feesDonated' = IF token = PC THEN feesDonated + amount ELSE feesDonated
      /\ UNCHANGED <<pcPaused, VAULT_PC, vaultPCPaused, nonce, core, outbound,
                     outboundCount, gasBurned, feesPaid, feesWithdrawn>>
  BY DEF SendDirectly, pcConfig
<1>2. /\ PushTypeOK /\ FeesInVaultPC /\ pcBal \in PCLedgers
      /\ feesWithdrawn \in Nat /\ feesPaid \in Nat /\ feesDonated \in Nat
  BY DEF PushInv, PushTypeOK, PCLedgers
<1>3. /\ sender \in PCAccounts /\ to \in PCAccounts /\ sender # UGPC /\ sender \notin VaultPCs
      /\ token = PC => to \in VaultPCs
  BY <1>1, PushAssumption DEF PCAccounts, SentPlainly
<1>4. /\ pcBal' \in PCLedgers /\ misdirected' \in [PRC20s -> Nat]
      /\ OutboundGatewayKeepsNothing' /\ FeesHeld(pcBal') = FeesHeld(pcBal) - 0 + given
  BY <1>1, <1>3, SentPlainlyEffect
<1>5. given \in Nat /\ feesDonated' \in Nat /\ feesDonated' = feesDonated + given
  BY <1>1, <1>2, SMT
<1> HIDE DEF given
<1>6. PushTypeOK'
  BY <1>1, <1>2, <1>4, <1>5 DEF PushTypeOK, PCLedgers
<1>7. FeesInVaultPC'
  <2>1. FeesHeld(pcBal) \in Int /\ FeesHeld(StartPC) \in Int
    BY <1>2, LedgerSums, PushAssumption DEF PCLedgers
  <2>2. FeesHeld(pcBal) + feesWithdrawn = FeesHeld(StartPC) + feesPaid + feesDonated
    BY <1>2, FeesOfState
  <2>3. FeesHeld(pcBal') + feesWithdrawn' = FeesHeld(StartPC) + feesPaid' + feesDonated'
    BY <1>1, <1>2, <1>4, <1>5, <2>1, <2>2, SMT
  <2> QED BY <2>3, FeesOfState
<1> QED BY <1>1, <1>4, <1>6, <1>7 DEF PushInv, IdsBelowNonce, SubTxIdsUnique

\* The settings, of the two contracts and of UniversalCore, touch no balance and no history.
LEMMA Settings_Inv ==
    ASSUME PushInv,
           \/ SetPCPaused
           \/ \E v \in VaultPCs : SetVaultPC(v) \/ SetVaultPCPaused(v)
           \/ \E token \in PRC20s, gasPrice \in GasPrices, fee \in OutboundFees :
                  CoreUpdates(token, gasPrice, fee)
    PROVE  PushInv'
<1>1. UNCHANGED <<nonce, pcBal, outbound, outboundCount, gasBurned, feesPaid, feesWithdrawn,
                  feesDonated, misdirected>>
  BY DEF SetPCPaused, SetVaultPC, SetVaultPCPaused, CoreUpdates, pcHistory, directVars
<1>2. pcPaused' \in BOOLEAN /\ VAULT_PC' \in VaultPCs
  BY DEF SetPCPaused, SetVaultPC, SetVaultPCPaused, CoreUpdates, pcConfig, PushInv, PushTypeOK
<1>3. vaultPCPaused' \in [VaultPCs -> BOOLEAN]
  <2>1. vaultPCPaused \in [VaultPCs -> BOOLEAN]
    BY DEF PushInv, PushTypeOK
  <2>2. vaultPCPaused' = vaultPCPaused
        \/ \E v \in VaultPCs : vaultPCPaused' = [vaultPCPaused EXCEPT ![v] = ~vaultPCPaused[v]]
    BY DEF SetPCPaused, SetVaultPC, SetVaultPCPaused, CoreUpdates, pcConfig
  <2> QED BY <2>1, <2>2, Zenon
<1>4. core' \in [gasPrice : [PRC20s -> Nat], protocolFee : [PRC20s -> Nat]]
  <2>1. core \in [gasPrice : [PRC20s -> Nat], protocolFee : [PRC20s -> Nat]]
    BY DEF PushInv, PushTypeOK
  <2>2. CASE core' = core
    BY <2>1, <2>2
  <2>3. ASSUME NEW token \in PRC20s, NEW gasPrice \in GasPrices, NEW fee \in OutboundFees,
               CoreUpdates(token, gasPrice, fee)
        PROVE  core' \in [gasPrice : [PRC20s -> Nat], protocolFee : [PRC20s -> Nat]]
    <3>1. gasPrice \in Nat /\ fee \in Nat
      BY PushAssumption
    <3>2. core' = [core EXCEPT !.gasPrice[token] = gasPrice, !.protocolFee[token] = fee]
      BY <2>3 DEF CoreUpdates
    <3> QED BY <2>1, <3>1, <3>2, Zenon
  <2> QED BY <2>2, <2>3 DEF SetPCPaused, SetVaultPC, SetVaultPCPaused
<1>5. PushTypeOK'
  BY <1>1, <1>2, <1>3, <1>4 DEF PushInv, PushTypeOK
<1>6. FeesInVaultPC'
  BY <1>1, FeesOfState DEF PushInv
<1> QED BY <1>1, <1>5, <1>6
        DEF PushInv, OutboundGatewayKeepsNothing, IdsBelowNonce, SubTxIdsUnique

LEMMA PushInit_Inv == PCInit => PushInv
<1> SUFFICES ASSUME PCInit PROVE PushInv
  OBVIOUS
<1>1. core \in [gasPrice : [PRC20s -> Nat], protocolFee : [PRC20s -> Nat]]
  BY PushAssumption DEF PCInit
<1>2. PushTypeOK
  BY <1>1, PushAssumption DEF PCInit, PushTypeOK
<1>3. OutboundGatewayKeepsNothing
  BY PushAssumption DEF PCInit, OutboundGatewayKeepsNothing, PCTokens
<1>4. IsFiniteSet(outbound) /\ IdsBelowNonce /\ SubTxIdsUnique
  BY FS_EmptySet DEF PCInit, IdsBelowNonce, SubTxIdsUnique
<1>5. FeesInVaultPC
  <2>1. FeesHeld(StartPC) \in Int
    BY LedgerSums, PushAssumption DEF PCLedgers
  <2>2. FeesHeld(pcBal) + feesWithdrawn = FeesHeld(StartPC) + feesPaid + feesDonated
    BY <2>1, SMT DEF PCInit
  <2> QED BY <2>2, FeesOfState
<1> QED BY <1>2, <1>3, <1>4, <1>5 DEF PushInv

\* A step of the contracts, whatever is asked of them.
PCStep ==
    \/ \E sender \in Callers, req \in OutboundRequestType, value \in Nat, cost \in Nat :
           SendUniversalTxOutbound(sender, req, value, cost)
    \/ \E sender \in Callers, prc20 \in PRC20s, value \in Nat, cost \in Nat :
           RescueFundsOnSourceChain(sender, prc20, value, cost)
    \/ \E sender \in Callers, token \in PCTokens, to \in VaultPCs \cup {UGPC}, amount \in Nat :
           SendDirectly(sender, token, to, amount)
    \/ PCAdminStep
    \/ UNCHANGED pcVars

LEMMA PCNextIsStep == ASSUME [PCNext]_pcVars PROVE PCStep
<1>1. OutboundRequests \subseteq OutboundRequestType /\ PCValues \subseteq Nat /\ SwapCosts \subseteq Nat
  BY PushAssumption
<1> QED BY <1>1 DEF PCNext, PCCallsFrom, PCStep

LEMMA PCStep_Inv ==
    ASSUME PushInv, PCStep PROVE PushInv'
<1>1. CASE PCAdminStep
  <2>1. PCValues \subseteq Nat
    BY PushAssumption
  <2> QED BY <1>1, <2>1, WithdrawFees_Inv, Settings_Inv DEF PCAdminStep
<1>2. CASE UNCHANGED pcVars
  <2>1. FeesInVaultPC'
    BY <1>2, FeesOfState DEF pcVars, pcHistory, directVars, PushInv
  <2> QED BY <1>2, <2>1 DEF pcVars, pcConfig, pcHistory, directVars, PushInv, PushTypeOK,
                            OutboundGatewayKeepsNothing, IdsBelowNonce, SubTxIdsUnique
<1> QED BY <1>1, <1>2, SendUniversalTxOutbound_Inv, RescueFundsOnSourceChain_Inv,
           SendDirectly_Inv DEF PCStep

--------------------------------------------------------------------------------
(* Invariants of the specification. *)

LEMMA PushInvariant == PCSpec => []PushInv
<1>1. PushInv /\ [PCNext]_pcVars => PushInv'
  BY PCNextIsStep, PCStep_Inv
<1> QED BY <1>1, PushInit_Inv, PTL DEF PCSpec

\* The state of UniversalGatewayPC and VaultPC keeps its type: above all, no transfer, fee, swap
\* or burn of an accepted call takes more than its payer has.
THEOREM PushTypesHold == PCSpec => []PushTypeOK
<1>1. PushInv => PushTypeOK
  BY DEF PushInv
<1> QED BY <1>1, PushInvariant, PTL

\* sendUniversalTxOutbound and rescueFundsOnSourceChain leave nothing with the gateway.
THEOREM PushGatewayKeepsNothing == PCSpec => []OutboundGatewayKeepsNothing
<1>1. PushInv => OutboundGatewayKeepsNothing
  BY DEF PushInv
<1> QED BY <1>1, PushInvariant, PTL

\* No two events of sendUniversalTxOutbound have the same subTxId.
THEOREM PushSubTxIdsUnique == PCSpec => []SubTxIdsUnique
<1>1. PushInv => SubTxIdsUnique
  BY DEF PushInv
<1> QED BY <1>1, PushInvariant, PTL

\* The protocol fees that requests paid are with the VaultPCs, of today and before, until the
\* manager takes them out: a withdrawal to a VaultPC is none, whoever else pays in.
THEOREM PushFeesInVaultPC == PCSpec => []FeesInVaultPC
<1>1. PushInv => FeesInVaultPC
  BY DEF PushInv
<1> QED BY <1>1, PushInvariant, PTL

--------------------------------------------------------------------------------
(* The refinement: supply is what circulates, the requests are the outbound events. *)

Supply(b) == [t \in PRC20s |-> Circulating(b, t)]
Events(ids) == {[id |-> id, asset |-> id[3], amount |-> id[4]] : id \in ids}

\* What the promise's actions say of this state and the next.
LEMMA PromiseOfState ==
    /\ Promise!PromiseInit <=>
           /\ Supply(pcBal) \in [PRC20s -> Nat] /\ Events(outbound) = {}
           /\ gasBurned = [t \in PRC20s |-> 0]
    /\ \A asset, amount, gasAsset, gas : Promise!Retire(asset, amount, gasAsset, gas) <=>
           /\ Supply(pcBal') = [t \in PRC20s |-> Supply(pcBal)[t]
                                     - (IF t = asset THEN amount ELSE 0)
                                     - (IF t = gasAsset THEN gas ELSE 0)]
           /\ gasBurned' = [gasBurned EXCEPT ![gasAsset] = @ + gas]
    /\ \A r, gas : Promise!Request(r, gas) <=>
           /\ \A earlier \in Events(outbound) : earlier.id # r.id
           /\ Events(outbound') = Events(outbound) \cup {r}
           /\ Promise!Retire(r.asset, r.amount, GasTokenOf[r.asset], gas)
    /\ \A gasAsset, gas : Promise!PayGas(gasAsset, gas) <=>
           Events(outbound') = Events(outbound) /\ Promise!Retire(gasAsset, 0, gasAsset, gas)
    /\ Promise!PromiseNext <=>
           \/ \E r \in Events(outbound') \ Events(outbound) :
                  /\ r.asset \in PRC20s /\ GasTokenOf[r.asset] \in PRC20s
                  /\ \E gas \in 0 .. Supply(pcBal)[GasTokenOf[r.asset]] : Promise!Request(r, gas)
           \/ \E gasAsset \in PRC20s : \E gas \in 0 .. Supply(pcBal)[gasAsset] :
                  Promise!PayGas(gasAsset, gas)
    /\ (UNCHANGED Promise!promiseVars) <=>
           /\ Supply(pcBal') = Supply(pcBal) /\ Events(outbound') = Events(outbound)
           /\ gasBurned' = gasBurned
BY DEF Promise!PromiseInit, Promise!Retire, Promise!Request, Promise!PayGas,
       Promise!PromiseNext, Promise!promiseVars, Supply, Events

\* Every step of the contracts is a request, gas paid alone, or nothing to the promise.
LEMMA PromiseStep ==
    ASSUME PushInv, PCStep
    PROVE  Promise!PromiseNext \/ UNCHANGED Promise!promiseVars
<1>1. pcBal \in PCLedgers
  BY DEF PushInv, PushTypeOK, PCLedgers
<1>2. \A t \in PRC20s : Supply(pcBal)[t] = Circulating(pcBal, t) /\ Circulating(pcBal, t) \in Nat
  BY <1>1, LedgerSums DEF Supply
<1>3. ASSUME NEW sender \in Callers, NEW req \in OutboundRequestType, NEW value \in Nat,
             NEW cost \in Nat, SendUniversalTxOutbound(sender, req, value, cost)
      PROVE  Promise!PromiseNext
  <2>1. PICK id, r, gasToken, gas :
            /\ id = SubTxId(sender, req, nonce)
            /\ r = [id |-> id, asset |-> id[3], amount |-> id[4]]
            /\ gasToken = GasTokenOf[req.token] /\ gas = GasFee(req)
    OBVIOUS
  <2>2. /\ req.token \in PRC20s /\ req.amount \in Nat /\ gasToken \in PRC20s /\ gas \in Nat
        /\ \A t \in PRC20s : Circulating(pcBal', t) =
               Circulating(pcBal, t) - (IF t = req.token THEN req.amount ELSE 0)
                                     - (IF t = gasToken THEN gas ELSE 0)
        /\ gas <= Circulating(pcBal, gasToken)
    BY <1>3, <2>1, OutboundEffect
  <2>3. outbound' = outbound \cup {id} /\ gasBurned' = [gasBurned EXCEPT ![gasToken] = @ + gas]
    BY <1>3, <2>1 DEF SendUniversalTxOutbound
  <2>4. id \notin outbound
    BY <2>1, NewSubTxId
  <2>5. r.asset = req.token /\ r.amount = req.amount /\ r.id = id
    BY <2>1 DEF SubTxId
  <2>6. /\ Events(outbound') = Events(outbound) \cup {r}
        /\ \A earlier \in Events(outbound) : earlier.id # r.id
        /\ r \in Events(outbound') \ Events(outbound)
    <3>1. r \in Events(outbound') /\ \A earlier \in Events(outbound) : earlier.id \in outbound
      BY <2>1, <2>3 DEF Events
    <3>2. Events(outbound') = Events(outbound) \cup {r}
      BY <2>1, <2>3 DEF Events
    <3> QED BY <2>4, <2>5, <3>1, <3>2
  <2>7. Promise!Retire(r.asset, r.amount, gasToken, gas)
    <3>1. Supply(pcBal') = [t \in PRC20s |-> Supply(pcBal)[t]
                                - (IF t = r.asset THEN r.amount ELSE 0)
                                - (IF t = gasToken THEN gas ELSE 0)]
      BY <1>2, <2>2, <2>5 DEF Supply
    <3> QED BY <2>3, <3>1, PromiseOfState
  <2>8. gasToken = GasTokenOf[r.asset] /\ r.asset \in PRC20s
    BY <2>1, <2>2, <2>5
  <2>9. Promise!Request(r, gas)
    BY <2>6, <2>7, <2>8, PromiseOfState
  <2>10. gas \in 0 .. Supply(pcBal)[gasToken]
    BY <1>2, <2>2, SMT
  <2> QED BY <2>2, <2>6, <2>8, <2>9, <2>10, PromiseOfState
<1>4. ASSUME NEW sender \in Callers, NEW prc20 \in PRC20s, NEW value \in Nat,
             NEW cost \in Nat, RescueFundsOnSourceChain(sender, prc20, value, cost)
      PROVE  Promise!PromiseNext
  <2> DEFINE gasToken == GasTokenOf[prc20]
             gas == core.gasPrice[prc20] * RescueGasLimit
  <2>1. /\ gasToken \in PRC20s /\ gas \in Nat
        /\ Retired(pcBal, pcBal', gasToken, gas) /\ gas <= Circulating(pcBal, gasToken)
    BY <1>4, RescueEffect
  <2>2. outbound' = outbound /\ gasBurned' = [gasBurned EXCEPT ![gasToken] = @ + gas]
    BY <1>4 DEF RescueFundsOnSourceChain
  <2> HIDE DEF gas, gasToken
  <2>3. \A t \in PRC20s : Circulating(pcBal', t) =
            Supply(pcBal)[t] - (IF t = gasToken THEN 0 ELSE 0)
                             - (IF t = gasToken THEN gas ELSE 0)
    BY <1>2, <2>1, SMT DEF Retired
  <2>4. Promise!Retire(gasToken, 0, gasToken, gas)
    <3>1. Supply(pcBal') = [t \in PRC20s |-> Supply(pcBal)[t]
                                - (IF t = gasToken THEN 0 ELSE 0)
                                - (IF t = gasToken THEN gas ELSE 0)]
      BY <2>3 DEF Supply
    <3> QED BY <2>2, <3>1, PromiseOfState
  <2>5. Promise!PayGas(gasToken, gas)
    BY <2>2, <2>4, PromiseOfState
  <2>6. gas \in 0 .. Supply(pcBal)[gasToken]
    BY <1>2, <2>1, SMT
  <2> QED BY <2>1, <2>5, <2>6, PromiseOfState
<1>5. ASSUME NEW token \in PCTokens, NEW from \in PCAccounts, NEW to \in PCAccounts,
             NEW amount \in Nat, from # UGPC, SentPlainly(token, from, to, amount),
             outbound' = outbound, gasBurned' = gasBurned
      PROVE  UNCHANGED Promise!promiseVars
  <2>1. \A t \in PRC20s : Circulating(pcBal', t) = Circulating(pcBal, t)
    BY <1>5, SentPlainlyEffect
  <2> QED BY <1>5, <2>1, PromiseOfState DEF Supply
<1>9. ASSUME NEW v \in VaultPCs, NEW token \in PCTokens, NEW to \in PCAccounts,
             NEW amount \in PCValues, WithdrawFees(v, token, to, amount)
      PROVE  UNCHANGED Promise!promiseVars
  <2>1. amount \in Nat /\ v \in PCAccounts /\ v # UGPC
    BY PushAssumption DEF PCAccounts
  <2> QED BY <1>5, <1>9, <2>1 DEF WithdrawFees
<1>10. ASSUME NEW sender \in Callers, NEW token \in PCTokens, NEW to \in VaultPCs \cup {UGPC},
              NEW amount \in Nat, SendDirectly(sender, token, to, amount)
       PROVE  UNCHANGED Promise!promiseVars
  <2>1. sender \in PCAccounts /\ sender # UGPC /\ to \in PCAccounts
    BY PushAssumption DEF PCAccounts
  <2> QED BY <1>5, <1>10, <2>1 DEF SendDirectly
<1>6. CASE UNCHANGED <<pcBal, outbound, gasBurned>>
  BY <1>6, PromiseOfState
<1>7. CASE PCAdminStep
  BY <1>6, <1>7, <1>9 DEF PCAdminStep, SetPCPaused, SetVaultPC, SetVaultPCPaused, CoreUpdates,
                          pcHistory
<1>8. CASE UNCHANGED pcVars
  BY <1>6, <1>8 DEF pcVars, pcHistory
<1> QED BY <1>3, <1>4, <1>7, <1>8, <1>10 DEF PCStep

LEMMA PromiseInit_Holds == PCInit => Promise!PromiseInit
<1> SUFFICES ASSUME PCInit PROVE Promise!PromiseInit
  OBVIOUS
<1>1. pcBal \in PCLedgers /\ outbound = {} /\ gasBurned = [t \in PRC20s |-> 0]
  BY PushAssumption DEF PCInit, PCLedgers
<1>2. Supply(pcBal) \in [PRC20s -> Nat]
  BY <1>1, LedgerSums DEF Supply
<1>3. Events(outbound) = {}
  BY <1>1 DEF Events
<1> QED BY <1>1, <1>2, <1>3, PromiseOfState

\* UniversalGatewayPC and VaultPC implement OutboundPromise: a PRC20 leaves circulation by
\* exactly what one outbound event, unlike any before, has released outside, or as gas that is
\* accounted for; withdrawals of fees and settings are none of the promise's business.
THEOREM PushImplementsPromise == PCSpec => KeepsOutboundPromise
<1>1. PushInv /\ [PCNext]_pcVars => [Promise!PromiseNext]_(Promise!promiseVars)
  BY PCNextIsStep, PromiseStep
<1> QED BY <1>1, PromiseInit_Holds, PushInvariant, PTL
        DEF PCSpec, KeepsOutboundPromise, Promise!PromiseSpec

================================================================================
