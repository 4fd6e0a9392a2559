---------------------------- MODULE SolanaReleases ----------------------------
(***************************************************************************)
(* The instructions of the universal-gateway program that carry a message  *)
(* signed by the TSS: finalize_universal_tx (withdraw, execute, and the    *)
(* return from a CEA to its Push Chain account), revert_universal_tx and   *)
(* rescue_funds.                                                           *)
(*                                                                         *)
(* Relayers deliver messages. Every message of Messages counts as signed   *)
(* under the TSS state it names, so that messages are delivered in any     *)
(* order, again and again, late, and after the TSS changed.                *)
(***************************************************************************)
EXTENDS SolanaGateway

CONSTANTS
    SolSubTxIds,
    Messages        \* the messages the TSS may have signed

\* What a signature covers. A "return" is an execute message whose target program is the
\* gateway; moved is what the program called with the CEA as signer takes out of the CEA.
MessageType ==
    [kind : {"withdraw", "execute", "return", "revert", "rescue"}, subTxId : SolSubTxIds,
     tss : TssStates, pushAccount : PushUsers, token : SolTokens, amount : Nat, gasFee : Nat,
     target : SolAccounts \cup {DEFAULT}, moved : Nat]

ASSUME MessageAssumption == Messages \subseteq MessageType

VARIABLES
    \* history
    releaseCount,   \* sub_tx_id -> how many messages with it took effect
    solReleased,    \* token -> amount released by messages
    vaultGasFees,   \* gas fees finalizations paid out of the vault
    reimbursed      \* gas fees reverts and rescues paid out of the fee vault

releaseVars == <<releaseCount, solReleased, vaultGasFees, reimbursed>>
allSolVars  == <<solVars, releaseVars>>

ReleaseTypeOK ==
    /\ SolTypeOK
    /\ executed \subseteq SolSubTxIds
    /\ releaseCount \in [SolSubTxIds -> Nat]
    /\ solReleased \in [SolTokens -> Nat]
    /\ vaultGasFees \in Nat /\ reimbursed \in Nat

ReleaseInit ==
    /\ SolInit
    /\ releaseCount = [id \in SolSubTxIds |-> 0]
    /\ solReleased = [t \in SolTokens |-> 0]
    /\ vaultGasFees = 0 /\ reimbursed = 0

--------------------------------------------------------------------------------
\* validate_message: the hash covers the chain id, the recovered address is the TSS's.
AnyTss(m) == "tss_pda" \in created
ValidateMessage(m) == "tss_pda" \in created /\ m.tss = tss

\* executed_sub_tx is created by the instruction, which fails where it exists.
AlwaysFresh(m) == m \in Messages
FreshForKind(m) == m.subTxId \in executed => m.kind \in {"revert", "rescue"}
NotExecuted(m) == m.subTxId \notin executed

Accepted(m) ==
    /\ ~config.paused
    /\ ValidateMessage(m)
    /\ NotExecuted(m)

Executes(m) ==
    /\ executed' = executed \cup {m.subTxId}
    /\ releaseCount' = [releaseCount EXCEPT ![m.subTxId] = @ + 1]
    /\ solReleased' = [solReleased EXCEPT ![m.token] = @ + m.amount]
    /\ UNCHANGED <<solConfigVars, solClockVars, gasEvents, feesCollected, slotSpend, rateConfig>>

\* stage_assets_to_cea: the vault pays the CEA, and the relayer's gas fee.
Funded(m) == Transfer(lamports, m.token, VAULT_PDA, m.pushAccount, m.amount)
Staged(m, relayer) == Transfer(Funded(m), SOL, VAULT_PDA, relayer, m.gasFee)

CanStageTokenOnly(m) == CanPay(lamports, m.token, VAULT_PDA, m.amount)
CanStage(m) ==
    /\ CanPay(lamports, m.token, VAULT_PDA, m.amount)
    /\ CanPay(Funded(m), SOL, VAULT_PDA, m.gasFee)

Finalizes(m) ==
    /\ Accepted(m)
    /\ CanStage(m)
    /\ Executes(m)
    /\ vaultGasFees' = vaultGasFees + m.gasFee
    /\ UNCHANGED reimbursed

\* internal_withdraw passes the amount on to the recipient.
Withdraw(m, relayer) ==
    /\ m.kind = "withdraw"
    /\ m.amount > 0
    /\ Finalizes(m)
    /\ lamports' = IF m.target = m.pushAccount THEN Staged(m, relayer)
                   ELSE Transfer(Staged(m, relayer), m.token, m.pushAccount, m.target, m.amount)
    /\ UNCHANGED <<tokenRateLimit, fundsEvents, solEpochVolume>>

\* A target program is called with the CEA as a signer: it moves what it likes of the CEA's,
\* earlier holdings included. It cannot call this program back: the runtime forbids it.
Execute(m, relayer) ==
    /\ m.kind = "execute"
    /\ Finalizes(m)
    /\ CanPay(Staged(m, relayer), m.token, m.pushAccount, m.moved)
    /\ lamports' = Transfer(Staged(m, relayer), m.token, m.pushAccount, m.target, m.moved)
    /\ UNCHANGED <<tokenRateLimit, fundsEvents, solEpochVolume>>

\* send_universal_tx_to_uea: a deposit of the CEA, which is subject to the token's quota.
ReturnedStaged(b, m) == Transfer(b, m.token, m.pushAccount, VAULT_PDA, m.amount)
ReturnedFrom(b, m) == Transfer(b, m.token, m.pushAccount, VAULT_PDA, m.moved)
ReturnToUEA(m, relayer) ==
    /\ m.kind = "return"
    /\ Finalizes(m)
    /\ m.moved > 0
    /\ CanPay(Staged(m, relayer), m.token, m.pushAccount, m.moved)
    /\ "rate_limit_config" \in created
    /\ ConsumeSolLimit(m.token, m.moved)
    /\ lamports' = ReturnedFrom(Staged(m, relayer), m)
    /\ SolFundsEvent(m.token, m.moved)

\* reimburse_relayer_from_fee_vault, which keeps the rent of the fee vault.
FeeVaultPaysAll(fee) == fee > 0 => lamports[SOL][FEE_VAULT] >= fee
FeeVaultPays(fee) == fee > 0 => lamports[SOL][FEE_VAULT] - RENT >= fee

Refund(m, relayer) ==
    /\ Accepted(m)
    /\ "fee_vault" \in created
    /\ m.amount > 0
    /\ m.target # DEFAULT
    /\ CanPay(lamports, m.token, VAULT_PDA, m.amount)
    /\ FeeVaultPays(m.gasFee)
    /\ lamports' = Transfer(Transfer(lamports, m.token, VAULT_PDA, m.target, m.amount),
                            SOL, FEE_VAULT, relayer, m.gasFee)
    /\ reimbursed' = reimbursed + m.gasFee
    /\ Executes(m)
    /\ UNCHANGED <<tokenRateLimit, fundsEvents, solEpochVolume, vaultGasFees>>

\* revert_universal_tx and rescue_funds
Revert(m, relayer) == m.kind = "revert" /\ Refund(m, relayer)
Rescue(m, relayer) == m.kind = "rescue" /\ Refund(m, relayer)

--------------------------------------------------------------------------------
ReleaseStep ==
    \E m \in Messages, relayer \in Relayers :
        \/ Withdraw(m, relayer)
        \/ Execute(m, relayer)
        \/ ReturnToUEA(m, relayer)
        \/ Revert(m, relayer)
        \/ Rescue(m, relayer)

SolNext ==
    \/ (SolDepositStep \/ SolAdminStep \/ SolChainStep) /\ UNCHANGED releaseVars
    \/ ReleaseStep

SolSpec == ReleaseInit /\ [][SolNext]_allSolVars

--------------------------------------------------------------------------------
(* Properties. *)

\* The vault backs what Push Chain was told: it holds at least what gas and funds events
\* announced, of users and of CEAs, less what messages released and the gas fees it paid for
\* them. It may hold more: a release may name the vault itself as the recipient.
VaultBacksEvents ==
    /\ lamports[SOL][VAULT_PDA] + solReleased[SOL] + vaultGasFees >=
           StartBalances[SOL][VAULT_PDA] + gasEvents + fundsEvents[SOL]
    /\ \A t \in Mints : lamports[t][VAULT_PDA] + solReleased[t] >=
           StartBalances[t][VAULT_PDA] + fundsEvents[t]

\* The fee vault is kept apart from the bridge's funds: it holds the fees collected less the
\* reimbursements of reverts and rescues, and never spends the rent that keeps it alive.
FeeVaultKeepsRent ==
    "fee_vault" \in created =>
        /\ lamports[SOL][FEE_VAULT] >= RENT + feesCollected - reimbursed
        /\ lamports[SOL][FEE_VAULT] >= RENT

\* Of all messages the TSS ever signed with one sub_tx_id, of any kind and under any key, at
\* most one takes effect, however often and in whatever order relayers deliver them.
ReleasedAtMostOnce == \A id \in SolSubTxIds : releaseCount[id] <= 1

\* A CEA spends only in a finalization signed for its own Push Chain account.
CEASpendsForItsOwner ==
    [][\A u \in PushUsers, t \in SolTokens : lamports'[t][u] < lamports[t][u] =>
           \E m \in Messages : /\ m.subTxId \in executed' \ executed
                               /\ m.pushAccount = u
                               /\ m.kind \in {"withdraw", "execute", "return"}]_allSolVars

\* While the quota is on, what users and CEAs deposited of a token in the present epoch, since
\* its limit was last set, fits the limit when a deposit goes through.
SolEpochQuotaHolds ==
    [][\A t \in SolTokens :
           fundsEvents'[t] # fundsEvents[t] /\ rateConfig.epochDuration > 0 =>
               solEpochVolume'[t] <= tokenRateLimit[t].limit]_allSolVars

\* With the block cap on, the gas of one slot stays within the cap in force at each deposit.
SlotBudgetHolds ==
    [][gasEvents' # gasEvents /\ rateConfig.blockUsdCap > 0 =>
           slotSpend' <= rateConfig.blockUsdCap]_allSolVars

\* The lamports that travel as gas in one deposit are worth something between the caps.
SolGasWithinCaps ==
    [][gasEvents' # gasEvents =>
           LET usd == UsdAmount(gasEvents' - gasEvents)
           IN  config.min <= usd /\ usd <= config.max]_allSolVars

\* The program implements CustodyPromise, where the vault is what is in custody, the events are
\* the announcements, and the signed messages the orders. The fee of a refund is no part of
\* it: the fee vault pays that.
OrderOf(m) == [id |-> m.subTxId, key |-> m.tss, asset |-> m.token, amount |-> m.amount,
               fee |-> IF m.kind \in {"revert", "rescue"} THEN 0 ELSE m.gasFee]
SignedOrders == {OrderOf(m) : m \in Messages}
Announced(t) == fundsEvents[t] + (IF t = SOL THEN gasEvents ELSE 0)
Custody == INSTANCE CustodyPromise
    WITH Assets <- SolTokens, NativeAsset <- SOL, Orders <- SignedOrders,
         held <- [t \in SolTokens |-> lamports[t][VAULT_PDA]],
         announced <- [t \in SolTokens |-> Announced(t)],
         carriedOut <- executed, key <- tss, open <- ~config.paused
KeepsCustodyPromise == Custody!CustodySpec

================================================================================
