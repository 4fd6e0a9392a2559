--------------------------------- MODULE Vault ---------------------------------
(***************************************************************************)
(* The Vault contract, composed with the UniversalGateway it serves: ERC20 *)
(* custody, and the three operations of the TSS that release funds on the  *)
(* external chain (finalize through a CEA, revert, rescue).                *)
(*                                                                         *)
(* Several Vaults may be deployed over time (UniversalGateway.setVault),   *)
(* so the state of the contract is a function of its address. A Vault can  *)
(* also be pointed at a redeployed gateway (setGateway): of that gateway   *)
(* only the map of executed subTxIds matters here.                         *)
(***************************************************************************)
EXTENDS UniversalGateway

CONSTANTS
    GATEWAY2,       \* a second deployment of UniversalGateway
    Gateways,       \* the gateways a Vault can be set to
    CEAFor,         \* Factories -> PushAccounts -> CEA (its CREATE2 address)
    SubTxIds,       \* ids the Universal Validators assign to outbound transactions
    Payouts,        \* <<token, amount>> of the releases the TSS signs
    CEARequests     \* requests the payload of a CEA makes to the gateway

ASSUME VaultAssumption ==
    /\ Gateways \subseteq {GATEWAY, GATEWAY2} /\ GATEWAY \in Gateways /\ GATEWAY # GATEWAY2
    /\ CEAFor \in [Factories -> [PushAccounts -> CEAs]]
    /\ Payouts \subseteq Tokens \X Nat
    /\ CEARequests \subseteq RequestType
    /\ \A a \in VaultAddresses : InitialBalances[NATIVE][a] = 0

VARIABLES
    vaultPaused,        \* of each Vault
    vaultTSS,           \* TSS_ADDRESS and the sole member of TSS_ROLE of each Vault
    vaultGateway,       \* gateway of each Vault
    vaultCEAFactory,    \* CEAFactory of each Vault
    deployed,           \* CEAs that have code (external)
    isExecuted2,        \* isExecuted of GATEWAY2
    \* history
    refundCount,        \* gateway -> subTxId -> how often it was reverted or rescued
    released            \* token -> amount the TSS released by all three operations

vaultConfig == <<vaultPaused, vaultTSS, vaultGateway, vaultCEAFactory>>
vaultVars   == <<vaultConfig, deployed, isExecuted2, refundCount, released>>
allVars     == <<vars, vaultVars>>

VaultStateTypeOK ==
    /\ vaultPaused \in [VaultAddresses -> BOOLEAN]
    /\ vaultTSS \in [VaultAddresses -> TSSAddresses]
    /\ vaultGateway \in [VaultAddresses -> Gateways]
    /\ vaultCEAFactory \in [VaultAddresses -> Factories]
    /\ deployed \subseteq CEAs
    /\ isExecuted \subseteq SubTxIds /\ isExecuted2 \subseteq SubTxIds
    /\ refundCount \in [Gateways -> [SubTxIds -> Nat]]
    /\ released \in [Tokens -> Nat]

VaultTypeOK == TypeOK /\ VaultStateTypeOK

\* initialize, for every Vault that is ever deployed
VaultInit ==
    /\ Init
    /\ vaultPaused = [v \in VaultAddresses |-> FALSE]
    /\ vaultTSS = [v \in VaultAddresses |-> InitialTSS]
    /\ vaultGateway = [v \in VaultAddresses |-> GATEWAY]
    /\ vaultCEAFactory \in [VaultAddresses -> Factories]
    /\ deployed = {} /\ isExecuted2 = {}
    /\ refundCount = [gw \in Gateways |-> [id \in SubTxIds |-> 0]]
    /\ released = [t \in Tokens |-> 0]

--------------------------------------------------------------------------------
(* Administration of a Vault. *)

VaultUnchangedBut(rest) == UNCHANGED <<vars, deployed, isExecuted2, refundCount, released, rest>>

SetVaultPaused(v) ==
    /\ vaultPaused' = [vaultPaused EXCEPT ![v] = ~@]
    /\ VaultUnchangedBut(<<vaultTSS, vaultGateway, vaultCEAFactory>>)

SetGateway(v, gw) ==
    /\ vaultGateway' = [vaultGateway EXCEPT ![v] = gw]
    /\ VaultUnchangedBut(<<vaultPaused, vaultTSS, vaultCEAFactory>>)

\* Vault.setTSS, which moves TSS_ROLE with the address
SetVaultTSS(v, tss) ==
    /\ vaultTSS' = [vaultTSS EXCEPT ![v] = tss]
    /\ VaultUnchangedBut(<<vaultPaused, vaultGateway, vaultCEAFactory>>)

SetVaultCEAFactory(v, factory) ==
    /\ vaultCEAFactory' = [vaultCEAFactory EXCEPT ![v] = factory]
    /\ VaultUnchangedBut(<<vaultPaused, vaultTSS, vaultGateway>>)

--------------------------------------------------------------------------------
(* Releases. *)

\* Who pays: native releases carry the TSS's own msg.value, ERC20 ones come out of custody.
Payer(v, token) == IF token = NATIVE THEN vaultTSS[v] ELSE v

\* The refund of a second gateway deployment (unpaused, this Vault its VAULT).
RefundBySecond(v, subTxId, token, amount, recipient) ==
    /\ subTxId \notin isExecuted2
    /\ isExecuted2' = isExecuted2 \cup {subTxId}
    /\ bal' = Transfer(bal, token, Payer(v, token), recipient, amount)
    /\ UNCHANGED <<adminVars, limitState, totalProtocolFeesCollected, isExecuted, clockVars,
                   eventVars, windowVars, oracleVars>>

\* revertUniversalTx and rescueFunds, which differ in their events only: the funds reach the
\* gateway, and the gateway pays them out, in one transaction.
VaultRefund(v, subTxId, token, amount, recipient) ==
    /\ ~vaultPaused[v]
    /\ amount # 0
    /\ recipient # ZERO
    /\ CanPay(bal, token, Payer(v, token), amount)
    /\ \/ /\ vaultGateway[v] = GATEWAY
          /\ Refund(Transfer(bal, token, Payer(v, token), GATEWAY, amount), v, subTxId,
                    token, amount, recipient, IF token = NATIVE THEN amount ELSE 0)
          /\ UNCHANGED isExecuted2
       \/ /\ vaultGateway[v] = GATEWAY2
          /\ RefundBySecond(v, subTxId, token, amount, recipient)
    /\ refundCount' = [refundCount EXCEPT ![vaultGateway[v]][subTxId] = @ + 1]
    /\ released' = [released EXCEPT ![token] = @ + amount]
    /\ UNCHANGED <<vaultConfig, deployed>>

\* finalizeUniversalTx up to the call of the CEA: the CEA and the ledger it runs in. Nothing
\* remembers the subTxId.
FinalizeAllowed(v, pushAccount, token, amount) ==
    /\ ~vaultPaused[v]
    /\ CanPay(bal, token, Payer(v, token), amount)
TargetCEA(v, pushAccount) == CEAFor[vaultCEAFactory[v]][pushAccount]
FundingWithoutValue(v, pushAccount, token, amount) ==
    Transfer(bal, token, Payer(v, token),
             IF token = NATIVE THEN v ELSE TargetCEA(v, pushAccount), amount)
Funding(v, pushAccount, token, amount) ==
    Transfer(bal, token, Payer(v, token), TargetCEA(v, pushAccount), amount)

Finalized(v, pushAccount, token, amount) ==
    /\ deployed' = deployed \cup {TargetCEA(v, pushAccount)}
    /\ released' = [released EXCEPT ![token] = @ + amount]
    /\ UNCHANGED <<vaultConfig, isExecuted2, refundCount>>

\* The payload leaves the funds in the CEA, or sends the CEA's holdings of the token on.
FinalizeToRecipient(v, pushAccount, token, amount, sent, recipient) ==
    /\ FinalizeAllowed(v, pushAccount, token, amount)
    /\ CanPay(Funding(v, pushAccount, token, amount), token, TargetCEA(v, pushAccount), sent)
    /\ bal' = Transfer(Funding(v, pushAccount, token, amount), token,
                       TargetCEA(v, pushAccount), recipient, sent)
    /\ Finalized(v, pushAccount, token, amount)
    /\ UNCHANGED <<adminVars, limitState, totalProtocolFeesCollected, isExecuted, clockVars,
                   eventVars, windowVars, oracleVars>>

\* The payload calls the gateway while the Vault's call is still running: the reentrancy
\* guards of the two contracts are separate. The CEA may use either entry point.
FinalizeBackToPush(v, pushAccount, token, amount, req, value) ==
    LET executor == TargetCEA(v, pushAccount)
        b        == Funding(v, pushAccount, token, amount)
    IN  /\ FinalizeAllowed(v, pushAccount, token, amount)
        /\ \/ SendUniversalTxFromCEA(b, executor, req, value)
           \/ SendUniversalTx(b, executor, req, value)
        /\ Finalized(v, pushAccount, token, amount)

--------------------------------------------------------------------------------

VaultAdminStep ==
    \E v \in VaultAddresses :
        \/ SetVaultPaused(v)
        \/ \E gw \in Gateways : SetGateway(v, gw)
        \/ \E tss \in TSSAddresses : SetVaultTSS(v, tss)
        \/ \E factory \in Factories : SetVaultCEAFactory(v, factory)

TSSStep ==
    \E v \in VaultAddresses, payout \in Payouts :
        \/ \E id \in SubTxIds, recipient \in Users :
               VaultRefund(v, id, payout[1], payout[2], recipient)
        \/ \E u \in PushAccounts, sent \in {0, payout[2]}, recipient \in Users :
               FinalizeToRecipient(v, u, payout[1], payout[2], sent, recipient)
        \/ \E u \in PushAccounts, req \in CEARequests, value \in MsgValues :
               FinalizeBackToPush(v, u, payout[1], payout[2], req, value)

\* A CEA runs only inside a finalization, so the gateway's free callers are the users.
GatewayStep == (CallsFrom(Users) \/ AdminStep \/ ChainStep) /\ UNCHANGED vaultVars

VaultNext == GatewayStep \/ VaultAdminStep \/ TSSStep

VaultSpec == VaultInit /\ [][VaultNext]_allVars

--------------------------------------------------------------------------------
(* Properties. *)

\* Nothing leaves custody but by a release of the TSS, and every event is still backed by
\* what came in: over all Vaults and TSS addresses that ever served. Native coin is the TSS's
\* alone: none is ever left in a Vault (docs/THREAT_MODELLING_DOC.md).
CustodyBalances ==
    /\ Funded(NATIVE, TSSAddresses) + released[NATIVE] =
           InitiallyFunded(NATIVE, TSSAddresses)
           + totalProtocolFeesCollected + emittedGas + emittedFunds[NATIVE]
    /\ \A t \in ERC20s : Funded(t, VaultAddresses) + released[t] =
           InitiallyFunded(t, VaultAddresses) + emittedFunds[t]
    /\ \A v \in VaultAddresses : bal[NATIVE][v] = 0

\* A gateway pays a subTxId back at most once, over reverts and rescues, by whichever Vault,
\* across rotations and pauses of both contracts.
RefundedAtMostOnce == \A gw \in Gateways, id \in SubTxIds : refundCount[gw][id] <= 1

\* A refund takes both contracts: neither is paused, and no Vault but the one the gateway
\* deposits to pays, so that a retired Vault can spend its custody only by finalizing.
RefundsByServingVault ==
    [][isExecuted' # isExecuted =>
           /\ ~paused
           /\ ~vaultPaused[VAULT]
           /\ \A v \in VaultAddresses \ {VAULT}, t \in Tokens : bal'[t][v] >= bal[t][v]]_allVars

================================================================================
