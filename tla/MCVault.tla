-------------------------------- MODULE MCVault --------------------------------
(***************************************************************************)
(* Small instances of the composition of Vault and UniversalGateway.       *)
(***************************************************************************)
EXTENDS Vault, MCUniversalGateway

OneCEA == [f \in Factories |-> [u \in PushAccounts |-> cea]]

\* One payout of each kind.
SmallPayouts == {<<NATIVE, 1>>, <<tkn, 1>>}

DepositRequests == {Request(ZERO, tkn, 1, TRUE)}
BackToUEA == {Request(uea, tkn, 1, FALSE), Request(uea, NATIVE, 1, TRUE),
              Request(ZERO, tkn, 1, TRUE)}

\* The TSS addresses hold native coin to pay releases with, and the user tokens to deposit.
ReleaseBalances ==
    [t \in Tokens |-> [a \in Accounts |->
        CASE a \in TSSAddresses /\ t = NATIVE -> 1
          [] a \in Users                      -> 1
          [] OTHER                            -> 0]]

\* Rotations and pauses of both contracts around refunds.
RefundNext ==
    \/ /\ \/ \E req \in Requests : SendUniversalTx(bal, alice, req, 0)
          \/ Supporting \/ SetPaused
          \/ \E new \in VaultAddresses : SetVault(new)
          \/ \E new \in TSSAddresses : SetTSS(new)
       /\ UNCHANGED vaultVars
    \/ \E v \in VaultAddresses :
           \/ SetVaultPaused(v)
           \/ \E gw \in Gateways : SetGateway(v, gw)
           \/ \E tss \in TSSAddresses : SetVaultTSS(v, tss)
    \/ \E v \in VaultAddresses, payout \in Payouts, id \in SubTxIds, recipient \in Users :
           VaultRefund(v, id, payout[1], payout[2], recipient)

OneId == CHOOSE id \in SubTxIds : TRUE

\* Finalizations, with CEAs that call back into the gateway, and factories that the two
\* contracts may disagree on.
FinalizeNext ==
    \/ /\ \/ CallsFrom(Users) \/ Supporting \/ FeedSet
          \/ \E fee \in Fees : SetProtocolFee(fee)
          \/ \E factory \in Factories : SetCEAFactory(factory)
       /\ UNCHANGED vaultVars
    \/ \E factory \in Factories : SetVaultCEAFactory(InitialVault, factory)
    \/ \E payout \in Payouts :
           \/ \E recipient \in Users :
                  VaultRefund(InitialVault, OneId, payout[1], payout[2], recipient)
           \/ \E u \in PushAccounts, sent \in {0, payout[2]}, recipient \in Users :
                  FinalizeToRecipient(InitialVault, u, payout[1], payout[2], sent, recipient)
           \/ \E u \in PushAccounts, req \in CEARequests, value \in MsgValues :
                  FinalizeBackToPush(InitialVault, u, payout[1], payout[2], req, value)

ReleasesInit ==
    /\ VaultInit /\ question \in {"refunds", "finalize"}
    /\ \A v \in VaultAddresses : vaultCEAFactory[v] = vaultCEAFactory[InitialVault]
    /\ question = "refunds" => vaultCEAFactory[InitialVault] # other

ReleasesSpec ==
    /\ ReleasesInit
    /\ [][/\ \/ question = "refunds" /\ RefundNext
             \/ question = "finalize" /\ FinalizeNext
          /\ UNCHANGED question]_<<allVars, question>>

================================================================================
