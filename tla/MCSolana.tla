-------------------------------- MODULE MCSolana --------------------------------
(***************************************************************************)
(* Small instances of the Solana program. A behaviour is about deposits    *)
(* and their limits, or about releases.                                    *)
(***************************************************************************)
EXTENDS SolanaReleases

CONSTANTS usdc, bob, relayer1, push1, push2

VARIABLE question   \* what the behaviour is about

SolRequest(token, amount, payload) ==
    [token |-> token, amount |-> amount, payload |-> payload, revertRecipient |-> bob]

\* Every shape fetch_tx_type tells apart, and a request without revert recipient.
AllShapes ==
    {SolRequest(t, a, p) : t \in {SOL, usdc}, a \in {0, 1}, p \in BOOLEAN}
    \cup {[SolRequest(SOL, 1, FALSE) EXCEPT !.revertRecipient = DEFAULT]}
LimitedShapes == {SolRequest(SOL, 0, FALSE), SolRequest(usdc, 1, FALSE), SolRequest(usdc, 2, FALSE)}

Message(kind, id, state, push, token, amount, gasFee, target, moved) ==
    [kind |-> kind, subTxId |-> id, tss |-> state, pushAccount |-> push, token |-> token,
     amount |-> amount, gasFee |-> gasFee, target |-> target, moved |-> moved]

\* A sub_tx_id is signed for a finalization and, when that failed or was too late, for a
\* revert or a rescue, under both TSS states; nobody signed the last one again after a change
\* of keys. One of the recipients is the vault itself.
OutboundMessages ==
    UNION {{Message("withdraw", "s1", state, push1, SOL, 1, 1, bob, 0),
            Message("revert",   "s1", state, push1, SOL, 1, 1, bob, 0),
            Message("execute",  "s2", state, push1, usdc, 1, 0, bob, 2),
            Message("rescue",   "s2", state, push1, usdc, 1, 1, VAULT_PDA, 0),
            Message("return",   "s3", state, push2, usdc, 0, 1, DEFAULT, 1)} : state \in TssStates}
    \cup {Message("return",   "s4", "key1", push2, SOL, 1, 0, DEFAULT, 2),
          Message("withdraw", "s4", "key1", push2, SOL, 1, 0, push2, 0)}

\* One return of a CEA, which shares the quota with the users' deposits.
OneReturn == {Message("return", "s3", state, push2, usdc, 0, 0, DEFAULT, 1) : state \in TssStates}
AllMessages == OutboundMessages \cup OneReturn

\* What everybody starts with; a CEA holds funds of earlier releases.
StartWith(sol, erc20, vaultSol) ==
    [t \in SolTokens |-> [a \in SolAccounts |->
        CASE a \in SolUsers                 -> IF t = SOL THEN sol ELSE erc20
          [] a \in PushUsers                -> 1
          [] a = VAULT_PDA /\ t = SOL       -> vaultSol
          [] OTHER                          -> 0]]
Rich   == StartWith(3, 3, 1)

Caps12 == <<1, 2>>
OtherCaps == {<<1, 3>>, <<3, 1>>}
Quotes == {<<1, 0>>, <<2, 0>>, <<0, 0>>, <<1, 9>>}
OneQuote == {<<1, 0>>}

--------------------------------------------------------------------------------
\* Deposits with everything their limits depend on, and the return of a CEA.
DepositNext ==
    \/ /\ \/ \E req \in LimitedShapes, native \in {0, 1, 2} : SendSolUniversalTx(bob, req, native)
          \/ SolChainStep
          \/ SetSolProtocolFee(0)
          \/ \E cap \in SlotCaps : SetSlotUsdCap(cap)
          \/ \E sec \in EpochDurations : SetEpochDuration(sec)
          \/ \E token \in SolTokens, limit \in TokenLimits : SetTokenRateLimit(token, limit)
          \/ SetSolTss(tss)
       /\ UNCHANGED releaseVars
    \/ \E m \in OneReturn, relayer \in Relayers : ReturnToUEA(m, relayer)

\* Releases between deposits, pauses and new settings, all within one slot.
ReleaseNext ==
    \/ /\ \/ SolDepositStep \/ SetSolPaused
          \/ \E new \in SolConfigs : SetSolConfig(new)
          \/ \E fee \in ProtocolFees : SetSolProtocolFee(fee)
          \/ SetSlotUsdCap(0) \/ SetEpochDuration(1)
          \/ \E token \in SolTokens, limit \in TokenLimits : SetTokenRateLimit(token, limit)
          \/ \E new \in TssStates : SetSolTss(new)
       /\ UNCHANGED releaseVars
    \/ \E m \in OutboundMessages, relayer \in Relayers :
           \/ Withdraw(m, relayer) \/ Execute(m, relayer) \/ ReturnToUEA(m, relayer)
           \/ Revert(m, relayer) \/ Rescue(m, relayer)

ProgramInit ==
    /\ ReleaseInit /\ question \in {"deposits", "releases"}
    /\ question = "deposits" => tss = "key1"
    /\ question = "releases" => \A feed \in PriceFeeds : pyth[feed].price = 1

ProgramSpec ==
    /\ ProgramInit
    /\ [][/\ \/ question = "deposits" /\ DepositNext
             \/ question = "releases" /\ ReleaseNext
          /\ UNCHANGED question]_<<allSolVars, question>>

\* What the code's comment on the reset and docs/1-DEPOSIT.md say of the quota: a new epoch
\* starts with nothing used. (Violated: after update_epoch_duration has lengthened the epochs
\* their numbers are smaller than the one stored, and consume_rate_limit never resets.)
FreshEpochHasFullQuota ==
    [][slot' # slot /\ rateConfig.epochDuration > 0 /\ SolEpoch' # SolEpoch =>
           \A t \in created \cap SolTokens : EpochUsage(t)'.used = 0]_allSolVars

================================================================================
