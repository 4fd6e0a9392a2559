---------------------------- MODULE GatewaySession ----------------------------
(***************************************************************************)
(* app/gateway-test.ts and app/simple-spl-test.ts: a script that runs      *)
(* deposits, settings and signed releases against the deployed gateway and *)
(* checks balances around each. It takes a look at the chain, sends a      *)
(* transaction and takes another look: between any two of its calls other  *)
(* users, relayers and operators act, and it may be killed and started     *)
(* again.                                                                  *)
(***************************************************************************)
EXTENDS ConfigCli, Sequences

CONSTANTS
    AdminKey,               \* upgrade-keypair.json of the script's machine
    SessionUser,            \* clean-user-keypair.json
    SessionRelayer,         \* fresh-relayer-keypair.json
    SessionCEA,             \* the push account of the messages it signs
    Receiver,               \* executeRecipient
    SessionMint,            \* the first token of ./tokens that loads
    EnvKeys,                \* TSS keys the script's machine may have in its .env
    HardCodedTss,           \* <<key, chain>> of init_tss: an address in the script, the devnet
    VeryLarge,              \* veryLargeThreshold
    FallbackGas,            \* lamports of gas when the price cannot be read
    SessionCaps,            \* newMinCap and newMaxCap
    MaxSessions             \* bound: how often a script is started

\* A random sub_tx_id is one no other message has: the session's number and the step's.
SessionSubTxId(number, step) == <<number, step>>

ASSUME SessionAssumption ==
    /\ AdminKey \in AdminKeys \cap SolUsers \cap Relayers
    /\ SessionUser \in SolUsers \ {AdminKey} /\ SessionRelayer \in Relayers \ {AdminKey}
    /\ SessionCEA \in PushUsers /\ Receiver \in SolUsers \ {SessionUser, AdminKey}
    /\ SessionMint \in Mints /\ HardCodedTss \in TssStates
    /\ VeryLarge \in Nat /\ FallbackGas \in Nat /\ SessionCaps \in Nat \X Nat
    /\ MaxSessions \in Nat

VARIABLES
    session,                \* [at, script, step, number, key, saw, gas, chain]
    vaultAccount,           \* the vault has a token account for SessionMint
    \* history, read by the properties only
    moved,                  \* tokens whose vault balance others changed since the look
    disturbed,              \* what the session relies on changed, or was not there at its start
    foundEmpty              \* steps of the session that found none of their token in the vault

sessionHistory == <<moved, disturbed, foundEmpty>>
sessionVars == <<session, vaultAccount, sessionHistory>>

Active == {"look", "send", "check"}
NothingSeen == StartBalances

SessionInit ==
    /\ session \in [at : {"off"}, script : {<<>>}, step : {1}, number : {0}, key : EnvKeys,
                   saw : {NothingSeen}, gas : {0}, chain : {HardCodedTss[2]}]
    /\ vaultAccount \in BOOLEAN
    /\ StartBalances[SessionMint][VAULT_PDA] > 0 => vaultAccount
    /\ moved = {} /\ disturbed = FALSE /\ foundEmpty = {}

--------------------------------------------------------------------------------
(* The steps of the scripts. shrugs: where a failure is printed and no more. *)

Step == [op |-> "none", account |-> "none", token |-> SOL, amount |-> 0, native |-> 0,
         usd |-> 0, payload |-> FALSE, gasFee |-> 0, error |-> "none", shrugs |-> {}]

Ensure(account) == [Step EXCEPT !.op = "ensure", !.account = account]
EnsureVaultAccount == Ensure("vault_account")
EnsureSplLimit == Ensure(SessionMint)
\* simple-spl-test.ts reads the balance of the vault's token account, which has to be there.
NeedVaultAccount == [Step EXCEPT !.op = "need"]
UpdateCaps == [Step EXCEPT !.op = "caps"]
PauseGateway == [Step EXCEPT !.op = "pause"]
UnpauseGateway == [Step EXCEPT !.op = "unpause"]

Deposit(token, amount, payload, usd) ==
    [Step EXCEPT !.op = "deposit", !.token = token, !.amount = amount, !.payload = payload,
                 !.native = IF token = SOL THEN amount ELSE 0, !.usd = usd]
GasRoute                == Deposit(SOL, 0, FALSE, 2)
GasAndPayloadRoute      == Deposit(SOL, 0, TRUE, 2)
FundsRouteSol           == Deposit(SOL, 1, FALSE, 0)
FundsRouteSpl           == Deposit(SessionMint, 2, FALSE, 0)
FundsAndPayloadRouteSol == Deposit(SOL, 2, TRUE, 1)
FundsAndPayloadRouteSpl == Deposit(SessionMint, 1, TRUE, 1)
PayloadOnly             == Deposit(SOL, 0, TRUE, 0)

\* Requests that are to be refused, with the error expected.
Refused(deposit, native, error) ==
    [deposit EXCEPT !.op = "refused", !.native = native, !.error = error]
MismatchedFunds    == Refused(Deposit(SOL, 2, FALSE, 0), 1, "InvalidAmount")
SplFundsWithNative == Refused(FundsRouteSpl, 1, "InvalidAmount")
NoRevertRecipient  == Refused(GasRoute, 0, "InvalidRecipient")
MismatchedNative   == Refused(Deposit(SOL, 1, FALSE, 0), 2, "InvalidAmount")
InsufficientNative == Refused(Deposit(SOL, 2, TRUE, 0), 1, "InvalidAmount")
WhilePaused        == Refused(GasRoute, 0, "Paused")

\* Messages signed with the key of .env.
MessageWhoseFailureIsPrinted(kind, token, amount) ==
    [Step EXCEPT !.op = kind, !.token = token, !.amount = amount, !.gasFee = 1,
                 !.shrugs = {"send"}]
Message(kind, token, amount) ==
    [Step EXCEPT !.op = kind, !.token = token, !.amount = amount, !.gasFee = 1]
WithdrawSol   == Message("withdraw", SOL, 1)
WithdrawSpl   == Message("withdraw", SessionMint, 1)
ExecuteSol    == Message("execute", SOL, 0)
ExecuteSpl    == Message("execute", SessionMint, 1)
FundCEA       == [Step EXCEPT !.op = "fund", !.amount = 2]
CeaWithdraw   == Message("return", SOL, 0)
\* Executions that carry another account, signature or number of accounts than was signed.
ForgedExecute == [ExecuteSol EXCEPT !.op = "forged"]
\* As large as a transaction can be; only the counter of the target program is checked.
HeavySol      == [ExecuteSol EXCEPT !.account = "counter"]
HeavySpl      == [HeavySol EXCEPT !.token = SessionMint]
RevertSol     == [Message("revert", SOL, 1) EXCEPT !.shrugs = {"send"}]
MatchTssKey   == [Step EXCEPT !.op = "match"]

GatewayTest ==
    <<Ensure("rate_limit_config"), Ensure(SOL), UpdateCaps, EnsureVaultAccount, EnsureSplLimit,
      GasRoute, GasAndPayloadRoute, FundsRouteSol, FundsRouteSpl, FundsAndPayloadRouteSol,
      FundsAndPayloadRouteSpl, PayloadOnly,
      MismatchedFunds, SplFundsWithNative, NoRevertRecipient, MismatchedNative,
      InsufficientNative, PauseGateway, WhilePaused, UnpauseGateway,
      Ensure("tss_pda"), WithdrawSol, WithdrawSpl, MatchTssKey,
      ExecuteSol, ExecuteSpl, FundCEA, CeaWithdraw, ForgedExecute, HeavySol, HeavySpl,
      RevertSol>>

SimpleSplTest ==
    <<NeedVaultAccount, [EnsureSplLimit EXCEPT !.shrugs = {"send"}],
      [FundsRouteSpl EXCEPT !.shrugs = {"check"}]>>

Scripts == {GatewayTest, SimpleSplTest}

\* The ids a session may use are ids.
ASSUME SubTxIdAssumption ==
    \A number \in 1..MaxSessions, step \in 1..Len(GatewayTest) :
        SessionSubTxId(number, step) \in SolSubTxIds

Releases == {"withdraw", "execute", "return", "revert"}
CurrentStep == session.script[session.step]

--------------------------------------------------------------------------------
(* What a step looks at. *)

\* getDynamicGasAmount
GetDynamicGasAmount(usd) ==
    IF usd = 0 THEN 0
    ELSE IF SolPriceAvailable THEN (usd * LAMPORTS_PER_SOL) \div Round.price ELSE FallbackGas

GoOn(s) ==
    IF s.step < Len(s.script) THEN [s EXCEPT !.at = "look", !.step = @ + 1, !.saw = NothingSeen]
    ELSE [s EXCEPT !.at = "done", !.saw = NothingSeen]

Existing == created \cup IF vaultAccount THEN {"vault_account"} ELSE {}

\* An account that exists is not created again. The withdrawal of tokens is left out where the
\* vault has none.
NothingToDo(step) ==
    \/ step.op = "ensure" /\ step.account \in Existing
    \/ step = WithdrawSpl /\ lamports[SessionMint][VAULT_PDA] = 0

\* The chain id of a message: read for it, but for two that use one read before.
ReadsItForTheKeyOnly(step) == step.op = "match"
ReadsChainId(step) ==
    step.op \in Releases \cup {"match"} /\ step \notin {WithdrawSpl, ExecuteSol}

Look ==
    /\ session.at = "look"
    /\ session' =
           IF NothingToDo(CurrentStep) THEN GoOn(session)
           ELSE [session EXCEPT
                    !.at = "send",
                    !.saw = lamports,
                    !.gas = GetDynamicGasAmount(CurrentStep.usd),
                    !.chain = IF ReadsChainId(CurrentStep) /\ "tss_pda" \in created
                              THEN tss[2] ELSE @]
    /\ moved' = {}
    /\ foundEmpty' = IF lamports[CurrentStep.token][VAULT_PDA] = 0
                     THEN foundEmpty \cup {session.step} ELSE foundEmpty
    /\ UNCHANGED <<allSolVars, authority, vaultAccount, disturbed>>

--------------------------------------------------------------------------------
(* The transaction of a step. *)

RequestOf(step) ==
    [token |-> step.token, amount |-> step.amount, payload |-> step.payload,
     revertRecipient |-> IF step.error = "InvalidRecipient" THEN DEFAULT ELSE SessionUser]
NativeOf(step) == step.native + session.gas

\* The error a deposit is refused with, of those the script tells apart: the checks in order.
DepositError(step) ==
    LET native == NativeOf(step) - protocolFee
    IN  CASE config.paused                                    -> "Paused"
          [] native < 0                                       -> "InsufficientProtocolFee"
          [] FetchSolTxType(RequestOf(step), native) = "NONE" -> "InvalidAmount"
          [] RequestOf(step).revertRecipient = DEFAULT        -> "InvalidRecipient"
          [] OTHER                                            -> "none"

MessageOf(step) ==
    [kind |-> step.op, subTxId |-> SessionSubTxId(session.number, session.step),
     tss |-> <<session.key, session.chain>>, pushAccount |-> SessionCEA, token |-> step.token,
     amount |-> step.amount, gasFee |-> step.gasFee,
     target |-> IF step.op = "execute" THEN Receiver ELSE AdminKey,
     moved |-> IF step.op = "return" THEN session.saw[SOL][SessionCEA]
               ELSE step.amount]

DepositOf(step) ==
    /\ SendSolUniversalTx(SessionUser, RequestOf(step), NativeOf(step))
    /\ UNCHANGED programVars

Transaction(step) ==
    CASE step.op = "ensure" ->
           CASE step.account = "rate_limit_config" -> RateSetBlockUsdCap(AdminKey, 0)
             [] step.account = "tss_pda"           -> TssInit(AdminKey, HardCodedTss)
             [] step.account = "vault_account"     -> UNCHANGED <<allSolVars, authority>>
             [] OTHER -> RateSetToken(AdminKey, step.account, VeryLarge)
      [] step.op = "caps" -> CapsSet(AdminKey, SessionCaps[1], SessionCaps[2])
      [] step.op = "pause" ->
           IF config.paused THEN MayPause(AdminKey) /\ UNCHANGED <<allSolVars, authority>>
           ELSE Pause(AdminKey)
      [] step.op = "unpause" ->
           IF config.paused THEN Unpause(AdminKey)
           ELSE MayPause(AdminKey) /\ UNCHANGED <<allSolVars, authority>>
      [] step.op = "deposit" -> DepositOf(step)
      [] step.op = "fund" ->
           /\ CanPay(lamports, SOL, AdminKey, step.amount)
           /\ lamports' = Transfer(lamports, SOL, AdminKey, SessionCEA, step.amount)
           /\ UNCHANGED <<solConfigVars, solLimitVars, executed, solEventVars, solWindowVars,
                          solClockVars, programVars>>
      [] step.op = "withdraw" -> Withdraw(MessageOf(step), AdminKey) /\ UNCHANGED authority
      [] step.op = "execute" -> Execute(MessageOf(step), SessionRelayer) /\ UNCHANGED authority
      [] step.op = "return" -> ReturnToUEA(MessageOf(step), SessionRelayer) /\ UNCHANGED authority
      [] step.op = "revert" -> Revert(MessageOf(step), AdminKey) /\ UNCHANGED authority
      [] OTHER -> UNCHANGED <<allSolVars, authority>>

\* What a step that sends nothing that counts is to find: the refusal it expects, its key, or
\* the token account.
AsExpected(step) ==
    CASE step.op = "refused" -> DepositError(step) = step.error
      [] step.op = "forged"  -> ~config.paused /\ "tss_pda" \in created
      [] step.op = "match"   -> "tss_pda" \in created /\ tss[1] = session.key
      [] step.op = "need"    -> vaultAccount
      [] OTHER               -> TRUE

\* A request that should have been refused may go through.
Unexpected(step) ==
    IF step.op = "refused" /\ ENABLED DepositOf(step) THEN DepositOf(step)
    ELSE UNCHANGED <<allSolVars, authority>>

\* rpc() and confirmTransaction: the step goes on when the transaction took effect.
Send ==
    LET step == CurrentStep
    IN  /\ session.at = "send"
        /\ IF AsExpected(step) /\ ENABLED Transaction(step)
           THEN Transaction(step) /\ session' = [session EXCEPT !.at = "check"]
           ELSE /\ session' = IF "send" \in step.shrugs THEN GoOn(session)
                              ELSE [session EXCEPT !.at = "failed", !.saw = NothingSeen]
                /\ Unexpected(step)
        /\ vaultAccount' = (vaultAccount \/ step = EnsureVaultAccount)
        /\ UNCHANGED sessionHistory

--------------------------------------------------------------------------------
(* The second look: <<token, account, change>>. *)

DepositChanges(step) ==
    IF step.token = SOL THEN {<<SOL, VAULT_PDA, NativeOf(step)>>}
    ELSE {<<step.token, VAULT_PDA, step.amount>>, <<step.token, SessionUser, -step.amount>>}
         \cup IF step.payload THEN {<<SOL, VAULT_PDA, session.gas>>} ELSE {}

ExactChanges(step) ==
    CASE step.op = "deposit"   -> DepositChanges(step)
      [] step = WithdrawSol    -> {<<SOL, VAULT_PDA, -(step.amount + step.gasFee)>>}
      [] step = WithdrawSpl    -> {<<SessionMint, AdminKey, step.amount>>,
                                   <<SessionMint, VAULT_PDA, -step.amount>>}
      [] step = ExecuteSol     -> {<<SOL, SessionCEA, 0>>}
      [] step = ExecuteSpl     -> {<<SessionMint, Receiver, step.amount>>,
                                   <<SessionMint, VAULT_PDA, -step.amount>>}
      [] step.op = "return"    -> {<<SOL, SessionCEA, -session.saw[SOL][SessionCEA]>>}
      [] OTHER                 -> {}

\* Gains within a tolerance: rents and transaction fees, which the ledger does not have.
LeastChanges(step) ==
    CASE step = WithdrawSol                -> {<<SOL, AdminKey, step.amount + step.gasFee>>}
      [] step \in {ExecuteSol, ExecuteSpl} -> {<<SOL, SessionRelayer, step.gasFee>>}
      [] step.op = "return"                -> {<<SOL, VAULT_PDA, 1>>}
      [] OTHER                             -> {}

Change(c) == lamports[c[1]][c[2]] - session.saw[c[1]][c[2]]
ChecksPass(step) ==
    /\ \A c \in ExactChanges(step) : Change(c) = c[3]
    /\ \A c \in LeastChanges(step) : Change(c) >= c[3]
    /\ step \in {WithdrawSol, WithdrawSpl, ExecuteSol, ExecuteSpl} =>
           SessionSubTxId(session.number, session.step) \in executed

Check ==
    /\ session.at = "check"
    /\ session' = IF ChecksPass(CurrentStep) \/ "check" \in CurrentStep.shrugs
                  THEN GoOn(session) ELSE [session EXCEPT !.at = "failed", !.saw = NothingSeen]
    /\ UNCHANGED <<allSolVars, authority, vaultAccount, sessionHistory>>

--------------------------------------------------------------------------------
(* The script among the others. *)

\* What a session finds ready: fee:init was run, nothing charges or limits it, the gateway is
\* unpaused and under its keys, and the price is in reach of the caps. Only gateway-test.ts
\* creates the rate limit account and the vault's token account; it signs with the key of .env,
\* where it created the TSS too.
Ready(script) ==
    /\ "fee_vault" \in created /\ protocolFee = 0 /\ ~config.paused
    /\ script = GatewayTest \/ ("rate_limit_config" \in created /\ vaultAccount)
    /\ authority.admin = AdminKey
    /\ "rate_limit_config" \in created => rateConfig.blockUsdCap = 0
    /\ \A t \in created \cap SolTokens : tokenRateLimit[t].limit = VeryLarge
    /\ session.key = IF "tss_pda" \in created THEN tss[1] ELSE HardCodedTss[1]
    /\ SolPriceAvailable /\ CheckSolUsdCaps(GetDynamicGasAmount(1))

StartSession(script) ==
    /\ session.at \notin Active
    /\ session.number < MaxSessions
    /\ session' = [session EXCEPT !.at = "look", !.script = script, !.step = 1,
                                  !.number = @ + 1]
    /\ disturbed' = ~Ready(script) /\ moved' = {} /\ foundEmpty' = {}
    /\ UNCHANGED <<allSolVars, authority, vaultAccount>>

\* The process is killed; what it has sent stays.
SessionDies ==
    /\ session.at \in Active
    /\ session' = [session EXCEPT !.at = "off", !.saw = NothingSeen]
    /\ UNCHANGED <<allSolVars, authority, vaultAccount, sessionHistory>>

SessionStep == Look \/ Send \/ Check

\* What a session relies on beside the balances.
Settings == <<created, config, protocolFee, tss, authority, rateConfig.blockUsdCap,
              [t \in SolTokens |-> tokenRateLimit[t].limit], pyth>>

\* A step of somebody else, and what it means to the session. Who deposits tokens has seen to
\* the vault's account for them.
SomebodyElse(step) ==
    /\ step
    /\ vaultAccount' = (vaultAccount \/ lamports'[SessionMint][VAULT_PDA] > 0)
    /\ moved' = moved \cup {t \in SolTokens : lamports'[t][VAULT_PDA] # lamports[t][VAULT_PDA]}
    /\ disturbed' = (disturbed \/ Settings' # Settings \/ ~SolPriceAvailable')
    /\ UNCHANGED <<session, foundEmpty>>

Others ==
    \/ \E key \in AdminKeys : Command(key)
    \/ (SolDepositStep \/ SolChainStep) /\ UNCHANGED programVars
    \/ ReleaseStep /\ UNCHANGED authority

\* The gateway under its operators, users and relayers, with no script running.
OperatedSpec == AuthorityInit /\ [][Others]_<<allSolVars, authority>>

SessionSpec ==
    /\ AuthorityInit /\ SessionInit
    /\ [][\/ SessionStep
          \/ \E script \in Scripts : StartSession(script)
          \/ SessionDies
          \/ SomebodyElse(Others)]_<<allSolVars, authority, sessionVars>>

--------------------------------------------------------------------------------
(* Properties. *)

\* On a gateway set up for it, whose settings and price nobody touches meanwhile, every deposit
\* of a script takes effect, so does every release the vault can pay for, every request it
\* expects to be refused is refused with that error, and every balance comes out right: it
\* fails only where others moved the vault's balance of a token between its two looks, or where
\* their releases, at any time before, left the vault less than the step is to release. Earlier
\* scripts, killed anywhere, do no harm as long as they left the gateway unpaused.
VaultCanPay(step) ==
    step.op \in Releases =>
        /\ CanPay(lamports, step.token, VAULT_PDA, step.amount)
        /\ CanPay(lamports, SOL, VAULT_PDA,
                  step.gasFee + IF step.token = SOL THEN step.amount ELSE 0)
QuietSessionPasses ==
    [][session.at # "failed" /\ session'.at = "failed" =>
           \/ disturbed
           \/ \E c \in ExactChanges(CurrentStep) \cup LeastChanges(CurrentStep) : c[1] \in moved
           \/ session.at = "send" /\ ~VaultCanPay(CurrentStep)]_sessionVars

\* A script that reports success has put its releases through, each of them once, but for the
\* withdrawal of tokens where it found that the vault had none, and for the revert, whose
\* failure it only prints.
SuccessMeansReleased ==
    session.at = "done" =>
        \A i \in DOMAIN session.script :
            session.script[i].op \in Releases \ {"revert"} =>
                \/ releaseCount[SessionSubTxId(session.number, i)] = 1
                \/ session.script[i] = WithdrawSpl /\ i \in foundEmpty

================================================================================
