------------------------------ MODULE ClientProofs ------------------------------
(***************************************************************************)
(* Theorems about the clients of the Solana gateway. A session of the      *)
(* test scripts that ends without an error released what it was to         *)
(* release, and nothing twice: the invariant follows a script step by      *)
(* step, and the executed_sub_tx accounts. The operators' commands take    *)
(* no steps but the program's own. Whatever the overhead of a transaction, *)
(* the limit and the bounds of the searches, the two binary searches       *)
(* report the capacity: the invariant is the usual one of a binary search, *)
(* twice; what was found is the largest below left, and everything above   *)
(* right is too large. And what was written in one of the two byte formats *)
(* is what is read: each of the six parts of a format is at the offset its *)
(* reader computes, and there a number is the sum of its digits, an        *)
(* account has its own bit of the flags.                                   *)
(***************************************************************************)
EXTENDS GatewaySession, TxSizing, PayloadCodecs, LedgerProofs, SequenceTheorems, TLAPS

--------------------------------------------------------------------------------
(* The scripts. *)

\* Failures of releases but reverts are not shrugged off.
Insists(step) == step.op \in Releases \ {"revert"} => "send" \notin step.shrugs

LEMMA KindsOfSteps ==
    /\ \A account : Ensure(account).op = "ensure"
    /\ \A token, amount, payload, usd :
          /\ Deposit(token, amount, payload, usd).op = "deposit"
          /\ \A native, error :
                Refused(Deposit(token, amount, payload, usd), native, error).op = "refused"
    /\ \A kind, token, amount : Message(kind, token, amount).shrugs = {}
<1>1. \A account : Ensure(account).op = "ensure"
  BY DEF Ensure, Step
<1>2. \A token, amount, payload, usd : Deposit(token, amount, payload, usd).op = "deposit"
  BY DEF Deposit, Step
<1>3. \A token, amount, payload, usd, native, error :
          Refused(Deposit(token, amount, payload, usd), native, error).op = "refused"
  BY DEF Refused, Deposit, Step
<1>4. \A kind, token, amount : Message(kind, token, amount).shrugs = {}
  BY DEF Message, Step
<1> QED BY <1>1, <1>2, <1>3, <1>4

LEMMA GatewayTestInsists == \A i \in 1..32 : Insists(GatewayTest[i])
<1>1. /\ Insists(UpdateCaps) /\ Insists(PauseGateway) /\ Insists(UnpauseGateway)
      /\ Insists(FundCEA) /\ Insists(MatchTssKey)
  BY DEF Insists, Releases, UpdateCaps, PauseGateway, UnpauseGateway, FundCEA, MatchTssKey, Step
<1>2. \A account : Insists(Ensure(account))
  BY KindsOfSteps DEF Insists, Releases
<1>3. \A token, amount, payload, usd, native, error :
          /\ Insists(Deposit(token, amount, payload, usd))
          /\ Insists(Refused(Deposit(token, amount, payload, usd), native, error))
  BY KindsOfSteps DEF Insists, Releases
<1>4. \A kind, token, amount : Insists(Message(kind, token, amount))
  BY KindsOfSteps DEF Insists
<1>5. Insists(ForgedExecute) /\ Insists(HeavySol) /\ Insists(HeavySpl) /\ Insists(RevertSol)
  BY DEF Insists, Releases, ForgedExecute, HeavySol, HeavySpl, RevertSol, ExecuteSol, Message, Step
<1>6. /\ Insists(GasRoute) /\ Insists(GasAndPayloadRoute) /\ Insists(FundsRouteSol)
      /\ Insists(FundsRouteSpl) /\ Insists(FundsAndPayloadRouteSol)
      /\ Insists(FundsAndPayloadRouteSpl) /\ Insists(PayloadOnly) /\ Insists(EnsureSplLimit)
  BY <1>2, <1>3 DEF GasRoute, GasAndPayloadRoute, FundsRouteSol, FundsRouteSpl,
     FundsAndPayloadRouteSol, FundsAndPayloadRouteSpl, PayloadOnly, EnsureSplLimit
<1>7. /\ Insists(MismatchedFunds) /\ Insists(SplFundsWithNative) /\ Insists(NoRevertRecipient)
      /\ Insists(MismatchedNative) /\ Insists(InsufficientNative) /\ Insists(WhilePaused)
  BY <1>3, Zenon DEF MismatchedFunds, SplFundsWithNative, NoRevertRecipient, MismatchedNative,
     InsufficientNative, WhilePaused, FundsRouteSpl, GasRoute
<1>8. /\ Insists(WithdrawSol) /\ Insists(WithdrawSpl) /\ Insists(ExecuteSol)
      /\ Insists(ExecuteSpl) /\ Insists(CeaWithdraw)
  BY <1>4 DEF WithdrawSol, WithdrawSpl, ExecuteSol, ExecuteSpl, CeaWithdraw
<1>9. /\ Insists(Ensure("rate_limit_config")) /\ Insists(Ensure(SOL))
      /\ Insists(Ensure("tss_pda")) /\ Insists(EnsureVaultAccount)
  BY <1>2 DEF EnsureVaultAccount
<1> QED BY <1>1, <1>5, <1>6, <1>7, <1>8, <1>9, SMTT(60) DEF GatewayTest

LEMMA SimpleSplTestInsists == \A i \in 1..3 : Insists(SimpleSplTest[i])
<1>1. Insists([EnsureSplLimit EXCEPT !.shrugs = {"send"}])
  BY DEF Insists, Releases, EnsureSplLimit, Ensure, Step
<1>2. Insists([FundsRouteSpl EXCEPT !.shrugs = {"check"}])
  BY DEF Insists, Releases, FundsRouteSpl, Deposit, Step
<1>3. Insists(NeedVaultAccount)
  BY DEF Insists, Releases, NeedVaultAccount, Step
<1> QED BY <1>1, <1>2, <1>3 DEF SimpleSplTest

LEMMA ScriptsInsist ==
    ASSUME NEW script \in Scripts
    PROVE  /\ Len(script) \in 1..Len(GatewayTest) /\ DOMAIN script = 1..Len(script)
           /\ \A i \in DOMAIN script : Insists(script[i])
<1>1. Len(GatewayTest) = 32 /\ DOMAIN GatewayTest = 1..32
  BY DEF GatewayTest
<1>2. Len(SimpleSplTest) = 3 /\ DOMAIN SimpleSplTest = 1..3
  BY DEF SimpleSplTest
<1>3. CASE script = GatewayTest
  <2>1. 32 \in 1..32 /\ DOMAIN GatewayTest = 1..Len(GatewayTest)
    BY <1>1, SMT
  <2> QED BY <1>1, <1>3, <2>1, GatewayTestInsists, Zenon
<1>4. CASE script = SimpleSplTest
  <2>1. 3 \in 1..32 /\ DOMAIN SimpleSplTest = 1..Len(SimpleSplTest)
    BY <1>2, SMT
  <2> QED BY <1>1, <1>2, <1>4, <2>1, SimpleSplTestInsists, Zenon
<1> QED BY <1>3, <1>4 DEF Scripts

--------------------------------------------------------------------------------
SessionFields == {"at", "script", "step", "number", "key", "saw", "gas", "chain"}

\* A sub_tx_id was used once if its executed_sub_tx account exists, else never.
UsedOnce ==
    /\ releaseCount \in [SolSubTxIds -> Nat]
    /\ \A id \in SolSubTxIds : releaseCount[id] = IF id \in executed THEN 1 ELSE 0

\* Step i of the script of session s released what it was to release, the accounts of done
\* being those of executed messages, or found the vault without tokens, as the steps of empty.
Through(s, i, done, empty) ==
    s.script[i].op \in Releases \ {"revert"} =>
        \/ SessionSubTxId(s.number, i) \in done
        \/ s.script[i] = WithdrawSpl /\ i \in empty

Under ==
    session.at \in Active \cup {"done"} =>
        /\ session.number \in 1..MaxSessions
        /\ session.script \in Scripts
        /\ session.step \in 1..Len(session.script)
        /\ \A i \in 1..Len(session.script) :
               i < session.step => Through(session, i, executed, foundEmpty)
        /\ session.at \in {"check", "done"} =>
               Through(session, session.step, executed, foundEmpty)
        /\ session.at = "done" => session.step = Len(session.script)

SessionInv ==
    /\ UsedOnce
    /\ DOMAIN session = SessionFields /\ session.number \in Nat
    /\ Under

LEMMA ReleasedInv == SessionInv => SuccessMeansReleased
<1> SUFFICES ASSUME SessionInv, session.at = "done", NEW i \in DOMAIN session.script,
                    session.script[i].op \in Releases \ {"revert"},
                    ~(session.script[i] = WithdrawSpl /\ i \in foundEmpty)
             PROVE  releaseCount[SessionSubTxId(session.number, i)] = 1
  BY DEF SuccessMeansReleased
<1>1. /\ session.number \in 1..MaxSessions /\ session.script \in Scripts
      /\ session.step = Len(session.script)
      /\ Through(session, session.step, executed, foundEmpty)
      /\ \A j \in 1..Len(session.script) :
             j < session.step => Through(session, j, executed, foundEmpty)
  BY DEF SessionInv, Under
<1>2. /\ i \in 1..Len(session.script) /\ Len(session.script) \in Nat
      /\ i \in 1..Len(GatewayTest)
  BY <1>1, ScriptsInsist, SMT
<1>3. Through(session, i, executed, foundEmpty)
  BY <1>1, <1>2, SMT
<1>4. SessionSubTxId(session.number, i) \in executed
  BY <1>3 DEF Through
<1>5. SessionSubTxId(session.number, i) \in SolSubTxIds
  BY <1>1, <1>2, SubTxIdAssumption
<1> QED BY <1>4, <1>5 DEF SessionInv, UsedOnce

--------------------------------------------------------------------------------
(* What steps do to the accounts of executed messages. *)

Accounted == UsedOnce' /\ executed \subseteq executed'

LEMMA NothingReleased ==
    ASSUME UsedOnce, UNCHANGED <<executed, releaseCount>> PROVE Accounted
BY DEF UsedOnce, Accounted

LEMMA OneReleased ==
    ASSUME UsedOnce, NEW m, m.subTxId \in SolSubTxIds, Accepted(m), Executes(m)
    PROVE  Accounted /\ m.subTxId \in executed'
<1>1. /\ releaseCount' = [releaseCount EXCEPT ![m.subTxId] = @ + 1]
      /\ executed' = executed \cup {m.subTxId} /\ m.subTxId \notin executed
  BY DEF Executes, Accepted, NotExecuted
<1>2. releaseCount \in [SolSubTxIds -> Nat] /\ releaseCount[m.subTxId] = 0
  BY <1>1 DEF UsedOnce
<1>3. /\ releaseCount' \in [SolSubTxIds -> Nat]
      /\ releaseCount'[m.subTxId] = 1
      /\ \A id \in SolSubTxIds \ {m.subTxId} : releaseCount'[id] = releaseCount[id]
  BY <1>1, <1>2, SMT
<1>4. UsedOnce'
  BY <1>1, <1>3 DEF UsedOnce
<1> QED BY <1>1, <1>4 DEF Accounted

LEMMA ReleaseAccounted ==
    ASSUME UsedOnce, NEW m, NEW relayer, m.subTxId \in SolSubTxIds,
           \/ Withdraw(m, relayer)
           \/ Execute(m, relayer)
           \/ ReturnToUEA(m, relayer)
           \/ Revert(m, relayer)
           \/ Rescue(m, relayer)
    PROVE  Accounted /\ m.subTxId \in executed'
<1>1. Accepted(m) /\ Executes(m)
  BY DEF Withdraw, Execute, ReturnToUEA, Revert, Rescue, Finalizes, Refund
<1> QED BY <1>1, OneReleased

LEMMA DepositAccounted ==
    ASSUME UsedOnce, UNCHANGED releaseVars,
           NEW user, NEW req, NEW native, SendSolUniversalTx(user, req, native)
    PROVE  Accounted
<1>1. UNCHANGED <<executed, releaseCount>>
  BY DEF SendSolUniversalTx, releaseVars
<1> QED BY <1>1, NothingReleased

LEMMA SettingAccounted ==
    ASSUME UsedOnce, UNCHANGED releaseVars,
           NEW x, NEW y,
           \/ SetSolPaused
           \/ SetSolConfig(x)
           \/ SetSolProtocolFee(x)
           \/ SetSlotUsdCap(x)
           \/ SetEpochDuration(x)
           \/ SetTokenRateLimit(x, y)
           \/ SetSolTss(x)
    PROVE  Accounted
<1>1. UNCHANGED <<executed, releaseCount>>
  BY DEF SetSolPaused, SetSolConfig, SetSolProtocolFee, SetSlotUsdCap, SetEpochDuration,
         SetTokenRateLimit, SetSolTss, solMoneyVars, releaseVars
<1> QED BY <1>1, NothingReleased

LEMMA OthersAccounted ==
    ASSUME UsedOnce, Others PROVE Accounted
<1>1. ASSUME NEW key \in AdminKeys, Command(key) PROVE Accounted
  <2>1. CASE \E newAdmin, newPauser \in AdminKeys \cup {NoKey, DEFAULT} :
                 AuthoritySet(key, newAdmin, newPauser)
    BY <2>1, NothingReleased DEF AuthoritySet, allSolVars, solVars, releaseVars
  <2>2. CASE \/ \E new \in TssStates : TssInit(key, new) \/ TssUpdate(key, new)
             \/ Pause(key) \/ Unpause(key)
             \/ \E fee \in ProtocolFees : FeeInit(key, fee)
             \/ \E caps \in SolCaps : CapsSet(key, caps[1], caps[2])
             \/ \E feed \in PriceFeeds : PythSetFeed(key, feed)
             \/ \E threshold \in Confidences : PythSetConf(key, threshold)
             \/ \E cap \in SlotCaps : RateSetBlockUsdCap(key, cap)
             \/ \E seconds \in EpochDurations : RateSetEpoch(key, seconds)
             \/ \E token \in SolTokens, threshold \in TokenLimits :
                    RateSetToken(key, token, threshold)
    BY <2>2, SettingAccounted DEF TssInit, TssUpdate, Pause, Unpause, FeeInit, CapsSet,
       PythSetFeed, PythSetConf, RateSetBlockUsdCap, RateSetEpoch, RateSetToken, programVars
  <2> QED BY <1>1, <2>1, <2>2 DEF Command
<1>2. CASE SolDepositStep /\ UNCHANGED programVars
  BY <1>2, DepositAccounted DEF SolDepositStep, programVars
<1>3. CASE SolChainStep /\ UNCHANGED programVars
  BY <1>3, NothingReleased DEF SolChainStep, NewSlot, PythUpdates, programVars, releaseVars
<1>4. CASE ReleaseStep
  <2>1. PICK m \in Messages, relayer \in Relayers :
            \/ Withdraw(m, relayer)
            \/ Execute(m, relayer)
            \/ ReturnToUEA(m, relayer)
            \/ Revert(m, relayer)
            \/ Rescue(m, relayer)
    BY <1>4 DEF ReleaseStep
  <2>2. m.subTxId \in SolSubTxIds
    BY MessageAssumption DEF MessageType
  <2> QED BY <2>1, <2>2, ReleaseAccounted
<1> QED BY <1>1, <1>2, <1>3, <1>4 DEF Others

--------------------------------------------------------------------------------
(* The steps of the script. *)

LEMMA MessageOfStep ==
    ASSUME NEW step
    PROVE  MessageOf(step).subTxId = SessionSubTxId(session.number, session.step)
BY DEF MessageOf

LEMMA TransactionAccounted ==
    ASSUME UsedOnce, NEW step, Transaction(step),
           SessionSubTxId(session.number, session.step) \in SolSubTxIds
    PROVE  /\ Accounted
           /\ step.op \in Releases => SessionSubTxId(session.number, session.step) \in executed'
<1>1. ASSUME NEW m, m = MessageOf(step), NEW relayer,
             \/ Withdraw(m, relayer)
             \/ Execute(m, relayer)
             \/ ReturnToUEA(m, relayer)
             \/ Revert(m, relayer)
      PROVE  /\ Accounted
             /\ SessionSubTxId(session.number, session.step) \in executed'
  BY <1>1, MessageOfStep, ReleaseAccounted
<1>2. CASE step.op = "withdraw"
  BY <1>1, <1>2 DEF Transaction
<1>3. CASE step.op = "execute"
  BY <1>1, <1>3 DEF Transaction
<1>4. CASE step.op = "return"
  BY <1>1, <1>4 DEF Transaction
<1>5. CASE step.op = "revert"
  BY <1>1, <1>5 DEF Transaction
<1>6. CASE step.op = "ensure"
  <2>1. CASE step.account = "rate_limit_config"
    <3>1. RateSetBlockUsdCap(AdminKey, 0)
      BY <1>6, <2>1 DEF Transaction
    <3> QED BY <1>6, <3>1, SettingAccounted DEF RateSetBlockUsdCap, programVars, Releases
  <2>2. CASE step.account = "tss_pda"
    <3>1. TssInit(AdminKey, HardCodedTss)
      BY <1>6, <2>2 DEF Transaction
    <3> QED BY <1>6, <3>1, SettingAccounted DEF TssInit, programVars, Releases
  <2>3. CASE step.account = "vault_account"
    <3>1. UNCHANGED <<allSolVars, authority>>
      BY <1>6, <2>3 DEF Transaction
    <3> QED BY <1>6, <3>1, NothingReleased DEF allSolVars, solVars, releaseVars, Releases
  <2>4. CASE step.account \notin {"rate_limit_config", "tss_pda", "vault_account"}
    <3>1. RateSetToken(AdminKey, step.account, VeryLarge)
      BY <1>6, <2>4 DEF Transaction
    <3> QED BY <1>6, <3>1, SettingAccounted DEF RateSetToken, programVars, Releases
  <2> QED BY <2>1, <2>2, <2>3, <2>4
<1>7. CASE step.op = "caps"
  <2>1. CapsSet(AdminKey, SessionCaps[1], SessionCaps[2])
    BY <1>7 DEF Transaction
  <2> QED BY <1>7, <2>1, SettingAccounted DEF CapsSet, programVars, Releases
<1>8. CASE step.op \in {"pause", "unpause"}
  <2>1. \/ UNCHANGED <<allSolVars, authority>> \/ Pause(AdminKey) \/ Unpause(AdminKey)
    BY <1>8 DEF Transaction
  <2> QED BY <1>8, <2>1, SettingAccounted, NothingReleased
          DEF Pause, Unpause, programVars, allSolVars, solVars, releaseVars, Releases
<1>9. CASE step.op = "deposit"
  <2>1. DepositOf(step)
    BY <1>9 DEF Transaction
  <2> QED BY <1>9, <2>1, DepositAccounted DEF DepositOf, programVars, Releases
<1>10. CASE step.op = "fund"
  <2>1. UNCHANGED <<executed, releaseCount>>
    BY <1>10 DEF Transaction, programVars, releaseVars
  <2> QED BY <1>10, <2>1, NothingReleased DEF Releases
<1>11. CASE step.op \notin {"ensure", "caps", "pause", "unpause", "deposit", "fund",
                            "withdraw", "execute", "return", "revert"}
  <2>1. UNCHANGED <<allSolVars, authority>>
    BY <1>11 DEF Transaction
  <2> QED BY <1>11, <2>1, NothingReleased DEF allSolVars, solVars, releaseVars, Releases
<1> QED BY <1>2, <1>3, <1>4, <1>5, <1>6, <1>7, <1>8, <1>9, <1>10, <1>11

LEMMA UnexpectedAccounted ==
    ASSUME UsedOnce, NEW step, Unexpected(step) PROVE Accounted
<1>1. CASE DepositOf(step)
  BY <1>1, DepositAccounted DEF DepositOf, programVars
<1>2. CASE UNCHANGED <<allSolVars, authority>>
  BY <1>2, NothingReleased DEF allSolVars, solVars, releaseVars
<1> QED BY <1>1, <1>2 DEF Unexpected

\* What a step of a session, or of somebody else, leaves behind for it.
Kept == Accounted /\ foundEmpty \subseteq foundEmpty'

\* A session that stays on a step, or goes on to the next.
LEMMA Stays ==
    ASSUME SessionInv, Kept, NEW s, session' = s,
           DOMAIN s = SessionFields,
           s.number = session.number,
           s.at \in Active \cup {"done"} =>
               /\ session.at \in Active
               /\ s.script = session.script /\ s.step = session.step
               /\ s.at \in {"look", "send", "check"}
               /\ s.at = "check" => Through(session, session.step, executed', foundEmpty')
    PROVE  SessionInv'
<1>1. session'.number \in Nat /\ UsedOnce'
  BY DEF SessionInv, Accounted, Kept
<1>2. ASSUME session'.at \in Active \cup {"done"} PROVE Under'
  <2>1. Under /\ executed \subseteq executed' /\ foundEmpty \subseteq foundEmpty'
    BY DEF SessionInv, Accounted, Kept
  <2> QED BY <1>2, <2>1 DEF Under, Active, Through
<1> QED BY <1>1, <1>2 DEF SessionInv, Under

LEMMA GoingOn ==
    ASSUME SessionInv, Kept, session.at \in Active,
           Through(session, session.step, executed', foundEmpty'),
           session' = GoOn(session)
    PROVE  SessionInv'
<1>1. /\ DOMAIN session = SessionFields /\ session.number \in Nat
      /\ session.number \in 1..MaxSessions /\ session.script \in Scripts
      /\ session.step \in 1..Len(session.script)
      /\ \A i \in 1..Len(session.script) :
             i < session.step => Through(session, i, executed, foundEmpty)
      /\ UsedOnce' /\ executed \subseteq executed' /\ foundEmpty \subseteq foundEmpty'
  BY DEF SessionInv, Under, Accounted, Kept
<1>2. Len(session.script) \in Nat /\ session.step \in Nat
  BY <1>1, ScriptsInsist, SMT
<1>3. /\ DOMAIN session' = SessionFields
      /\ session'.number = session.number /\ session'.script = session.script
      /\ \/ /\ session.step < Len(session.script)
            /\ session'.at = "look" /\ session'.step = session.step + 1
         \/ /\ ~(session.step < Len(session.script))
            /\ session'.at = "done" /\ session'.step = session.step
  BY <1>1 DEF GoOn, SessionFields
<1>4. \A i \in 1..Len(session.script) :
          i <= session.step => Through(session, i, executed', foundEmpty')
  <2>1. \A i \in 1..Len(session.script) :
            i <= session.step => i < session.step \/ i = session.step
    BY <1>2, SMT
  <2> QED BY <1>1, <2>1 DEF Through
<1>5. \A i \in 1..Len(session.script) :
          i <= session.step => Through(session', i, executed', foundEmpty')
  BY <1>3, <1>4 DEF Through
<1>6. CASE session.step < Len(session.script)
  <2>1. session'.at = "look" /\ session'.step = session.step + 1
    BY <1>3, <1>6
  <2>2. /\ session.step + 1 \in 1..Len(session.script)
        /\ \A i \in 1..Len(session.script) : i < session.step + 1 => i <= session.step
    BY <1>2, <1>6, SMT
  <2> QED BY <1>1, <1>3, <1>5, <2>1, <2>2, Zenon DEF SessionInv, Under
<1>7. CASE ~(session.step < Len(session.script))
  <2>1. session'.at = "done" /\ session'.step = session.step
    BY <1>3, <1>7
  <2>2. /\ session.step = Len(session.script) /\ session.step <= session.step
        /\ \A i \in 1..Len(session.script) : i < session.step => i <= session.step
    BY <1>1, <1>2, <1>7, SMT
  <2> QED BY <1>1, <1>3, <1>5, <2>1, <2>2, Zenon DEF SessionInv, Under
<1> QED BY <1>6, <1>7

LEMMA LookKeeps == ASSUME SessionInv, Look PROVE SessionInv'
<1>1. /\ session.at = "look" /\ session.at \in Active
      /\ UNCHANGED <<executed, releaseCount>> /\ DOMAIN session = SessionFields
      /\ foundEmpty' = IF lamports[CurrentStep.token][VAULT_PDA] = 0
                       THEN foundEmpty \cup {session.step} ELSE foundEmpty
  BY DEF Look, Active, allSolVars, solVars, releaseVars, SessionInv
<1>2. Kept
  BY <1>1, NothingReleased DEF SessionInv, Kept
<1>3. CASE NothingToDo(CurrentStep) /\ session' = GoOn(session)
  <2>1. Through(session, session.step, executed', foundEmpty')
    <3>1. CASE CurrentStep.op = "ensure"
      BY <3>1 DEF Through, CurrentStep, Releases
    <3>2. CASE CurrentStep = WithdrawSpl /\ lamports[SessionMint][VAULT_PDA] = 0
      <4>1. CurrentStep.token = SessionMint
        BY <3>2 DEF WithdrawSpl, Message, Step
      <4> QED BY <1>1, <3>2, <4>1 DEF Through, CurrentStep
    <3> QED BY <1>3, <3>1, <3>2 DEF NothingToDo
  <2> QED BY <1>1, <1>2, <1>3, <2>1, GoingOn
<1>4. CASE ~NothingToDo(CurrentStep)
  <2>1. /\ DOMAIN session' = SessionFields /\ session'.number = session.number
        /\ session'.at = "send" /\ session'.script = session.script
        /\ session'.step = session.step
    BY <1>1, <1>4 DEF Look, SessionFields
  <2> QED BY <1>1, <1>2, <2>1, Stays
<1> QED BY <1>3, <1>4 DEF Look

LEMMA SendKeeps == ASSUME SessionInv, Send PROVE SessionInv'
<1> DEFINE step == session.script[session.step]
<1>1. /\ session.at = "send" /\ session.at \in Active /\ DOMAIN session = SessionFields
      /\ session.number \in 1..MaxSessions /\ session.script \in Scripts
      /\ session.step \in 1..Len(session.script)
  BY DEF Send, Active, SessionInv, Under
<1>2. Len(session.script) \in 1..Len(GatewayTest) /\ Insists(step)
  BY <1>1, ScriptsInsist
<1>3. SessionSubTxId(session.number, session.step) \in SolSubTxIds
  <2>1. session.step \in 1..Len(GatewayTest)
    BY <1>1, <1>2, SMT
  <2> QED BY <1>1, <2>1, SubTxIdAssumption
<1>4. UsedOnce /\ foundEmpty' = foundEmpty
  BY DEF SessionInv, Send, sessionHistory
<1>5. CASE Transaction(step) /\ session' = [session EXCEPT !.at = "check"]
  <2>1. /\ Accounted
        /\ step.op \in Releases =>
               SessionSubTxId(session.number, session.step) \in executed'
    BY <1>3, <1>4, <1>5, TransactionAccounted
  <2>2. Through(session, session.step, executed', foundEmpty')
    BY <2>1 DEF Through
  <2>3. /\ DOMAIN session' = SessionFields /\ session'.number = session.number
        /\ session'.at = "check" /\ session'.script = session.script
        /\ session'.step = session.step
    BY <1>1, <1>5 DEF SessionFields
  <2> QED BY <1>1, <1>4, <2>1, <2>2, <2>3, Stays DEF Kept
<1>6. CASE Unexpected(step) /\ "send" \in step.shrugs /\ session' = GoOn(session)
  <2>1. Accounted
    BY <1>4, <1>6, UnexpectedAccounted
  <2>2. Through(session, session.step, executed', foundEmpty')
    BY <1>2, <1>6 DEF Insists, Through
  <2> QED BY <1>1, <1>4, <1>6, <2>1, <2>2, GoingOn DEF Kept
<1>7. CASE /\ Unexpected(step)
           /\ session' = [session EXCEPT !.at = "failed", !.saw = NothingSeen]
  <2>1. Accounted
    BY <1>4, <1>7, UnexpectedAccounted
  <2>2. /\ DOMAIN session' = SessionFields /\ session'.number = session.number
        /\ session'.at = "failed"
    BY <1>1, <1>7 DEF SessionFields
  <2> QED BY <1>1, <1>4, <2>1, <2>2, Stays DEF Active, Kept
<1> QED BY <1>5, <1>6, <1>7 DEF Send, CurrentStep

LEMMA CheckKeeps == ASSUME SessionInv, Check PROVE SessionInv'
<1>1. /\ session.at = "check" /\ session.at \in Active /\ DOMAIN session = SessionFields
      /\ UNCHANGED <<executed, releaseCount, foundEmpty>>
      /\ Through(session, session.step, executed', foundEmpty')
  BY DEF Check, Active, allSolVars, solVars, releaseVars, sessionHistory, SessionInv, Under
<1>2. Kept
  BY <1>1, NothingReleased DEF SessionInv, Kept
<1>3. CASE session' = GoOn(session)
  BY <1>1, <1>2, <1>3, GoingOn
<1>4. CASE session' = [session EXCEPT !.at = "failed", !.saw = NothingSeen]
  <2>1. /\ DOMAIN session' = SessionFields /\ session'.number = session.number
        /\ session'.at = "failed"
    BY <1>1, <1>4 DEF SessionFields
  <2> QED BY <1>1, <1>2, <2>1, Stays DEF Active
<1> QED BY <1>3, <1>4 DEF Check

LEMMA StartKeeps ==
    ASSUME SessionInv, NEW script \in Scripts, StartSession(script) PROVE SessionInv'
<1>1. /\ DOMAIN session = SessionFields /\ UNCHANGED <<executed, releaseCount>>
      /\ session.number \in Nat /\ session.number < MaxSessions /\ MaxSessions \in Nat
  BY SessionAssumption DEF StartSession, allSolVars, solVars, releaseVars, SessionInv
<1>2. UsedOnce'
  BY <1>1, NothingReleased DEF SessionInv, Accounted
<1>3. /\ DOMAIN session' = SessionFields /\ session'.number = session.number + 1
      /\ session'.at = "look" /\ session'.script = script /\ session'.step = 1
  BY <1>1 DEF StartSession, SessionFields
<1>4. session.number + 1 \in Nat /\ session.number + 1 \in 1..MaxSessions
  BY <1>1, SMT
<1>5. 1 \in 1..Len(script) /\ \A i \in 1..Len(script) : ~(i < 1)
  BY ScriptsInsist, SMT
<1> QED BY <1>2, <1>3, <1>4, <1>5 DEF SessionInv, Under

LEMMA SessionStep_Inv ==
    ASSUME SessionInv,
           [\/ SessionStep
            \/ \E script \in Scripts : StartSession(script)
            \/ SessionDies
            \/ SomebodyElse(Others)]_<<allSolVars, authority, sessionVars>>
    PROVE  SessionInv'
<1>1. CASE SessionStep
  BY <1>1, LookKeeps, SendKeeps, CheckKeeps DEF SessionStep
<1>2. CASE \E script \in Scripts : StartSession(script)
  BY <1>2, StartKeeps
<1>3. CASE SessionDies
  <2>1. /\ DOMAIN session = SessionFields /\ UNCHANGED <<executed, releaseCount, foundEmpty>>
    BY <1>3 DEF SessionDies, allSolVars, solVars, releaseVars, sessionHistory, SessionInv
  <2>2. Kept
    BY <2>1, NothingReleased DEF SessionInv, Kept
  <2>3. /\ DOMAIN session' = SessionFields /\ session'.number = session.number
        /\ session'.at = "off"
    BY <1>3, <2>1 DEF SessionDies, SessionFields
  <2> QED BY <2>2, <2>3, Stays DEF Active
<1>4. CASE UNCHANGED <<session, foundEmpty>> /\ Accounted
  BY <1>4, Zenon DEF SessionInv, Under, Through, Accounted
<1>5. CASE SomebodyElse(Others)
  <2>1. Accounted
    BY <1>5, OthersAccounted DEF SomebodyElse, SessionInv
  <2> QED BY <1>4, <1>5, <2>1 DEF SomebodyElse
<1>6. CASE UNCHANGED <<allSolVars, authority, sessionVars>>
  <2>1. UNCHANGED <<executed, releaseCount, session, foundEmpty>>
    BY <1>6 DEF allSolVars, solVars, releaseVars, sessionVars, sessionHistory
  <2> QED BY <1>4, <2>1, NothingReleased DEF SessionInv
<1> QED BY <1>1, <1>2, <1>3, <1>5, <1>6

LEMMA SessionInit_Inv == AuthorityInit /\ SessionInit => SessionInv
<1> SUFFICES ASSUME AuthorityInit, SessionInit PROVE SessionInv
  OBVIOUS
<1>1. UsedOnce
  BY DEF AuthorityInit, ReleaseInit, SolInit, UsedOnce
<1>2. DOMAIN session = SessionFields /\ session.number = 0 /\ session.at = "off"
  BY DEF SessionInit, SessionFields
<1> QED BY <1>1, <1>2 DEF SessionInv, Under, Active

\* A session of gateway-test.ts or simple-spl-test.ts that ends without an error released every
\* message it was to release, once, whatever users, relayers and operators do between its calls
\* and however often it was killed and started again; but for a withdrawal of tokens that found
\* none in the vault, and for the revert.
THEOREM SessionsReleaseWhatTheyReport == SessionSpec => []SuccessMeansReleased
<1> QED BY SessionInit_Inv, SessionStep_Inv, ReleasedInv, PTL DEF SessionSpec

\* Of the messages of one sub_tx_id, those the scripts sign on their own machine and those of the
\* TSS together, the program lets at most one take effect: executed_sub_tx is looked up whoever
\* signed, and also where an id a script draws is one the TSS has used.
THEOREM SessionsReleaseOnce == SessionSpec => []ReleasedAtMostOnce
<1>1. SessionInv => ReleasedAtMostOnce
  <2> SUFFICES ASSUME SessionInv, NEW id \in SolSubTxIds PROVE releaseCount[id] <= 1
    BY DEF ReleasedAtMostOnce
  <2>1. releaseCount[id] = 0 \/ releaseCount[id] = 1
    BY DEF SessionInv, UsedOnce
  <2> QED BY <2>1
<1> QED BY <1>1, SessionInit_Inv, SessionStep_Inv, PTL DEF SessionSpec

--------------------------------------------------------------------------------
(* The operators' commands. *)

\* A command is one step of the program's administration, or, where it hands over a role, none of
\* its state.
LEMMA CommandRunsTheProgram ==
    ASSUME NEW key \in AdminKeys, Command(key)
    PROVE  (SolAdminStep /\ UNCHANGED releaseVars) \/ UNCHANGED allSolVars
<1>1. ASSUME NEW new \in TssStates, TssInit(key, new) \/ TssUpdate(key, new)
      PROVE  SolAdminStep /\ UNCHANGED releaseVars
  BY <1>1, Zenon DEF TssInit, TssUpdate, SolAdminStep, programVars
<1>2. ASSUME Pause(key) \/ Unpause(key) PROVE SolAdminStep /\ UNCHANGED releaseVars
  BY <1>2, Zenon DEF Pause, Unpause, SolAdminStep, programVars
<1>3. ASSUME NEW newAdmin, NEW newPauser, AuthoritySet(key, newAdmin, newPauser)
      PROVE  UNCHANGED allSolVars
  BY <1>3, Zenon DEF AuthoritySet
<1>4. ASSUME NEW fee \in ProtocolFees, FeeInit(key, fee)
      PROVE  SolAdminStep /\ UNCHANGED releaseVars
  BY <1>4, Zenon DEF FeeInit, SolAdminStep, programVars
<1>5. ASSUME NEW new \in SolConfigs, SetSolConfig(new), UNCHANGED programVars
      PROVE  SolAdminStep /\ UNCHANGED releaseVars
  BY <1>5, Zenon DEF SolAdminStep, programVars
<1>6. ASSUME NEW caps \in SolCaps, CapsSet(key, caps[1], caps[2])
      PROVE  SolAdminStep /\ UNCHANGED releaseVars
  <2>1. [config EXCEPT !.min = caps[1], !.max = caps[2]] \in SolConfigs
    BY Zenon DEF SolConfigs
  <2> QED BY <1>5, <1>6, <2>1, Zenon DEF CapsSet
<1>7. ASSUME NEW feed \in PriceFeeds, PythSetFeed(key, feed)
      PROVE  SolAdminStep /\ UNCHANGED releaseVars
  <2>1. [config EXCEPT !.priceFeed = feed] \in SolConfigs
    BY Zenon DEF SolConfigs
  <2> QED BY <1>5, <1>7, <2>1, Zenon DEF PythSetFeed
<1>8. ASSUME NEW threshold \in Confidences, PythSetConf(key, threshold)
      PROVE  SolAdminStep /\ UNCHANGED releaseVars
  <2>1. [config EXCEPT !.confidence = threshold] \in SolConfigs
    BY Zenon DEF SolConfigs
  <2> QED BY <1>5, <1>8, <2>1, Zenon DEF PythSetConf
<1>9. ASSUME NEW cap \in SlotCaps, RateSetBlockUsdCap(key, cap)
      PROVE  SolAdminStep /\ UNCHANGED releaseVars
  BY <1>9, Zenon DEF RateSetBlockUsdCap, SolAdminStep, programVars
<1>10. ASSUME NEW seconds \in EpochDurations, RateSetEpoch(key, seconds)
       PROVE  SolAdminStep /\ UNCHANGED releaseVars
  BY <1>10, Zenon DEF RateSetEpoch, SolAdminStep, programVars
<1>11. ASSUME NEW token \in SolTokens, NEW threshold \in TokenLimits,
              RateSetToken(key, token, threshold)
       PROVE  SolAdminStep /\ UNCHANGED releaseVars
  BY <1>11, Zenon DEF RateSetToken, SolAdminStep, programVars
<1> QED BY <1>1, <1>2, <1>3, <1>4, <1>6, <1>7, <1>8, <1>9, <1>10, <1>11, Zenon DEF Command

\* Under the commands of config-cli.ts, of any operators, and a role that is handed over any number
\* of times, the program runs as SolSpec says: what holds of it for any administration holds of
\* it as its operators administer it.
THEOREM OperatorsRunTheProgram == OperatedSpec => SolSpec
<1>1. AuthorityInit => ReleaseInit
  BY DEF AuthorityInit
<1>2. ASSUME [Others]_<<allSolVars, authority>> PROVE [SolNext]_allSolVars
  <2>1. CASE \E key \in AdminKeys : Command(key)
    BY <2>1, CommandRunsTheProgram, Zenon DEF SolNext
  <2>2. CASE (SolDepositStep \/ SolChainStep) /\ UNCHANGED programVars
    BY <2>2, Zenon DEF SolNext, programVars
  <2>3. CASE ReleaseStep
    BY <2>3 DEF SolNext
  <2>4. CASE UNCHANGED <<allSolVars, authority>>
    BY <2>4, Zenon
  <2> QED BY <1>2, <2>1, <2>2, <2>3, <2>4, Zenon DEF Others
<1> QED BY <1>1, <1>2, PTL DEF OperatedSpec, SolSpec

--------------------------------------------------------------------------------
(* The capacity search. *)

Measures == [accounts : Nat, data : Nat, size : Nat]

SizingTypeOK ==
    /\ phase \in {"idle", "accounts", "data", "done"} /\ overhead \in Overheads
    /\ left \in Nat /\ right \in Int
    /\ best \in Measures /\ byAccounts \in Measures

\* The instruction data built for a size asked for.
DataFor(d) == 20 + Bigger(d - 20, 0)

InAccounts ==
    /\ MinAccounts <= left /\ left <= right + 1 /\ right <= MaxAccounts
    /\ \/ left = MinAccounts /\ best = NothingFound
       \/ /\ left > MinAccounts
          /\ best.accounts = left - 1 /\ best.data = UsualData
          /\ best.size = TxSize(overhead, best.accounts, best.data) /\ best.size <= LIMIT
    /\ \A n \in MinAccounts..MaxAccounts :
           n > right => TxSize(overhead, n, UsualData) > LIMIT

AccountsKnown ==
    /\ byAccounts.accounts >= MinAccounts /\ byAccounts.data = UsualData
    /\ TxSize(overhead, byAccounts.accounts, UsualData) <= LIMIT
    /\ \A n \in MinAccounts..MaxAccounts :
           n > byAccounts.accounts => TxSize(overhead, n, UsualData) > LIMIT

InData ==
    /\ left <= right + 1 /\ right <= MaxData
    /\ \/ left = 0 /\ best = NothingFound
       \/ /\ left > 0
          /\ best.accounts = byAccounts.accounts /\ best.data = DataFor(left - 1)
          /\ best.size = TxSize(overhead, best.accounts, best.data) /\ best.size <= LIMIT
    /\ \A d \in 0..MaxData :
           d > right => TxSize(overhead, byAccounts.accounts, DataFor(d)) > LIMIT

SizingInv ==
    /\ SizingTypeOK
    /\ phase \in {"idle", "accounts"} => InAccounts
    /\ phase = "data" => AccountsKnown /\ InData
    /\ ReportsTheCapacity

--------------------------------------------------------------------------------
\* A transaction does not shrink when accounts or data are added, and the one with the fewest
\* accounts fits.
LEMMA TxSizeGrows ==
    ASSUME NEW o \in Nat, NEW m \in Nat, NEW n \in Nat, m <= n,
           NEW d \in Nat, NEW e \in Nat, d <= e
    PROVE  TxSize(o, m, d) \in Nat /\ TxSize(o, m, d) <= TxSize(o, n, e)
<1>1. (m + 7) \div 8 \in Nat /\ (m + 7) \div 8 <= (n + 7) \div 8
  BY SMT
<1> QED BY <1>1, SMT DEF TxSize

LEMMA FewestFit ==
    ASSUME NEW o \in Overheads
    PROVE  TxSize(o, MinAccounts, UsualData) <= LIMIT
<1>1. o \in Nat /\ MinAccounts \in Nat /\ MinAccounts >= 2 /\ UsualData \in Nat /\ LIMIT \in Nat
  BY SizingAssumption
<1>2. o + 34 * MinAccounts + UsualData <= LIMIT
  BY SizingAssumption
<1>3. (MinAccounts + 7) \div 8 \in Nat /\ (MinAccounts + 7) \div 8 <= MinAccounts
  BY <1>1, SMT
<1> QED BY <1>1, <1>2, <1>3, SMT DEF TxSize

\* What is measured is what was asked for, from two accounts and 20 bytes of data on.
LEMMA Measured ==
    ASSUME overhead \in Nat, NEW n \in Nat, 2 <= n, NEW d \in Nat
    PROVE  /\ DataFor(d) \in Nat /\ 20 <= DataFor(d) /\ (20 <= d => DataFor(d) = d)
           /\ BuildAndMeasureTxSize(n, d) =
                  [accounts |-> n, data |-> DataFor(d), size |-> TxSize(overhead, n, DataFor(d))]
           /\ BuildAndMeasureTxSize(n, d) \in Measures
<1>1. DataFor(d) \in Nat /\ 20 <= DataFor(d) /\ (20 <= d => DataFor(d) = d)
  BY SMT DEF DataFor, Bigger
<1>2. 2 + Bigger(n - 2, 0) = n
  BY SMT DEF Bigger
<1>3. TxSize(overhead, n, DataFor(d)) \in Nat
  <2>1. n <= n /\ DataFor(d) <= DataFor(d)
    BY <1>1, SMT
  <2> QED BY <1>1, <2>1, TxSizeGrows
<1>4. BuildAndMeasureTxSize(n, d) =
          [accounts |-> n, data |-> DataFor(d), size |-> TxSize(overhead, n, DataFor(d))]
  BY <1>2 DEF BuildAndMeasureTxSize, DataFor
<1> QED BY <1>1, <1>3, <1>4 DEF Measures

LEMMA DataForGrows ==
    ASSUME NEW d \in Nat, NEW e \in Nat, d <= e
    PROVE  DataFor(d) <= DataFor(e)
BY SMT DEF DataFor, Bigger

--------------------------------------------------------------------------------
LEMMA SizingInit_Inv == SizingInit => SizingInv
<1> SUFFICES ASSUME SizingInit PROVE SizingInv
  OBVIOUS
<1>1. SizingTypeOK
  BY SizingAssumption DEF SizingInit, SizingTypeOK, NothingFound, Measures
<1>2. InAccounts
  BY SizingAssumption, SMT DEF SizingInit, InAccounts
<1>3. phase # "data" /\ phase # "done"
  BY DEF SizingInit
<1>4. ReportsTheCapacity
  BY <1>3 DEF ReportsTheCapacity
<1> QED BY <1>1, <1>2, <1>3, <1>4 DEF SizingInv

LEMMA FindMaxTargetAccounts_Inv ==
    ASSUME SizingInv, FindMaxTargetAccounts PROVE SizingInv'
<1> DEFINE mid == (left + right) \div 2
           m == BuildAndMeasureTxSize(mid, UsualData)
<1>1. /\ phase = "accounts" /\ InAccounts /\ SizingTypeOK /\ left <= right
      /\ UNCHANGED <<phase, overhead, byAccounts>>
  BY DEF SizingInv, FindMaxTargetAccounts, Probe
<1>2. /\ left \in Nat /\ right \in Int /\ overhead \in Nat
      /\ MinAccounts \in Nat /\ 2 <= MinAccounts /\ MaxAccounts \in Nat
      /\ UsualData \in Nat /\ 20 <= UsualData /\ LIMIT \in Nat
  BY <1>1, SizingAssumption DEF SizingTypeOK
<1>3. mid \in Nat /\ left <= mid /\ mid <= right /\ MinAccounts <= mid /\ mid <= MaxAccounts
  BY <1>1, <1>2, SMT DEF InAccounts
<1>4. /\ DataFor(UsualData) = UsualData
      /\ m = [accounts |-> mid, data |-> UsualData, size |-> TxSize(overhead, mid, UsualData)]
      /\ m \in Measures
  <2>1. 2 <= mid
    BY <1>2, <1>3, SMT
  <2> QED BY <1>2, <1>3, <2>1, Measured
<1>5. CASE m.size <= LIMIT
  <2>1. best' = m /\ left' = mid + 1 /\ right' = right
    BY <1>5 DEF FindMaxTargetAccounts, Probe, Fits, Middle
  <2> HIDE DEF mid, m
  <2>2. SizingTypeOK'
    BY <1>1, <1>3, <1>4, <2>1, SMT DEF SizingTypeOK
  <2>3. m.accounts = mid /\ m.data = UsualData /\ m.size = TxSize(overhead, mid, UsualData)
    BY <1>4
  <2>4. InAccounts'
    BY <1>1, <1>2, <1>3, <1>5, <2>1, <2>3, SMT DEF InAccounts, TxSize
  <2> QED BY <1>1, <2>2, <2>4 DEF SizingInv, ReportsTheCapacity
<1>6. CASE ~(m.size <= LIMIT)
  <2>1. right' = mid - 1 /\ left' = left /\ best' = best
    BY <1>6 DEF FindMaxTargetAccounts, Probe, Fits, Middle
  <2>2. TxSize(overhead, mid, UsualData) > LIMIT
    <3>1. TxSize(overhead, mid, UsualData) \in Nat
      BY <1>2, <1>3, TxSizeGrows
    <3> QED BY <1>2, <1>4, <1>6, <3>1, SMT
  <2> HIDE DEF mid, m
  <2>3. ASSUME NEW n \in MinAccounts..MaxAccounts, n > mid - 1
        PROVE  TxSize(overhead, n, UsualData) > LIMIT
    <3>1. n \in Nat /\ mid <= n
      BY <1>2, <1>3, <2>3, SMT
    <3>2. /\ TxSize(overhead, mid, UsualData) \in Nat /\ TxSize(overhead, n, UsualData) \in Nat
          /\ TxSize(overhead, mid, UsualData) <= TxSize(overhead, n, UsualData)
      BY <1>2, <1>3, <3>1, TxSizeGrows
    <3> QED BY <1>2, <2>2, <3>2, SMT
  <2>4. SizingTypeOK'
    BY <1>1, <1>3, <2>1, SMT DEF SizingTypeOK
  <2>5. InAccounts'
    <3>1. MinAccounts <= left' /\ left' <= right' + 1 /\ right' <= MaxAccounts
      BY <1>1, <1>2, <1>3, <2>1, SMT DEF InAccounts
    <3>2. \A n \in MinAccounts..MaxAccounts : n > right' => TxSize(overhead', n, UsualData) > LIMIT
      BY <1>1, <2>1, <2>3
    <3> QED BY <1>1, <2>1, <3>1, <3>2 DEF InAccounts, TxSize
  <2> QED BY <1>1, <2>4, <2>5 DEF SizingInv, ReportsTheCapacity
<1> QED BY <1>5, <1>6

LEMMA FindMaxIxDataSize_Inv ==
    ASSUME SizingInv, FindMaxIxDataSize PROVE SizingInv'
<1> DEFINE mid == (left + right) \div 2
           accounts == byAccounts.accounts
           m == BuildAndMeasureTxSize(accounts, mid)
<1>1. /\ phase = "data" /\ AccountsKnown /\ InData /\ SizingTypeOK /\ left <= right
      /\ UNCHANGED <<phase, overhead, byAccounts>>
  BY DEF SizingInv, FindMaxIxDataSize, Probe
<1>2. /\ left \in Nat /\ right \in Int /\ overhead \in Nat /\ accounts \in Nat
      /\ MinAccounts \in Nat /\ 2 <= MinAccounts /\ MaxData \in Nat /\ LIMIT \in Nat
  BY <1>1, SizingAssumption DEF SizingTypeOK, Measures
<1>3. mid \in Nat /\ left <= mid /\ mid <= right /\ mid <= MaxData
  BY <1>1, <1>2, SMT DEF InData
<1>4. 2 <= accounts
  BY <1>1, <1>2, SMT DEF AccountsKnown
<1>5. /\ DataFor(mid) \in Nat
      /\ m = [accounts |-> accounts, data |-> DataFor(mid),
              size |-> TxSize(overhead, accounts, DataFor(mid))]
      /\ m \in Measures
  BY <1>2, <1>3, <1>4, Measured
<1>6. AccountsKnown'
  BY <1>1 DEF AccountsKnown, TxSize
<1>7. CASE m.size <= LIMIT
  <2>1. best' = m /\ left' = mid + 1 /\ right' = right
    BY <1>7 DEF FindMaxIxDataSize, Probe, Fits, Middle
  <2>2. /\ m.accounts = accounts /\ m.data = DataFor(mid)
        /\ m.size = TxSize(overhead, accounts, DataFor(mid))
    BY <1>5
  <2> HIDE DEF mid, m
  <2>3. SizingTypeOK'
    BY <1>1, <1>3, <1>5, <2>1, SMT DEF SizingTypeOK
  <2>4. left' - 1 = mid /\ left' > 0 /\ left' <= right' + 1 /\ right' <= MaxData
    BY <1>1, <1>2, <1>3, <2>1, SMT DEF InData
  <2>5. /\ best'.accounts = byAccounts'.accounts /\ best'.data = DataFor(left' - 1)
        /\ best'.size = TxSize(overhead', best'.accounts, best'.data) /\ best'.size <= LIMIT
    BY <1>1, <1>7, <2>1, <2>2, <2>4
  <2>6. \A d \in 0..MaxData :
            d > right' => TxSize(overhead', byAccounts'.accounts, DataFor(d)) > LIMIT
    BY <1>1, <2>1 DEF InData
  <2>7. InData'
    BY <2>4, <2>5, <2>6 DEF InData, TxSize, DataFor, Bigger
  <2> QED BY <1>1, <1>6, <2>3, <2>7 DEF SizingInv, ReportsTheCapacity
<1>8. CASE ~(m.size <= LIMIT)
  <2>1. right' = mid - 1 /\ left' = left /\ best' = best
    BY <1>8 DEF FindMaxIxDataSize, Probe, Fits, Middle
  <2>2. TxSize(overhead, accounts, DataFor(mid)) > LIMIT
    <3> HIDE DEF mid, accounts
    <3>0. accounts <= accounts /\ DataFor(mid) <= DataFor(mid)
      BY <1>2, <1>5, SMT
    <3>1. TxSize(overhead, accounts, DataFor(mid)) \in Nat
      BY <1>2, <1>5, <3>0, TxSizeGrows
    <3> QED BY <1>2, <1>5, <1>8, <3>1, SMT
  <2> HIDE DEF mid, m
  <2>3. ASSUME NEW d \in 0..MaxData, d > mid - 1
        PROVE  TxSize(overhead, accounts, DataFor(d)) > LIMIT
    <3>1. d \in Nat /\ mid <= d
      BY <1>2, <1>3, <2>3, SMT
    <3>2. DataFor(d) \in Nat /\ DataFor(mid) <= DataFor(d)
      BY <1>2, <1>3, <1>4, <3>1, DataForGrows, Measured
    <3>3. /\ TxSize(overhead, accounts, DataFor(mid)) \in Nat
          /\ TxSize(overhead, accounts, DataFor(d)) \in Nat
          /\ TxSize(overhead, accounts, DataFor(mid)) <= TxSize(overhead, accounts, DataFor(d))
      <4> HIDE DEF accounts
      <4>1. accounts <= accounts /\ DataFor(d) <= DataFor(d)
        BY <1>2, <3>2, SMT
      <4> QED BY <1>2, <1>5, <3>2, <4>1, TxSizeGrows
    <3> QED BY <1>2, <2>2, <3>3, SMT
  <2>4. SizingTypeOK'
    BY <1>1, <1>3, <2>1, SMT DEF SizingTypeOK
  <2>5. left' <= right' + 1 /\ right' <= MaxData
    BY <1>2, <1>3, <2>1, SMT
  <2>6. \A d \in 0..MaxData :
            d > right' => TxSize(overhead', byAccounts'.accounts, DataFor(d)) > LIMIT
    BY <1>1, <2>1, <2>3
  <2>7. InData'
    BY <1>1, <2>1, <2>5, <2>6 DEF InData, TxSize, DataFor, Bigger
  <2> QED BY <1>1, <1>6, <2>4, <2>7 DEF SizingInv, ReportsTheCapacity
<1> QED BY <1>7, <1>8

LEMMA ThenData_Inv ==
    ASSUME SizingInv, ThenData PROVE SizingInv'
<1>1. /\ InAccounts /\ SizingTypeOK /\ left > right
      /\ phase' = "data" /\ byAccounts' = best /\ left' = 0 /\ right' = MaxData
      /\ best' = NothingFound /\ overhead' = overhead
  BY DEF SizingInv, ThenData
<1>2. /\ left \in Nat /\ right \in Int /\ overhead \in Overheads /\ overhead \in Nat
      /\ MinAccounts \in Nat /\ MaxAccounts \in Nat /\ MinAccounts <= MaxAccounts
      /\ UsualData \in Nat /\ LIMIT \in Nat /\ MaxData \in Nat /\ best \in Measures
  BY <1>1, SizingAssumption DEF SizingTypeOK
<1>3. left = right + 1
  BY <1>1, <1>2, SMT DEF InAccounts
<1>4. left > MinAccounts
  <2>1. TxSize(overhead, MinAccounts, UsualData) \in Nat
    BY <1>2, TxSizeGrows
  <2>2. TxSize(overhead, MinAccounts, UsualData) <= LIMIT
    BY <1>2, FewestFit
  <2>3. MinAccounts \in MinAccounts..MaxAccounts
    BY <1>2, SMT
  <2>4. ~(MinAccounts > right)
    BY <1>1, <1>2, <2>1, <2>2, <2>3, SMT DEF InAccounts
  <2> QED BY <1>2, <1>3, <2>4, SMT
<1>5. /\ best.accounts = left - 1 /\ best.data = UsualData
      /\ best.size = TxSize(overhead, best.accounts, best.data) /\ best.size <= LIMIT
  BY <1>1, <1>2, <1>4, SMT DEF InAccounts
<1>6. best.accounts = right /\ best.accounts >= MinAccounts
  BY <1>2, <1>3, <1>4, <1>5, SMT
<1>7. AccountsKnown'
  BY <1>1, <1>5, <1>6 DEF InAccounts, AccountsKnown, TxSize
<1>8. InData'
  BY <1>1, <1>2, SMT DEF InData, DataFor, Bigger
<1>9. SizingTypeOK'
  BY <1>1, <1>2 DEF SizingTypeOK, NothingFound, Measures
<1> QED BY <1>1, <1>7, <1>8, <1>9 DEF SizingInv, ReportsTheCapacity

LEMMA Finish_Inv ==
    ASSUME SizingInv, Finish PROVE SizingInv'
<1>1. /\ AccountsKnown /\ InData /\ SizingTypeOK /\ left > right /\ phase' = "done"
      /\ best' = (IF Fits(best.size) THEN best ELSE byAccounts)
      /\ UNCHANGED <<overhead, left, right, byAccounts>>
  BY DEF SizingInv, Finish
<1>2. /\ left \in Nat /\ right \in Int /\ overhead \in Nat /\ byAccounts \in Measures
      /\ best \in Measures /\ byAccounts.accounts \in Nat /\ MinAccounts \in Nat
      /\ 2 <= MinAccounts /\ UsualData \in Nat /\ 20 <= UsualData /\ LIMIT \in Nat
      /\ MaxData \in Nat
  BY <1>1, SizingAssumption DEF SizingTypeOK, Measures
<1>3. left = right + 1
  BY <1>1, <1>2, SMT DEF InData
<1>4. left > 0
  <2>1. 0 \in 0..MaxData
    BY <1>2, SMT
  <2>2. DataFor(0) = 20
    BY SMT DEF DataFor, Bigger
  <2>3. /\ TxSize(overhead, byAccounts.accounts, 20) \in Nat
        /\ TxSize(overhead, byAccounts.accounts, UsualData) \in Nat
        /\ TxSize(overhead, byAccounts.accounts, 20) <=
               TxSize(overhead, byAccounts.accounts, UsualData)
    BY <1>2, TxSizeGrows
  <2>4. TxSize(overhead, byAccounts.accounts, UsualData) <= LIMIT
    BY <1>1 DEF AccountsKnown
  <2>5. 0 > right => TxSize(overhead, byAccounts.accounts, 20) > LIMIT
    BY <1>1, <2>1, <2>2 DEF InData
  <2>6. ~(0 > right)
    BY <1>2, <2>3, <2>4, <2>5, SMT
  <2> QED BY <1>2, <1>3, <2>6, SMT
<1>5. /\ best.accounts = byAccounts.accounts /\ best.data = DataFor(left - 1)
      /\ best.size = TxSize(overhead, best.accounts, best.data) /\ best.size <= LIMIT
  BY <1>1, <1>2, <1>4, SMT DEF InData
<1>6. best' = best
  BY <1>1, <1>5 DEF Fits
<1>7. ASSUME NEW d \in 20..MaxData, d > best.data
      PROVE  TxSize(overhead, best.accounts, d) > LIMIT
  <2>1. d \in 0..MaxData /\ DataFor(d) = d
    BY <1>2, SMT DEF DataFor, Bigger
  <2>2. d > right
    BY <1>2, <1>3, <1>4, <1>5, <1>7, SMT DEF DataFor, Bigger
  <2>3. TxSize(overhead, byAccounts.accounts, DataFor(d)) > LIMIT
    BY <1>1, <2>1, <2>2 DEF InData
  <2> QED BY <1>5, <2>1, <2>3
<1>8. ReportsTheCapacity'
  <2>1. TxSize(overhead', best'.accounts, best'.data) <= LIMIT
    BY <1>1, <1>5, <1>6
  <2>2. \A n \in MinAccounts..MaxAccounts :
            n > best'.accounts => TxSize(overhead', n, UsualData) > LIMIT
    BY <1>1, <1>5, <1>6 DEF AccountsKnown
  <2>3. \A d \in 20..MaxData :
            d > best'.data => TxSize(overhead', best'.accounts, d) > LIMIT
    BY <1>1, <1>6, <1>7
  <2> QED BY <2>1, <2>2, <2>3 DEF ReportsTheCapacity, TxSize
<1>9. SizingTypeOK'
  BY <1>1, <1>2, <1>6 DEF SizingTypeOK
<1> QED BY <1>1, <1>8, <1>9 DEF SizingInv

LEMMA SizingStep_Inv ==
    ASSUME SizingInv, [SizingNext]_sizingVars PROVE SizingInv'
<1>1. CASE StartSearch
  BY <1>1 DEF SizingInv, StartSearch, SizingTypeOK, InAccounts, ReportsTheCapacity, TxSize,
              NothingFound
<1>2. CASE SearchStep
  BY <1>2, FindMaxTargetAccounts_Inv, FindMaxIxDataSize_Inv, ThenData_Inv, Finish_Inv
     DEF SearchStep
<1>3. CASE UNCHANGED sizingVars
  BY <1>3 DEF sizingVars, SizingInv, SizingTypeOK, InAccounts, AccountsKnown, InData,
              ReportsTheCapacity, TxSize, NothingFound, DataFor, Bigger
<1> QED BY <1>1, <1>2, <1>3 DEF SizingNext

\* findMaxTargetAccounts and findMaxIxDataSize of gateway-test.ts report, for every overhead,
\* limit and range searched, a transaction that fits and beside which none larger does.
THEOREM CapacityReported == SizingSpec => []ReportsTheCapacity
<1>1. SizingInv => ReportsTheCapacity
  BY DEF SizingInv
<1> QED BY <1>1, SizingInit_Inv, SizingStep_Inv, PTL DEF SizingSpec

--------------------------------------------------------------------------------
(* Numbers in the byte formats. *)

\* The place values are the powers of 256.
LEMMA PlaceValues ==
    /\ PlaceValue[0] = 1
    /\ \A n \in Nat : /\ PlaceValue[n] \in Nat \ {0}
                      /\ PlaceValue[n + 1] = 256 * PlaceValue[n]
<1> DEFINE S == Nat \ {0}
           step == [p \in Nat \X S |-> 256 * p[2]]
           Powers(f) == f = [n \in Nat |-> IF n = 0 THEN 1 ELSE 256 * f[n - 1]]
<1>1. \A n \in Nat, x \in S : step[<<n, x>>] = 256 * x /\ step[<<n, x>>] \in S
  BY SMT
<1>2. 1 \in S
  BY SMT
<1> HIDE DEF step, S
<1>3. PICK f : Recursion(f, S, 1, step)
  BY <1>1, <1>2, RecursionExists
<1>4. ASSUME NEW n \in Nat PROVE f[n] = IF n = 0 THEN 1 ELSE 256 * f[n - 1]
  <2>1. CASE n # 0
    <3>1. n - 1 \in Nat /\ (n - 1) + 1 = n
      BY <2>1, SMT
    <3>2. f[n] = step[<<n - 1, f[n - 1]>>] /\ f[n - 1] \in S
      BY <1>3, <3>1 DEF Recursion
    <3> QED BY <1>1, <2>1, <3>1, <3>2
  <2> QED BY <1>3, <2>1 DEF Recursion
<1>5. Powers(f)
  BY <1>3, <1>4 DEF Recursion
<1>6. PlaceValue = CHOOSE g : Powers(g)
  BY DEF PlaceValue
<1>7. Powers(PlaceValue)
  BY <1>5, <1>6
<1> HIDE DEF Powers
<1>8. \A n \in Nat : PlaceValue[n] = IF n = 0 THEN 1 ELSE 256 * PlaceValue[n - 1]
  BY <1>7 DEF Powers
<1>9. PlaceValue[0] = 1
  BY <1>8
<1>10. \A n \in Nat : PlaceValue[n + 1] = 256 * PlaceValue[n]
  BY <1>8, SMT
<1> DEFINE P == {n \in Nat : PlaceValue[n] \in Nat \ {0}}
<1>11. 0 \in P
  BY <1>9
<1>12. ASSUME NEW n \in Nat, n \in P PROVE n + 1 \in P
  BY <1>10, <1>12, SMT
<1> HIDE DEF P
<1>13. \A n \in Nat : n \in P
  BY <1>11, <1>12, EveryNat
<1> QED BY <1>9, <1>10, <1>13 DEF P

\* A function on 1..n is a sequence.
LEMMA FunctionIsSeq ==
    ASSUME NEW S, NEW n \in Nat, NEW f \in [1 .. n -> S]
    PROVE  f \in Seq(S) /\ Len(f) = n /\ DOMAIN f = 1 .. n
BY SMT

\* readUInt32BE after writeUInt32BE.
LEMMA BigEndianReadsBack ==
    ASSUME NEW n \in Nat, NEW w \in Nat, n < PlaceValue[w]
    PROVE  /\ BigEndian(n, w) \in Seq(Byte) /\ Len(BigEndian(n, w)) = w
           /\ DOMAIN BigEndian(n, w) = 1 .. w
           /\ ReadBigEndian(BigEndian(n, w)) = n
<1> DEFINE bytes == BigEndian(n, w)
           f == [i \in 1 .. w |-> bytes[i] * PlaceValue[w - i]]
           D(k) == w - k + 1 .. w
           P == {k \in Nat : k <= w => SumOver(f, D(k)) = n % PlaceValue[k]}
<1>1. \A i \in 1 .. w : w - i \in Nat
  BY SMT
<1>2. \A i \in 1 .. w : /\ bytes[i] = (n \div PlaceValue[w - i]) % 256
                        /\ bytes[i] \in Byte
  <2> SUFFICES ASSUME NEW i \in 1 .. w
               PROVE  bytes[i] = (n \div PlaceValue[w - i]) % 256 /\ bytes[i] \in Byte
    OBVIOUS
  <2>1. bytes[i] = (n \div PlaceValue[w - i]) % 256
    BY DEF BigEndian
  <2>2. n \div PlaceValue[w - i] \in Nat
    BY <1>1, PlaceValues, Division
  <2>3. (n \div PlaceValue[w - i]) % 256 \in Byte
    BY <2>2, SMT DEF Byte
  <2> QED BY <2>1, <2>3
<1>3. bytes \in [1 .. w -> Byte]
  BY <1>2 DEF BigEndian
<1>4. bytes \in Seq(Byte) /\ Len(bytes) = w /\ DOMAIN bytes = 1 .. w
  BY <1>3, FunctionIsSeq
<1> HIDE DEF bytes
<1>5. \A i \in 1 .. w : f[i] = bytes[i] * PlaceValue[w - i] /\ f[i] \in Int
  BY <1>1, <1>2, PlaceValues, SMT DEF Byte
<1>6. ReadBigEndian(bytes) = SumOver(f, 1 .. w)
  BY <1>4, SumFunctionIsSumOver DEF ReadBigEndian, SumFunction
<1> HIDE DEF f
<1>7. 0 \in P
  <2>1. D(0) = {} /\ IsFiniteSet(D(0))
    BY FS_EmptySet, SMT
  <2> HIDE DEF D
  <2>2. SumOver(f, D(0)) = 0
    <3>1. \A a \in D(0) : f[a] \in Int
      BY <2>1
    <3> QED BY <2>1, <3>1, SumOfElement
  <2>3. n % PlaceValue[0] = 0
    <3>1. PlaceValue[0] = 1
      BY PlaceValues
    <3>2. n % 1 = 0
      BY SMT
    <3> QED BY <3>1, <3>2
  <2> QED BY <2>2, <2>3
<1>8. ASSUME NEW k \in Nat, k \in P PROVE k + 1 \in P
  <2> SUFFICES ASSUME k + 1 <= w PROVE SumOver(f, D(k + 1)) = n % PlaceValue[k + 1]
    BY SMT
  <2> DEFINE x == w - k
  <2>1. /\ x \in D(k + 1) /\ D(k + 1) \ {x} = D(k) /\ D(k + 1) \subseteq 1 .. w
        /\ x \in 1 .. w /\ w - x = k /\ k <= w
    BY SMT
  <2>2. IsFiniteSet(D(k + 1))
    BY FS_Interval, SMT
  <2>3. SumOver(f, D(k + 1)) = f[x] + SumOver(f, D(k))
    <3> DEFINE T == D(k + 1)
    <3>1. \A i \in T : f[i] \in Int
      BY <1>5, <2>1
    <3>2. IsFiniteSet(T) /\ x \in T /\ T \ {x} = D(k)
      BY <2>1, <2>2
    <3> HIDE DEF T, D
    <3>3. SumOver(f, T) = f[x] + SumOver(f, T \ {x})
      BY <3>1, <3>2, SumOfElement
    <3> QED BY <3>2, <3>3 DEF T
  <2>4. SumOver(f, D(k)) = n % PlaceValue[k]
    BY <1>8, <2>1
  <2>5. f[x] = ((n \div PlaceValue[k]) % 256) * PlaceValue[k]
    BY <1>2, <1>5, <2>1
  <2> DEFINE d == PlaceValue[k]
  <2>6. d \in Nat /\ d # 0 /\ PlaceValue[k + 1] = 256 * d
    BY PlaceValues
  <2> HIDE DEF d, x, D
  <2>7. n % (256 * d) = (n % d) + ((n \div d) % 256) * d
    BY <2>6, NextDigit
  <2>8. n \div d \in Nat /\ n % d \in Nat
    BY <2>6, Division
  <2>9. ((n \div d) % 256) * d \in Int
    BY <2>6, <2>8, SMT
  <2> DEFINE a == n % d
             b == ((n \div d) % 256) * d
  <2>10. a \in Int /\ b \in Int /\ n % PlaceValue[k + 1] = a + b
    BY <2>6, <2>7, <2>8, <2>9
  <2>11. SumOver(f, D(k + 1)) = b + a
    BY <2>3, <2>4, <2>5 DEF d
  <2> HIDE DEF a, b
  <2> QED BY <2>10, <2>11, SMT
<1> HIDE DEF P
<1>9. \A k \in Nat : k \in P
  BY <1>7, <1>8, EveryNat
<1>10. SumOver(f, D(w)) = n % PlaceValue[w]
  BY <1>9, SMT DEF P
<1>11. D(w) = 1 .. w
  BY SMT
<1>12. n % PlaceValue[w] = n
  BY PlaceValues, RemainderOfSmall
<1> QED BY <1>4, <1>6, <1>10, <1>11, <1>12 DEF bytes

\* A number and its bytes in the other order.
LEMMA ReversedTwice ==
    ASSUME NEW S, NEW s \in Seq(S)
    PROVE  /\ Reverse(s) \in Seq(S) /\ Len(Reverse(s)) = Len(s)
           /\ Reverse(Reverse(s)) = s
<1> DEFINE n == Len(s)
           r == Reverse(s)
<1>1. n \in Nat /\ s \in [1 .. n -> S]
  BY LenProperties
<1> HIDE DEF n
<1>2. r = [i \in 1 .. n |-> s[(n - i) + 1]]
  BY DEF n, Reverse
<1>3. \A i \in 1 .. n : (n - i) + 1 \in 1 .. n /\ (n - ((n - i) + 1)) + 1 = i
  BY <1>1, SMT
<1>4. r \in [1 .. n -> S]
  BY <1>1, <1>2, <1>3
<1>5. r \in Seq(S) /\ Len(r) = n
  BY <1>1, <1>4, FunctionIsSeq
<1> HIDE DEF r
<1>6. Reverse(r) = [i \in 1 .. n |-> r[(n - i) + 1]]
  BY <1>5 DEF Reverse
<1>7. \A i \in 1 .. n : r[(n - i) + 1] = s[i]
  BY <1>2, <1>3
<1>8. Reverse(r) = [i \in 1 .. n |-> s[i]]
  BY <1>6, <1>7
<1>9. Reverse(r) = s
  BY <1>1, <1>8
<1> QED BY <1>5, <1>9 DEF r, n

LEMMA LittleEndianReadsBack ==
    ASSUME NEW n \in Nat, NEW w \in Nat, n < PlaceValue[w]
    PROVE  /\ LittleEndian(n, w) \in Seq(Byte) /\ Len(LittleEndian(n, w)) = w
           /\ ReadLittleEndian(LittleEndian(n, w)) = n
<1>1. /\ BigEndian(n, w) \in Seq(Byte) /\ Len(BigEndian(n, w)) = w
      /\ ReadBigEndian(BigEndian(n, w)) = n
  BY BigEndianReadsBack
<1>2. Reverse(Reverse(BigEndian(n, w))) = BigEndian(n, w)
  BY <1>1, ReversedTwice
<1>3. LittleEndian(n, w) \in Seq(Byte) /\ Len(LittleEndian(n, w)) = w
  BY <1>1, ReversedTwice DEF LittleEndian
<1>4. ReadLittleEndian(LittleEndian(n, w)) = n
  BY <1>1, <1>2 DEF LittleEndian, ReadLittleEndian
<1> QED BY <1>3, <1>4

LEMMA FourBytes ==
    ASSUME NEW n \in Nat, IsU32(n) PROVE n < PlaceValue[4]
<1> DEFINE d == PlaceValue[3]
<1>1. d \in Nat /\ d # 0 /\ PlaceValue[4] = 256 * d
  <2>1. 3 \in Nat /\ 3 + 1 = 4
    BY SMT
  <2> QED BY <2>1, PlaceValues
<1> HIDE DEF d
<1>2. n \div d \in Nat /\ n % d < d /\ n % d \in Nat /\ n = d * (n \div d) + (n % d)
  BY <1>1, Division
<1>3. n \div d <= 255
  BY <1>2, SMT DEF IsU32, d
<1> DEFINE q == n \div d
           r == n % d
<1> HIDE DEF q, r
<1>4. q \in Nat /\ q <= 255 /\ r \in Nat /\ r < d /\ n = d * q + r
  BY <1>2, <1>3 DEF q, r
<1>5. PICK k \in Nat : 255 = q + k
  <2>1. 255 - q \in Nat /\ 255 = q + (255 - q)
    BY <1>4, SMT
  <2> QED BY <2>1
<1>6. 255 * d = d * q + d * k /\ d * k \in Nat
  BY <1>1, <1>4, <1>5, SMT
<1> QED BY <1>1, <1>4, <1>6, SMT

\* The elements of part are in s, from the one at offset m on, as buf.slice counts.
Holds(s, m, part) == \A i \in 1 .. Len(part) : s[m + i] = part[i]

LEMMA PartAtStart == \A s : Holds(s, 0, s)
BY SMT DEF Holds

LEMMA PartAtEnd ==
    ASSUME NEW S, NEW a \in Seq(S), NEW b \in Seq(S)
    PROVE  Holds(a \o b, Len(a), b)
<1>1. Len(a) \in Nat /\ Len(b) \in Nat
  BY LenProperties
<1> SUFFICES ASSUME NEW i \in 1 .. Len(b) PROVE (a \o b)[Len(a) + i] = b[i]
  BY DEF Holds
<1>2. /\ Len(a) + i \in 1 .. Len(a) + Len(b) /\ ~(Len(a) + i <= Len(a))
      /\ (Len(a) + i) - Len(a) = i
  BY <1>1, SMT
<1> QED BY <1>2, ConcatProperties

LEMMA PartKept ==
    ASSUME NEW S, NEW a \in Seq(S), NEW b \in Seq(S), NEW part \in Seq(S),
           NEW m \in Nat, Holds(a, m, part), m + Len(part) <= Len(a)
    PROVE  Holds(a \o b, m, part)
<1>1. Len(a) \in Nat /\ Len(b) \in Nat /\ Len(part) \in Nat
  BY LenProperties
<1> SUFFICES ASSUME NEW i \in 1 .. Len(part) PROVE (a \o b)[m + i] = part[i]
  BY DEF Holds
<1>2. m + i \in 1 .. Len(a) + Len(b) /\ m + i <= Len(a)
  BY <1>1, SMT
<1>3. (a \o b)[m + i] = a[m + i]
  BY <1>2, ConcatProperties
<1> QED BY <1>3 DEF Holds

LEMMA PartOfPart ==
    ASSUME NEW S, NEW s, NEW part \in Seq(S), NEW inner \in Seq(S), NEW m \in Nat, NEW k \in Nat,
           Holds(s, m, part), Holds(part, k, inner), k + Len(inner) <= Len(part)
    PROVE  Holds(s, m + k, inner)
<1>1. Len(part) \in Nat /\ Len(inner) \in Nat
  BY LenProperties
<1> SUFFICES ASSUME NEW i \in 1 .. Len(inner) PROVE s[(m + k) + i] = inner[i]
  BY DEF Holds
<1>2. k + i \in 1 .. Len(part) /\ m + (k + i) = (m + k) + i
  BY <1>1, SMT
<1>3. s[m + (k + i)] = part[k + i] /\ part[k + i] = inner[i]
  BY <1>2 DEF Holds
<1> QED BY <1>2, <1>3

LEMMA PartBytes ==
    ASSUME NEW S, NEW s, NEW part \in Seq(S), NEW m \in Nat, Holds(s, m, part)
    PROVE  Bytes(s, m, Len(part)) = part
<1> DEFINE n == Len(part)
<1>1. n \in Nat /\ part \in [1 .. n -> S]
  BY LenProperties
<1>2. \A i \in 1 .. n : s[m + i] = part[i]
  BY DEF Holds
<1> HIDE DEF n
<1>3. Bytes(s, m, n) = [i \in 1 .. n |-> s[m + i]]
  BY <1>1, SMT DEF Bytes
<1>4. Bytes(s, m, n) = [i \in 1 .. n |-> part[i]]
  BY <1>2, <1>3
<1> QED BY <1>1, <1>4 DEF n

\* Both formats have six parts.
LEMMA SixParts ==
    ASSUME NEW S, NEW a \in Seq(S), NEW b \in Seq(S), NEW c \in Seq(S), NEW d \in Seq(S),
           NEW e \in Seq(S), NEW f \in Seq(S)
    PROVE  LET s == a \o b \o c \o d \o e \o f
               B == Len(a)
               C == B + Len(b)
               D == C + Len(c)
               E == D + Len(d)
               F == E + Len(e)
           IN  /\ B \in Nat /\ C \in Nat /\ D \in Nat /\ E \in Nat /\ F \in Nat
               /\ Len(s) = F + Len(f)
               /\ Holds(s, 0, a) /\ Holds(s, B, b) /\ Holds(s, C, c)
               /\ Holds(s, D, d) /\ Holds(s, E, e) /\ Holds(s, F, f)
<1> DEFINE s2 == a \o b
           s3 == s2 \o c
           s4 == s3 \o d
           s5 == s4 \o e
           s6 == s5 \o f
<1>1. /\ Len(a) \in Nat /\ Len(b) \in Nat /\ Len(c) \in Nat /\ Len(d) \in Nat
      /\ Len(e) \in Nat /\ Len(f) \in Nat
  BY LenProperties
<1>2. s2 \in Seq(S) /\ Len(s2) = Len(a) + Len(b)
  BY ConcatProperties
<1>3. Holds(s2, 0, a) /\ Holds(s2, Len(a), b)
  <2>1. Holds(a, 0, a) /\ 0 + Len(a) <= Len(a)
    BY <1>1, PartAtStart, SMT
  <2> QED BY <2>1, PartAtEnd, PartKept
<1> HIDE DEF s2
<1>4. s3 \in Seq(S) /\ Len(s3) = Len(s2) + Len(c)
  BY <1>2, ConcatProperties
<1>5. Holds(s3, 0, a) /\ Holds(s3, Len(a), b) /\ Holds(s3, Len(s2), c)
  <2>1. 0 + Len(a) <= Len(s2) /\ Len(a) + Len(b) <= Len(s2)
    BY <1>1, <1>2, SMT
  <2> QED BY <1>1, <1>2, <1>3, <2>1, PartAtEnd, PartKept
<1> HIDE DEF s3
<1>6. s4 \in Seq(S) /\ Len(s4) = Len(s3) + Len(d)
  BY <1>4, ConcatProperties
<1>7. /\ Holds(s4, 0, a) /\ Holds(s4, Len(a), b) /\ Holds(s4, Len(s2), c)
      /\ Holds(s4, Len(s3), d)
  <2>1. /\ 0 + Len(a) <= Len(s3) /\ Len(a) + Len(b) <= Len(s3)
        /\ Len(s2) + Len(c) <= Len(s3) /\ Len(s2) \in Nat
    BY <1>1, <1>2, <1>4, SMT
  <2> QED BY <1>1, <1>4, <1>5, <2>1, PartAtEnd, PartKept
<1> HIDE DEF s4
<1>8. s5 \in Seq(S) /\ Len(s5) = Len(s4) + Len(e)
  BY <1>6, ConcatProperties
<1>9. /\ Holds(s5, 0, a) /\ Holds(s5, Len(a), b) /\ Holds(s5, Len(s2), c)
      /\ Holds(s5, Len(s3), d) /\ Holds(s5, Len(s4), e)
  <2>1. /\ 0 + Len(a) <= Len(s4) /\ Len(a) + Len(b) <= Len(s4)
        /\ Len(s2) + Len(c) <= Len(s4) /\ Len(s3) + Len(d) <= Len(s4)
        /\ Len(s2) \in Nat /\ Len(s3) \in Nat
    BY <1>1, <1>2, <1>4, <1>6, SMT
  <2> QED BY <1>1, <1>6, <1>7, <2>1, PartAtEnd, PartKept
<1> HIDE DEF s5
<1>10. Len(s6) = Len(s5) + Len(f)
  BY <1>8, ConcatProperties
<1>11. /\ Holds(s6, 0, a) /\ Holds(s6, Len(a), b) /\ Holds(s6, Len(s2), c)
       /\ Holds(s6, Len(s3), d) /\ Holds(s6, Len(s4), e) /\ Holds(s6, Len(s5), f)
  <2>1. /\ 0 + Len(a) <= Len(s5) /\ Len(a) + Len(b) <= Len(s5)
        /\ Len(s2) + Len(c) <= Len(s5) /\ Len(s3) + Len(d) <= Len(s5)
        /\ Len(s4) + Len(e) <= Len(s5)
        /\ Len(s2) \in Nat /\ Len(s3) \in Nat /\ Len(s4) \in Nat
    BY <1>1, <1>2, <1>4, <1>6, <1>8, SMT
  <2> QED BY <1>1, <1>8, <1>9, <2>1, PartAtEnd, PartKept
<1>12. s6 = a \o b \o c \o d \o e \o f
  BY DEF s2, s3, s4, s5
<1> HIDE DEF s6
<1>13. /\ Len(s2) \in Nat /\ Len(s3) \in Nat /\ Len(s4) \in Nat /\ Len(s5) \in Nat
  BY <1>1, <1>2, <1>4, <1>6, <1>8, SMT
<1> QED BY <1>1, <1>2, <1>4, <1>6, <1>8, <1>10, <1>11, <1>12, <1>13

\* The elements of sequences of the same length, one after the other.
LEMMA FlattenedSequences ==
    ASSUME NEW S, NEW w \in Nat, NEW seqs \in Seq(Seq(S)),
           \A i \in 1 .. Len(seqs) : Len(seqs[i]) = w
    PROVE  /\ FlattenSeq(seqs) \in Seq(S) /\ Len(FlattenSeq(seqs)) = Len(seqs) * w
           /\ \A i \in 1 .. Len(seqs) : Holds(FlattenSeq(seqs), (i - 1) * w, seqs[i])
<1> DEFINE n == Len(seqs)
           Flat(g) == g = [i \in 1 .. n |-> IF i = 1 THEN seqs[i] ELSE g[i - 1] \o seqs[i]]
<1>1. n \in Nat /\ \A i \in 1 .. n : seqs[i] \in Seq(S)
  BY LenProperties, ElementOfSeq
<1>2. CASE n = 0
  <2>1. FlattenSeq(seqs) = seqs
    BY <1>2 DEF FlattenSeq
  <2>2. seqs = <<>>
    BY <1>2, EmptySeq
  <2>3. seqs \in Seq(S) /\ n * w = 0
    BY <1>2, <2>2, SMT
  <2>4. \A i \in 1 .. n : FALSE
    BY <1>2, SMT
  <2> QED BY <1>2, <2>1, <2>3, <2>4
<1>3. CASE n # 0
  <2> DEFINE Q == Seq(S)
             step == [p \in Nat \X Q |->
                        IF p[1] + 1 \in 1 .. n THEN p[2] \o seqs[p[1] + 1] ELSE p[2]]
  <2>1. \A i \in Nat, x \in Q :
           step[<<i, x>>] = IF i + 1 \in 1 .. n THEN x \o seqs[i + 1] ELSE x
    OBVIOUS
  <2> HIDE DEF step
  <2>2. \A i \in Nat, x \in Q : step[<<i, x>>] \in Q
    BY <1>1, <2>1, ConcatProperties
  <2>3. <<>> \in Q
    OBVIOUS
  <2> DEFINE empty == <<>>
  <2>4. empty \in Q
    BY <2>3
  <2> HIDE DEF Q, empty
  <2>5. PICK h : Recursion(h, Q, empty, step)
    BY <2>2, <2>4, RecursionExists
  <2>6. h \in [Nat -> Q] /\ h[0] = empty /\ \A i \in Nat : h[i + 1] = step[<<i, h[i]>>]
    BY <2>5 DEF Recursion
  <2> DEFINE m == [i \in 1 .. n |-> h[i]]
  <2>7. ASSUME NEW i \in 1 .. n PROVE m[i] = IF i = 1 THEN seqs[i] ELSE m[i - 1] \o seqs[i]
    <3>1. i - 1 \in Nat /\ (i - 1) + 1 = i
      BY SMT
    <3>2. h[i] = h[i - 1] \o seqs[i]
      <4>1. h[(i - 1) + 1] = step[<<i - 1, h[i - 1]>>] /\ h[i - 1] \in Q
        BY <2>6, <3>1
      <4>2. (i - 1) + 1 \in 1 .. n
        BY <3>1
      <4>3. step[<<i - 1, h[i - 1]>>] = h[i - 1] \o seqs[(i - 1) + 1]
        BY <2>1, <3>1, <4>1, <4>2
      <4> QED BY <3>1, <4>1, <4>3
    <3>3. CASE i = 1
      <4>1. i - 1 = 0
        BY <3>3, SMT
      <4>2. <<>> \o seqs[i] = seqs[i]
        BY <1>1, ConcatEmptySeq
      <4> QED BY <2>6, <3>2, <3>3, <4>1, <4>2 DEF empty
    <3>4. CASE i # 1
      <4>1. i - 1 \in 1 .. n
        BY <3>4, SMT
      <4> QED BY <3>2, <3>4, <4>1
    <3> QED BY <3>3, <3>4
  <2>8. Flat(m)
    BY <2>7, Zenon
  <2> DEFINE g == CHOOSE x : Flat(x)
  <2>9. Flat(g)
    BY <2>8
  <2>10. FlattenSeq(seqs) = g[n]
    BY <1>3 DEF FlattenSeq
  <2> HIDE DEF g
  <2>11. \A i \in 1 .. n : g[i] = IF i = 1 THEN seqs[i] ELSE g[i - 1] \o seqs[i]
    BY <2>9
  <2> DEFINE Good(k) == /\ g[k] \in Seq(S) /\ Len(g[k]) = k * w
                        /\ \A i \in 1 .. k : Holds(g[k], (i - 1) * w, seqs[i])
             P == {k \in Nat : k \in 1 .. n => Good(k)}
  <2>12. 0 \in P
    BY SMT
  <2>13. ASSUME NEW k \in Nat, k \in P PROVE k + 1 \in P
    <3> SUFFICES ASSUME k + 1 \in 1 .. n PROVE Good(k + 1)
      BY SMT
    <3>1. seqs[k + 1] \in Seq(S) /\ Len(seqs[k + 1]) = w
      BY <1>1
    <3>2. CASE k = 0
      <4>1. k + 1 = 1
        BY <3>2, SMT
      <4>2. g[1] = seqs[1] /\ seqs[1] \in Seq(S) /\ Len(seqs[1]) = w
        BY <2>11, <3>1, <4>1
      <4>3. 1 * w = w /\ (1 - 1) * w = 0 /\ \A i \in 1 .. 1 : i = 1
        BY SMT
      <4>4. Holds(seqs[1], 0, seqs[1])
        BY PartAtStart
      <4> QED BY <4>1, <4>2, <4>3, <4>4
    <3>3. CASE k # 0
      <4>1. k \in 1 .. n /\ (k + 1) - 1 = k /\ k + 1 # 1
        BY <3>3, SMT
      <4>2. Good(k)
        BY <2>13, <4>1
      <4>3. g[k + 1] = g[k] \o seqs[k + 1]
        BY <2>11, <4>1
      <4>4. g[k + 1] \in Seq(S) /\ Len(g[k + 1]) = k * w + w
        <5>1. /\ g[k] \o seqs[k + 1] \in Seq(S)
              /\ Len(g[k] \o seqs[k + 1]) = Len(g[k]) + Len(seqs[k + 1])
          BY <3>1, <4>2, ConcatProperties
        <5> QED BY <3>1, <4>2, <4>3, <5>1
      <4>5. k * w + w = (k + 1) * w
        BY SMT
      <4>6. ASSUME NEW i \in 1 .. k + 1 PROVE Holds(g[k + 1], (i - 1) * w, seqs[i])
        <5>1. CASE i = k + 1
          <6>1. (i - 1) * w = Len(g[k])
            BY <4>1, <4>2, <5>1
          <6> QED BY <3>1, <4>2, <4>3, <5>1, <6>1, PartAtEnd
        <5>2. CASE i # k + 1
          <6>1. i \in 1 .. k /\ i \in 1 .. n
            BY <4>1, <5>2, SMT
          <6>2. Holds(g[k], (i - 1) * w, seqs[i])
            BY <4>2, <6>1
          <6>3. (i - 1) * w \in Nat /\ (i - 1) * w + w <= k * w
            BY <6>1, Multiples
          <6>4. Len(seqs[i]) = w /\ seqs[i] \in Seq(S)
            BY <1>1, <6>1
          <6>5. (i - 1) * w + Len(seqs[i]) <= Len(g[k])
            BY <4>2, <6>3, <6>4
          <6> QED BY <3>1, <4>2, <4>3, <6>2, <6>3, <6>4, <6>5, PartKept
        <5> QED BY <5>1, <5>2
      <4> QED BY <4>4, <4>5, <4>6
    <3> QED BY <3>2, <3>3
  <2> HIDE DEF P
  <2>14. \A k \in Nat : k \in P
    BY <2>12, <2>13, EveryNat
  <2>15. Good(n)
    <3>1. n \in 1 .. n
      BY <1>1, <1>3, SMT
    <3> QED BY <1>1, <2>14, <3>1 DEF P
  <2> QED BY <2>10, <2>15
<1> QED BY <1>2, <1>3

--------------------------------------------------------------------------------
(* The universal payload. *)

LEMMA PayloadTypes ==
    ASSUME NEW p \in UserPayloads
    PROVE  /\ p = [to |-> p.to, value |-> p.value, data |-> p.data, deadline |-> p.deadline,
                   vType |-> p.vType]
           /\ p.to \in Seq(Byte) /\ Len(p.to) = 20
           /\ p.value \in Nat /\ p.value < PlaceValue[U64_BYTES]
           /\ p.data \in Seq(Byte) /\ Len(p.data) \in Nat /\ Len(p.data) < PlaceValue[4]
           /\ p.deadline \in Nat /\ p.deadline < PlaceValue[U64_BYTES]
           /\ p.vType \in {"SignedVerification", "UniversalTxVerification"}
<1>1. /\ p \in [to : Seq(Byte), value : Nat, data : Seq(Byte), deadline : Nat,
               vType : {"SignedVerification", "UniversalTxVerification"}]
      /\ Len(p.to) = 20 /\ IsU64(p.value) /\ IsU32(Len(p.data)) /\ IsI64(p.deadline)
      /\ U64_BYTES \in Nat
  BY CodecAssumption
<1>2. Len(p.data) \in Nat
  BY <1>1, LenProperties
<1>3. Len(p.data) < PlaceValue[4]
  BY <1>1, <1>2, FourBytes
<1>4. PlaceValue[U64_BYTES] \in Nat
  BY <1>1, PlaceValues
<1>5. p.deadline < PlaceValue[U64_BYTES]
  BY <1>1, <1>4, SMT DEF IsI64
<1> QED BY <1>1, <1>2, <1>3, <1>5 DEF IsU64

LEMMA PayloadReadsBack ==
    ASSUME NEW p \in UserPayloads, p.value < SAFE, p.deadline < SAFE
    PROVE  DecodeUniversalPayload(SerializePayload(p)) = p
<1> DEFINE flag == IF p.vType = "SignedVerification" THEN 0 ELSE 1
           b == LittleEndian(p.value, U64_BYTES)
           c == LittleEndian(Len(p.data), 4)
           e == LittleEndian(p.deadline, U64_BYTES)
           f == <<flag>>
           buf == SerializePayload(p)
           B == Len(p.to)
           C == B + Len(b)
           D == C + Len(c)
           E == D + Len(p.data)
           F == E + Len(e)
<1>1. U64_BYTES \in Nat /\ 4 \in Nat
  BY CodecAssumption
<1>2. b \in Seq(Byte) /\ Len(b) = U64_BYTES /\ ReadLittleEndian(b) = p.value
  BY <1>1, PayloadTypes, LittleEndianReadsBack
<1>3. c \in Seq(Byte) /\ Len(c) = 4 /\ ReadLittleEndian(c) = Len(p.data)
  BY <1>1, PayloadTypes, LittleEndianReadsBack
<1>4. e \in Seq(Byte) /\ Len(e) = U64_BYTES /\ ReadLittleEndian(e) = p.deadline
  BY <1>1, PayloadTypes, LittleEndianReadsBack
<1>5. f \in Seq(Byte) /\ Len(f) = 1 /\ f[1] = flag
  <2>1. flag \in Byte
    BY SMT DEF Byte
  <2> HIDE DEF flag
  <2> QED BY <2>1
<1>6. buf = p.to \o b \o c \o p.data \o e \o f
  BY DEF SerializePayload
<1> HIDE DEF flag, b, c, e, f, buf
<1> DEFINE u == U64_BYTES
           n == Len(p.data)
<1>7. /\ p.to \in Seq(Byte) /\ Len(p.to) = 20 /\ p.data \in Seq(Byte) /\ n \in Nat
      /\ u \in Nat /\ f \in Seq(Byte)
  BY <1>1, <1>5, PayloadTypes
<1>8. /\ Len(buf) = F + Len(f) /\ F \in Nat
      /\ Holds(buf, 0, p.to) /\ Holds(buf, B, b) /\ Holds(buf, C, c)
      /\ Holds(buf, D, p.data) /\ Holds(buf, E, e) /\ Holds(buf, F, f)
  <2> DEFINE a == p.to
             d == p.data
             s == a \o b \o c \o d \o e \o f
             G == Len(a) + Len(b)
             H == G + Len(c)
             I == H + Len(d)
             J == I + Len(e)
  <2>1. /\ a \in Seq(Byte) /\ b \in Seq(Byte) /\ c \in Seq(Byte) /\ d \in Seq(Byte)
        /\ e \in Seq(Byte) /\ f \in Seq(Byte)
    BY <1>2, <1>3, <1>4, <1>7
  <2> HIDE DEF a, d
  <2>2. /\ Len(s) = J + Len(f) /\ J \in Nat
        /\ Holds(s, 0, a) /\ Holds(s, Len(a), b) /\ Holds(s, G, c)
        /\ Holds(s, H, d) /\ Holds(s, I, e) /\ Holds(s, J, f)
    BY <2>1, SixParts
  <2> QED BY <1>6, <2>2 DEF a, d
<1> HIDE DEF n, u
<1>9. /\ B = 20 /\ C = 20 + u /\ D = (20 + u) + 4 /\ E = AfterVec(20 + u, n)
      /\ F = AfterVec(20 + u, n) + u
      /\ B \in Nat /\ C \in Nat /\ D \in Nat /\ E \in Nat
  <2>1. Len(b) = u /\ Len(c) = 4 /\ Len(e) = u /\ Len(p.data) = n
    BY <1>2, <1>3, <1>4 DEF n, u
  <2> QED BY <1>7, <2>1, SMT DEF AfterVec
<1> HIDE DEF B, C, D, E, F
<1>10. Bytes(buf, 0, 20) = p.to /\ Bytes(buf, 20, u) = b /\ Bytes(buf, 20 + u, 4) = c
  <2>1. Bytes(buf, 0, Len(p.to)) = p.to
    BY <1>7, <1>8, PartBytes
  <2>2. Bytes(buf, B, Len(b)) = b /\ Bytes(buf, C, Len(c)) = c
    BY <1>2, <1>3, <1>8, <1>9, PartBytes
  <2> QED BY <1>2, <1>3, <1>7, <1>9, <2>1, <2>2 DEF u
<1>11. Bytes(buf, (20 + u) + 4, n) = p.data
  BY <1>7, <1>8, <1>9, PartBytes DEF n
<1>12. Bytes(buf, AfterVec(20 + u, n), u) = e
  BY <1>4, <1>8, <1>9, PartBytes DEF u
<1>13. ReadLittleEndian(Bytes(buf, 20 + u, 4)) = n
  BY <1>3, <1>10 DEF n
<1>14. ~(AfterVec(20 + u, n) + u + 1 > Len(buf))
  BY <1>5, <1>8, <1>9, SMT
<1>15. buf[AfterVec(20 + u, n) + u + 1] = flag
  <2>1. 1 \in 1 .. Len(f)
    BY <1>5
  <2>2. buf[F + 1] = f[1]
    BY <1>8, <2>1 DEF Holds
  <2> QED BY <1>5, <1>9, <2>2
<1>16. VerificationType(flag) = p.vType
  BY PayloadTypes DEF VerificationType, flag
<1>17. JsNumber(p.value) = p.value /\ JsNumber(p.deadline) = p.deadline
  BY DEF JsNumber
<1>18. DecodeUniversalPayload(buf) =
           [to |-> p.to, value |-> p.value, data |-> p.data, deadline |-> p.deadline,
            vType |-> p.vType]
  <2> DEFINE dec(len) == [to       |-> Bytes(buf, 0, 20),
                          value    |-> JsNumber(ReadLittleEndian(Bytes(buf, 20, u))),
                          data     |-> Bytes(buf, (20 + u) + 4, len),
                          deadline |-> JsNumber(ReadLittleEndian(
                                           Bytes(buf, AfterVec(20 + u, len), u))),
                          vType    |-> VerificationType(buf[AfterVec(20 + u, len) + u + 1])]
  <2>1. DecodeUniversalPayload(buf) = dec(n)
    BY <1>13, <1>14 DEF DecodeUniversalPayload, u
  <2> QED BY <1>2, <1>4, <1>10, <1>11, <1>12, <1>15, <1>16, <1>17, <2>1
<1> QED BY <1>18, PayloadTypes DEF buf

--------------------------------------------------------------------------------
(* The writable flags. *)

LEMMA PowersOfTwo ==
    /\ 2 ^ 0 = 1 /\ 2 ^ 1 = 2 /\ 2 ^ 2 = 4 /\ 2 ^ 3 = 8
    /\ 2 ^ 4 = 16 /\ 2 ^ 5 = 32 /\ 2 ^ 6 = 64 /\ 2 ^ 7 = 128
BY SMT

\* Of the numbers in S, those byte b counts from its k-th bit on; and its k-th bit.
FromBit(S, b, k) == {j \in S : 8 * b + 1 + k <= j /\ j <= 8 * b + 8}
Bit(S, b, k) == IF 8 * b + 1 + k \in S THEN 1 ELSE 0

LEMMA NextBit ==
    ASSUME NEW S, IsFiniteSet(S), S \subseteq Nat, NEW f, NEW b \in Nat, NEW k \in 0 .. 7,
           \A j \in S : f[j] = 2 ^ BitOf(j - 1)
    PROVE  SumOver(f, FromBit(S, b, k))
               = (2 ^ (7 - k)) * Bit(S, b, k) + SumOver(f, FromBit(S, b, k + 1))
<1> DEFINE T(m) == FromBit(S, b, m)
           x == 8 * b + 1 + k
<1>1. \A j \in Nat : BitOf(j - 1) \in 0 .. 7
  BY SMT DEF BitOf
<1>2. \A m \in 0 .. 7 : 2 ^ m \in Int
  BY PowersOfTwo, SMT
<1>3. \A j \in S : f[j] \in Int
  BY <1>1, <1>2
<1>4. T(k) \subseteq S /\ IsFiniteSet(T(k))
  BY FS_Subset DEF FromBit
<1>5. T(k) \ {x} = T(k + 1)
  <2>1. ASSUME NEW j \in Nat
        PROVE  (8 * b + 1 + k <= j /\ j # x) <=> 8 * b + 1 + (k + 1) <= j
    BY SMT
  <2> QED BY <2>1 DEF FromBit
<1>6. BitOf(x - 1) = 7 - k
  <2>1. x - 1 = 8 * b + k /\ 8 # 0 /\ k < 8 /\ 8 \in Nat /\ k \in Nat
    BY SMT
  <2>2. (8 * b + k) % 8 = k
    BY <2>1, OnlyDivision
  <2> QED BY <2>1, <2>2 DEF BitOf
<1>7. 2 ^ (7 - k) \in Int
  <2>1. 7 - k \in 0 .. 7
    BY SMT
  <2> QED BY <1>2, <2>1
<1>8. SumOver(f, T(k + 1)) \in Int
  <2> DEFINE R == T(k + 1)
  <2>1. IsFiniteSet(R) /\ \A j \in R : f[j] \in Int
    BY <1>3, FS_Subset DEF FromBit
  <2> HIDE DEF R, T
  <2>2. SumOver(f, R) \in Int
    BY <2>1, SumOfElement
  <2> QED BY <2>2 DEF R
<1>9. CASE x \in S
  <2> DEFINE R == T(k)
  <2>1. x \in R /\ IsFiniteSet(R) /\ (\A j \in R : f[j] \in Int) /\ R \ {x} = T(k + 1)
    <3>1. x \in R
      BY <1>9, SMT DEF FromBit
    <3> QED BY <1>3, <1>4, <1>5, <3>1
  <2> HIDE DEF R, T
  <2>2. SumOver(f, R) = f[x] + SumOver(f, R \ {x})
    BY <2>1, SumOfElement
  <2>3. f[x] = 2 ^ (7 - k)
    BY <1>6, <1>9
  <2>4. SumOver(f, T(k)) = 2 ^ (7 - k) + SumOver(f, T(k + 1))
    BY <2>1, <2>2, <2>3 DEF R
  <2>5. (2 ^ (7 - k)) * 1 = 2 ^ (7 - k)
    BY <1>7, SMT
  <2> QED BY <1>9, <2>4, <2>5 DEF T, x, Bit
<1>10. CASE x \notin S
  <2>1. T(k) = T(k + 1)
    BY <1>5, <1>10 DEF FromBit
  <2>2. (2 ^ (7 - k)) * 0 = 0
    BY <1>7, SMT
  <2>3. SumOver(f, T(k)) = (2 ^ (7 - k)) * 0 + SumOver(f, T(k + 1))
    <3> HIDE DEF T
    <3> QED BY <1>8, <2>1, <2>2, SMT
  <2> QED BY <1>10, <2>3 DEF Bit
<1> QED BY <1>9, <1>10

\* The flag of an account, where the program looks for it.
LEMMA FlagOfAccount ==
    ASSUME NEW accounts \in Seq(AccountMeta), NEW i \in DOMAIN accounts
    PROVE  LET flags == AccountsToWritableFlags(accounts)
           IN  (flags[(i - 1) \div 8 + 1] \div 2 ^ (7 - ((i - 1) % 8))) % 2
                   = IF accounts[i].isWritable THEN 1 ELSE 0
<1> DEFINE n == Len(accounts)
           b == (i - 1) \div 8
           r == (i - 1) % 8
           f == [j \in DOMAIN accounts |-> 2 ^ BitOf(j - 1)]
           S == {j \in DOMAIN accounts : accounts[j].isWritable /\ (j - 1) \div 8 = (b + 1) - 1}
           T(m) == FromBit(S, b, m)
           bit(k) == Bit(S, b, k)
<1>1. n \in Nat /\ DOMAIN accounts = 1 .. n /\ i \in 1 .. n
  BY LenProperties
<1>2. \A m \in Nat : m \div 8 \in Nat /\ m % 8 \in 0 .. 7 /\ m = 8 * (m \div 8) + (m % 8)
  BY SMT
<1>3. i - 1 \in Nat /\ b \in Nat /\ r \in 0 .. 7 /\ i = 8 * b + 1 + r
  <2>1. i - 1 \in Nat
    BY <1>1, SMT
  <2>2. b \in Nat /\ r \in 0 .. 7 /\ i - 1 = 8 * b + r
    BY <1>2, <2>1
  <2> HIDE DEF b, r
  <2> QED BY <1>1, <2>1, <2>2, SMT
<1>4. b + 1 \in 1 .. FlagsLen(n)
  <2> HIDE DEF b, r
  <2> QED BY <1>1, <1>3, SMT DEF FlagsLen
<1>5. \A j \in S : f[j] = 2 ^ BitOf(j - 1)
  OBVIOUS
<1>6. AccountsToWritableFlags(accounts)[b + 1] = SumOver(f, S)
  BY <1>4, SumFunctionIsSumOver DEF AccountsToWritableFlags
<1>7. (i \in S <=> accounts[i].isWritable)
  <2>1. (b + 1) - 1 = b
    BY <1>3, SMT
  <2> QED BY <2>1
<1>8. /\ S \subseteq 1 .. n
      /\ \A j \in S : 8 * b + 1 <= j /\ j <= 8 * b + 8
  <2> SUFFICES ASSUME NEW j \in S PROVE j \in 1 .. n /\ 8 * b + 1 <= j /\ j <= 8 * b + 8
    OBVIOUS
  <2>1. j \in 1 .. n /\ (j - 1) \div 8 = (b + 1) - 1
    BY <1>1
  <2> HIDE DEF S, b
  <2>2. j - 1 \in Nat
    BY <1>1, <2>1, SMT
  <2> DEFINE c == (j - 1) \div 8
             d == (j - 1) % 8
  <2>3. c \in Nat /\ d \in 0 .. 7 /\ j - 1 = 8 * c + d
    BY <1>2, <2>2
  <2>4. c = (b + 1) - 1
    BY <2>1
  <2> HIDE DEF b, c, d, S
  <2> QED BY <1>1, <1>3, <2>1, <2>3, <2>4, SMT
<1> HIDE DEF b, r, f, S
<1>9. IsFiniteSet(S) /\ S \subseteq Nat
  <2>1. IsFiniteSet(1 .. n) /\ 1 .. n \subseteq Nat
    BY <1>1, FS_Interval, SMT
  <2> QED BY <1>8, <2>1, FS_Subset
<1>10. T(0) = S
  <2>1. 8 * b + 1 + 0 = 8 * b + 1
    BY <1>3, SMT
  <2> QED BY <1>8, <2>1 DEF FromBit
<1>11. T(8) = {}
  <2> SUFFICES ASSUME NEW j \in S, 8 * b + 1 + 8 <= j, j <= 8 * b + 8 PROVE FALSE
    BY DEF FromBit
  <2> QED BY <1>3, <1>9, SMT
<1>12. ASSUME NEW k \in 0 .. 7
       PROVE  SumOver(f, T(k)) = (2 ^ (7 - k)) * bit(k) + SumOver(f, T(k + 1))
  BY <1>3, <1>5, <1>9, NextBit
<1>13. SumOver(f, T(8)) = 0
  <2> DEFINE R == T(8)
  <2>1. IsFiniteSet(R) /\ R = {} /\ \A j \in R : f[j] \in Int
    BY <1>11, FS_EmptySet
  <2> HIDE DEF R, T
  <2>2. SumOver(f, R) = 0
    BY <2>1, SumOfElement
  <2> QED BY <2>2 DEF R
<1> DEFINE part(k) == SumOver(f, T(k))
<1>16. /\ part(7) = 1 * bit(7) + part(8) /\ part(6) = 2 * bit(6) + part(7)
       /\ part(5) = 4 * bit(5) + part(6) /\ part(4) = 8 * bit(4) + part(5)
       /\ part(3) = 16 * bit(3) + part(4) /\ part(2) = 32 * bit(2) + part(3)
       /\ part(1) = 64 * bit(1) + part(2) /\ part(0) = 128 * bit(0) + part(1)
  <2> HIDE DEF part, bit
  <2>1. \A k \in 0 .. 7 : part(k) = (2 ^ (7 - k)) * bit(k) + part(k + 1)
    BY <1>12 DEF part, bit
  <2>2. /\ 7 - 0 = 7 /\ 7 - 1 = 6 /\ 7 - 2 = 5 /\ 7 - 3 = 4 /\ 7 - 4 = 3 /\ 7 - 5 = 2
        /\ 7 - 6 = 1 /\ 7 - 7 = 0 /\ 0 + 1 = 1 /\ 1 + 1 = 2 /\ 2 + 1 = 3 /\ 3 + 1 = 4
        /\ 4 + 1 = 5 /\ 5 + 1 = 6 /\ 6 + 1 = 7 /\ 7 + 1 = 8
        /\ {0, 1, 2, 3, 4, 5, 6, 7} \subseteq 0 .. 7
    BY SMT
  <2>3. part(7) = (2 ^ (7 - 7)) * bit(7) + part(7 + 1)
    BY <2>1, <2>2
  <2>4. part(6) = (2 ^ (7 - 6)) * bit(6) + part(6 + 1)
    BY <2>1, <2>2
  <2>5. part(5) = (2 ^ (7 - 5)) * bit(5) + part(5 + 1)
    BY <2>1, <2>2
  <2>6. part(4) = (2 ^ (7 - 4)) * bit(4) + part(4 + 1)
    BY <2>1, <2>2
  <2>7. part(3) = (2 ^ (7 - 3)) * bit(3) + part(3 + 1)
    BY <2>1, <2>2
  <2>8. part(2) = (2 ^ (7 - 2)) * bit(2) + part(2 + 1)
    BY <2>1, <2>2
  <2>9. part(1) = (2 ^ (7 - 1)) * bit(1) + part(1 + 1)
    BY <2>1, <2>2
  <2>10. part(0) = (2 ^ (7 - 0)) * bit(0) + part(0 + 1)
    BY <2>1, <2>2
  <2> QED BY <2>2, <2>3, <2>4, <2>5, <2>6, <2>7, <2>8, <2>9, <2>10, PowersOfTwo
<1>17. part(8) = 0
  BY <1>13
<1> HIDE DEF part, bit
<1>18. /\ bit(0) \in {0, 1} /\ bit(1) \in {0, 1} /\ bit(2) \in {0, 1} /\ bit(3) \in {0, 1}
       /\ bit(4) \in {0, 1} /\ bit(5) \in {0, 1} /\ bit(6) \in {0, 1} /\ bit(7) \in {0, 1}
  BY DEF bit, Bit
<1>19. part(0) = 128 * bit(0) + (64 * bit(1) + (32 * bit(2) + (16 * bit(3)
                 + (8 * bit(4) + (4 * bit(5) + (2 * bit(6) + bit(7)))))))
  BY <1>16, <1>17, <1>18, SMT
<1>20. /\ (part(0) \div 128) % 2 = bit(0) /\ (part(0) \div 64) % 2 = bit(1)
       /\ (part(0) \div 32) % 2 = bit(2) /\ (part(0) \div 16) % 2 = bit(3)
       /\ (part(0) \div 8) % 2 = bit(4) /\ (part(0) \div 4) % 2 = bit(5)
       /\ (part(0) \div 2) % 2 = bit(6) /\ (part(0) \div 1) % 2 = bit(7)
  <2> DEFINE a == bit(0)
             c == bit(1)
             d == bit(2)
             e == bit(3)
             g == bit(4)
             h == bit(5)
             p == bit(6)
             q == bit(7)
             sum == part(0)
  <2>1. /\ a \in {0, 1} /\ c \in {0, 1} /\ d \in {0, 1} /\ e \in {0, 1}
        /\ g \in {0, 1} /\ h \in {0, 1} /\ p \in {0, 1} /\ q \in {0, 1}
        /\ sum = 128 * a + (64 * c + (32 * d + (16 * e + (8 * g + (4 * h + (2 * p + q))))))
    BY <1>18, <1>19
  <2> HIDE DEF a, c, d, e, g, h, p, q, sum
  <2>2. (sum \div 128) % 2 = a
    BY <2>1, SMT
  <2>3. (sum \div 64) % 2 = c
    BY <2>1, SMT
  <2>4. (sum \div 32) % 2 = d
    BY <2>1, SMT
  <2>5. (sum \div 16) % 2 = e
    BY <2>1, SMT
  <2>6. (sum \div 8) % 2 = g
    BY <2>1, SMT
  <2>7. (sum \div 4) % 2 = h
    BY <2>1, SMT
  <2>8. (sum \div 2) % 2 = p
    BY <2>1, SMT
  <2>9. (sum \div 1) % 2 = q
    BY <2>1, SMT
  <2> QED BY <2>2, <2>3, <2>4, <2>5, <2>6, <2>7, <2>8, <2>9 DEF a, c, d, e, g, h, p, q, sum
<1>21. (part(0) \div 2 ^ (7 - r)) % 2 = bit(r)
  <2>1. /\ 7 - 0 = 7 /\ 7 - 1 = 6 /\ 7 - 2 = 5 /\ 7 - 3 = 4 /\ 7 - 4 = 3 /\ 7 - 5 = 2
        /\ 7 - 6 = 1 /\ 7 - 7 = 0
    BY SMT
  <2>2. r = 0 \/ r = 1 \/ r = 2 \/ r = 3 \/ r = 4 \/ r = 5 \/ r = 6 \/ r = 7
    BY <1>3, SMT
  <2>3. CASE r = 0
    BY <1>20, <2>1, <2>3, PowersOfTwo
  <2>4. CASE r = 1
    BY <1>20, <2>1, <2>4, PowersOfTwo
  <2>5. CASE r = 2
    BY <1>20, <2>1, <2>5, PowersOfTwo
  <2>6. CASE r = 3
    BY <1>20, <2>1, <2>6, PowersOfTwo
  <2>7. CASE r = 4
    BY <1>20, <2>1, <2>7, PowersOfTwo
  <2>8. CASE r = 5
    BY <1>20, <2>1, <2>8, PowersOfTwo
  <2>9. CASE r = 6
    BY <1>20, <2>1, <2>9, PowersOfTwo
  <2>10. CASE r = 7
    BY <1>20, <2>1, <2>10, PowersOfTwo
  <2> QED BY <2>2, <2>3, <2>4, <2>5, <2>6, <2>7, <2>8, <2>9, <2>10
<1>22. AccountsToWritableFlags(accounts)[b + 1] = part(0)
  BY <1>6, <1>10 DEF part
<1>23. bit(r) = IF accounts[i].isWritable THEN 1 ELSE 0
  BY <1>3, <1>7 DEF bit, Bit
<1> QED BY <1>21, <1>22, <1>23 DEF b, r

LEMMA ReconstructedAccounts ==
    ASSUME NEW accounts \in Seq(AccountMeta)
    PROVE  LET keys == [i \in DOMAIN accounts |-> accounts[i].pubkey]
           IN  ReconstructAccounts(keys, AccountsToWritableFlags(accounts)) = accounts
<1> DEFINE n == Len(accounts)
           keys == [i \in DOMAIN accounts |-> accounts[i].pubkey]
           flags == AccountsToWritableFlags(accounts)
           look(i) == (flags[(i - 1) \div 8 + 1] \div 2 ^ (7 - ((i - 1) % 8))) % 2
<1>1. n \in Nat /\ accounts \in [1 .. n -> AccountMeta] /\ DOMAIN accounts = 1 .. n
  BY LenProperties
<1>2. \A i \in 1 .. n : look(i) = IF accounts[i].isWritable THEN 1 ELSE 0
  BY <1>1, FlagOfAccount
<1> HIDE DEF look, n
<1>3. ASSUME NEW i \in 1 .. n
      PROVE  [pubkey |-> keys[i], isWritable |-> look(i) = 1] = accounts[i]
  <2>1. accounts[i] \in [pubkey : Seq(Byte), isWritable : BOOLEAN]
    BY <1>1 DEF AccountMeta
  <2>2. look(i) = 1 <=> accounts[i].isWritable
    BY <1>2
  <2>3. (look(i) = 1) = accounts[i].isWritable
    BY <2>1, <2>2
  <2>4. accounts[i] = [pubkey |-> accounts[i].pubkey, isWritable |-> accounts[i].isWritable]
    BY <2>1
  <2>5. keys[i] = accounts[i].pubkey
    BY <1>1
  <2> QED BY <2>3, <2>4, <2>5, Zenon
<1>4. ReconstructAccounts(keys, flags)
          = [i \in 1 .. n |-> [pubkey |-> keys[i], isWritable |-> look(i) = 1]]
  BY <1>1 DEF ReconstructAccounts, look
<1>5. ReconstructAccounts(keys, flags) = [i \in 1 .. n |-> accounts[i]]
  BY <1>3, <1>4
<1> QED BY <1>1, <1>5

--------------------------------------------------------------------------------
(* The execute payload. *)

LEMMA InstructionTypes ==
    ASSUME NEW ix \in Instructions
    PROVE  /\ KEY_BYTES \in Nat
           /\ ix.target \in Seq(Byte) /\ Len(ix.target) = KEY_BYTES
           /\ ix.accounts \in Seq(AccountMeta) /\ Len(ix.accounts) \in Nat
           /\ Len(ix.accounts) < PlaceValue[4]
           /\ \A i \in 1 .. Len(ix.accounts) : /\ ix.accounts[i] \in AccountMeta
                                               /\ Len(ix.accounts[i].pubkey) = KEY_BYTES
           /\ ix.ixData \in Seq(Byte) /\ Len(ix.ixData) \in Nat /\ Len(ix.ixData) < PlaceValue[4]
<1>1. /\ ix \in [target : Seq(Byte), accounts : Seq(AccountMeta), ixData : Seq(Byte)]
      /\ Len(ix.target) = KEY_BYTES
      /\ \A i \in DOMAIN ix.accounts : Len(ix.accounts[i].pubkey) = KEY_BYTES
      /\ IsU32(Len(ix.accounts)) /\ IsU32(Len(ix.ixData)) /\ KEY_BYTES \in Nat
  BY CodecAssumption
<1>2. Len(ix.accounts) \in Nat /\ Len(ix.ixData) \in Nat
  BY <1>1, LenProperties
<1>3. Len(ix.accounts) < PlaceValue[4] /\ Len(ix.ixData) < PlaceValue[4]
  BY <1>1, <1>2, FourBytes
<1>4. ix.accounts \in Seq(AccountMeta)
  BY <1>1
<1>5. /\ DOMAIN ix.accounts = 1 .. Len(ix.accounts)
      /\ \A i \in 1 .. Len(ix.accounts) : ix.accounts[i] \in AccountMeta
  BY <1>4, LenProperties, ElementOfSeq
<1> QED BY <1>1, <1>2, <1>3, <1>5

LEMMA AccountReadsBack ==
    ASSUME NEW k \in Nat, NEW account \in AccountMeta, Len(account.pubkey) = k
    PROVE  LET bytes == EncodedAccount(account)
           IN  /\ bytes \in Seq(Byte) /\ Len(bytes) = k + 1
               /\ [pubkey |-> Bytes(bytes, 0, k), isWritable |-> bytes[k + 1] = 1] = account
<1> DEFINE key == account.pubkey
           flag == IF account.isWritable THEN 1 ELSE 0
           bytes == EncodedAccount(account)
<1>1. /\ account \in [pubkey : Seq(Byte), isWritable : BOOLEAN]
      /\ key \in Seq(Byte) /\ account.isWritable \in BOOLEAN
  BY DEF AccountMeta
<1>2. flag \in Byte /\ (flag = 1 <=> account.isWritable)
  BY SMT DEF Byte
<1>3. bytes = Append(key, flag)
  BY DEF EncodedAccount
<1> HIDE DEF flag, bytes
<1>4. bytes \in Seq(Byte) /\ Len(bytes) = k + 1 /\ bytes[k + 1] = flag
  BY <1>1, <1>2, <1>3, AppendProperties
<1>5. Holds(bytes, 0, key)
  <2> SUFFICES ASSUME NEW i \in 1 .. Len(key) PROVE bytes[0 + i] = key[i]
    BY DEF Holds
  <2>1. 0 + i = i /\ i \in 1 .. k
    BY SMT
  <2> QED BY <1>1, <1>2, <1>3, <2>1, AppendProperties
<1>6. Bytes(bytes, 0, k) = key
  BY <1>1, <1>5, PartBytes
<1>7. account = [pubkey |-> key, isWritable |-> account.isWritable]
  BY <1>1
<1>8. (bytes[k + 1] = 1) = account.isWritable
  BY <1>1, <1>2, <1>4
<1> QED BY <1>4, <1>6, <1>7, <1>8, Zenon DEF bytes

LEMMA InstructionReadsBack ==
    ASSUME NEW ix \in Instructions
    PROVE  DecodeExecutePayload(EncodeExecutePayload(InstructionToPayloadFields(ix)))
               = InstructionToPayloadFields(ix)
<1> DEFINE n == Len(ix.accounts)
           l == Len(ix.ixData)
           w == KEY_BYTES + 1
           each == [i \in DOMAIN ix.accounts |-> EncodedAccount(ix.accounts[i])]
           a == BigEndian(n, 4)
           b == FlattenSeq(each)
           c == BigEndian(l, 4)
           d == ix.ixData
           e == <<2>>
           f == ix.target
           buf == EncodeExecutePayload(InstructionToPayloadFields(ix))
<1>1. /\ n \in Nat /\ l \in Nat /\ KEY_BYTES \in Nat /\ w \in Nat
      /\ ix.accounts \in Seq(AccountMeta) /\ ix.accounts \in [1 .. n -> AccountMeta]
      /\ DOMAIN ix.accounts = 1 .. n
  BY InstructionTypes, LenProperties
<1>2. a \in Seq(Byte) /\ Len(a) = 4 /\ ReadBigEndian(a) = n
  BY InstructionTypes, BigEndianReadsBack
<1>3. c \in Seq(Byte) /\ Len(c) = 4 /\ ReadBigEndian(c) = l
  BY InstructionTypes, BigEndianReadsBack
<1>4. \A i \in 1 .. n : /\ EncodedAccount(ix.accounts[i]) \in Seq(Byte)
                        /\ Len(EncodedAccount(ix.accounts[i])) = w
                        /\ [pubkey |-> Bytes(EncodedAccount(ix.accounts[i]), 0, KEY_BYTES),
                            isWritable |-> EncodedAccount(ix.accounts[i])[w] = 1]
                               = ix.accounts[i]
  BY <1>1, InstructionTypes, AccountReadsBack
<1>5. /\ each \in Seq(Seq(Byte)) /\ Len(each) = n
      /\ \A i \in 1 .. n : each[i] = EncodedAccount(ix.accounts[i])
  <2>1. each \in [1 .. n -> Seq(Byte)]
    BY <1>1, <1>4
  <2>2. \A i \in 1 .. n : each[i] = EncodedAccount(ix.accounts[i])
    BY <1>1
  <2> HIDE DEF each, n
  <2> QED BY <1>1, <2>1, <2>2, FunctionIsSeq
<1> HIDE DEF each
<1>6. /\ b \in Seq(Byte) /\ Len(b) = n * w
      /\ \A i \in 1 .. n : Holds(b, (i - 1) * w, EncodedAccount(ix.accounts[i]))
  <2>1. \A i \in 1 .. Len(each) : Len(each[i]) = w
    BY <1>4, <1>5
  <2> HIDE DEF w, n
  <2> QED BY <1>1, <1>5, <2>1, FlattenedSequences
<1>7. d \in Seq(Byte) /\ Len(d) = l /\ f \in Seq(Byte) /\ Len(f) = KEY_BYTES
  BY InstructionTypes
<1>8. e \in Seq(Byte) /\ Len(e) = 1 /\ e[1] = 2
  BY SMT DEF Byte
<1>9. buf = a \o b \o c \o d \o e \o f
  BY DEF EncodeExecutePayload, InstructionToPayloadFields, each
<1> HIDE DEF a, b, c, d, e, f, buf, n, l, w
<1> DEFINE B == Len(a)
           C == B + Len(b)
           D == C + Len(c)
           E == D + Len(d)
           F == E + Len(e)
<1>10. /\ Len(buf) = F + Len(f)
       /\ B \in Nat /\ C \in Nat /\ D \in Nat /\ E \in Nat /\ F \in Nat
       /\ Holds(buf, 0, a) /\ Holds(buf, B, b) /\ Holds(buf, C, c)
       /\ Holds(buf, D, d) /\ Holds(buf, E, e) /\ Holds(buf, F, f)
  <2> DEFINE s == a \o b \o c \o d \o e \o f
  <2>1. /\ a \in Seq(Byte) /\ b \in Seq(Byte) /\ c \in Seq(Byte) /\ d \in Seq(Byte)
        /\ e \in Seq(Byte) /\ f \in Seq(Byte)
    BY <1>2, <1>3, <1>6, <1>7, <1>8
  <2>2. /\ Len(s) = F + Len(f)
        /\ B \in Nat /\ C \in Nat /\ D \in Nat /\ E \in Nat /\ F \in Nat
        /\ Holds(s, 0, a) /\ Holds(s, B, b) /\ Holds(s, C, c)
        /\ Holds(s, D, d) /\ Holds(s, E, e) /\ Holds(s, F, f)
    BY <2>1, SixParts
  <2> QED BY <1>9, <2>2
<1> DEFINE dataAt == 4 + n * w
           idAt == dataAt + 4 + l
<1>11. B = 4 /\ C = dataAt /\ D = dataAt + 4 /\ E = idAt /\ F = idAt + 1
  BY <1>2, <1>3, <1>6, <1>7, <1>8
<1> HIDE DEF B, C, D, E, F, dataAt, idAt
<1>12. /\ Bytes(buf, 0, 4) = a /\ Bytes(buf, dataAt, 4) = c /\ Bytes(buf, dataAt + 4, l) = d
       /\ Bytes(buf, idAt + 1, KEY_BYTES) = f
  <2>1. Bytes(buf, 0, Len(a)) = a
    BY <1>2, <1>10, PartBytes
  <2>2. Bytes(buf, C, Len(c)) = c /\ Bytes(buf, D, Len(d)) = d /\ Bytes(buf, F, Len(f)) = f
    BY <1>3, <1>7, <1>10, PartBytes
  <2> QED BY <1>2, <1>3, <1>7, <1>11, <2>1, <2>2
<1>13. buf[idAt + 1] = 2
  <2>1. 1 \in 1 .. Len(e)
    BY <1>8
  <2>2. buf[E + 1] = e[1]
    BY <1>10, <2>1 DEF Holds
  <2> QED BY <1>8, <1>11, <2>2
<1>14. ~(Len(buf) - (idAt + 1) # KEY_BYTES)
  BY <1>1, <1>7, <1>10, <1>11, SMT
<1>15. \A i \in 1 .. n : Bytes(buf, 4 + (i - 1) * w, w) = EncodedAccount(ix.accounts[i])
  <2> SUFFICES ASSUME NEW i \in 1 .. n
               PROVE  Bytes(buf, 4 + (i - 1) * w, w) = EncodedAccount(ix.accounts[i])
    OBVIOUS
  <2> DEFINE one == EncodedAccount(ix.accounts[i])
             m == (i - 1) * w
  <2>1. one \in Seq(Byte) /\ Len(one) = w /\ Holds(b, m, one)
    BY <1>4, <1>6
  <2>2. m \in Nat /\ m + w <= n * w
    BY <1>1, Multiples
  <2> HIDE DEF one, m
  <2>3. Holds(buf, 4, b) /\ m + Len(one) <= Len(b)
    BY <1>6, <1>10, <1>11, <2>1, <2>2
  <2>4. 4 \in Nat /\ 4 + m \in Nat
    BY <2>2, SMT
  <2>5. Holds(buf, 4 + m, one)
    BY <1>6, <2>1, <2>2, <2>3, <2>4, PartOfPart
  <2>6. Bytes(buf, 4 + m, Len(one)) = one
    BY <2>1, <2>4, <2>5, PartBytes
  <2> QED BY <2>1, <2>6 DEF one, m
<1>16. [i \in 1 .. n |->
           [pubkey     |-> Bytes(Bytes(buf, 4 + (i - 1) * w, w), 0, KEY_BYTES),
            isWritable |-> Bytes(buf, 4 + (i - 1) * w, w)[w] = 1]] = ix.accounts
  <2>1. ix.accounts = [i \in 1 .. n |-> ix.accounts[i]]
    BY <1>1
  <2>2. \A i \in 1 .. n :
            [pubkey     |-> Bytes(Bytes(buf, 4 + (i - 1) * w, w), 0, KEY_BYTES),
             isWritable |-> Bytes(buf, 4 + (i - 1) * w, w)[w] = 1] = ix.accounts[i]
    BY <1>4, <1>15
  <2> QED BY <2>1, <2>2
<1>17. /\ ReadBigEndian(Bytes(buf, 0, 4)) = n
       /\ ReadBigEndian(Bytes(buf, dataAt, 4)) = l
  BY <1>2, <1>3, <1>12
<1>18. DecodeExecutePayload(buf) =
           [targetProgram |-> f, accounts |-> ix.accounts, ixData |-> d, instructionId |-> 2]
  <2> DEFINE dec(count, len) ==
               [targetProgram |-> Bytes(buf, 4 + count * w + 4 + len + 1, KEY_BYTES),
                accounts      |-> [i \in 1 .. count |->
                    [pubkey     |-> Bytes(Bytes(buf, 4 + (i - 1) * w, w), 0, KEY_BYTES),
                     isWritable |-> Bytes(buf, 4 + (i - 1) * w, w)[w] = 1]],
                ixData        |-> Bytes(buf, 4 + count * w + 4, len),
                instructionId |-> buf[4 + count * w + 4 + len + 1]]
  <2>1. DecodeExecutePayload(buf) = dec(n, l)
    BY <1>14, <1>17 DEF DecodeExecutePayload, dataAt, idAt, w
  <2>2. /\ Bytes(buf, 4 + n * w + 4 + l + 1, KEY_BYTES) = f
        /\ Bytes(buf, 4 + n * w + 4, l) = d /\ buf[4 + n * w + 4 + l + 1] = 2
    BY <1>12, <1>13 DEF dataAt, idAt
  <2> QED BY <1>16, <2>1, <2>2
<1> QED BY <1>18 DEF InstructionToPayloadFields, buf, d, f

--------------------------------------------------------------------------------
(* A parcel on its way. *)

Encoded(sent) ==
    IF sent \in Instructions THEN EncodeExecutePayload(InstructionToPayloadFields(sent))
    ELSE SerializePayload(sent)
Decoded(sent) ==
    IF sent \in Instructions THEN InstructionToPayloadFields(sent)
    ELSE DecodeUniversalPayload(SerializePayload(sent))

CodecInv ==
    /\ parcel = [at |-> parcel.at, sent |-> parcel.sent, bytes |-> parcel.bytes,
                 decoded |-> parcel.decoded, flags |-> parcel.flags]
    /\ parcel.at \in {"new", "encoded", "decoded", "submitted"}
    /\ parcel.sent \in Instructions \cup UserPayloads
    /\ parcel.at = "encoded" => parcel.bytes = Encoded(parcel.sent)
    /\ parcel.at \in {"decoded", "submitted"} => parcel.decoded = Decoded(parcel.sent)
    /\ parcel.at = "submitted" => /\ parcel.sent \in Instructions
                                 /\ parcel.flags = AccountsToWritableFlags(parcel.decoded.accounts)

LEMMA CodecInitially == CodecInit => CodecInv
BY DEF CodecInit, CodecInv

LEMMA CodecStep == CodecInv /\ [CodecNext]_parcel => CodecInv'
<1> SUFFICES ASSUME CodecInv, [CodecNext]_parcel PROVE CodecInv'
  OBVIOUS
<1>1. CASE Encode
  <2>1. /\ parcel'.at = "encoded" /\ parcel'.sent = parcel.sent
        /\ parcel'.bytes = Encoded(parcel.sent)
        /\ parcel' = [at |-> parcel'.at, sent |-> parcel'.sent, bytes |-> parcel'.bytes,
                      decoded |-> parcel'.decoded, flags |-> parcel'.flags]
    BY <1>1 DEF CodecInv, Encode, Encoded
  <2> QED BY <2>1 DEF CodecInv
<1>2. CASE Decode
  <2>1. /\ parcel'.at = "decoded" /\ parcel'.sent = parcel.sent
        /\ parcel' = [at |-> parcel'.at, sent |-> parcel'.sent, bytes |-> parcel'.bytes,
                      decoded |-> parcel'.decoded, flags |-> parcel'.flags]
    BY <1>2 DEF CodecInv, Decode
  <2>2. parcel'.decoded = IF parcel.sent \in Instructions THEN DecodeExecutePayload(parcel.bytes)
                          ELSE DecodeUniversalPayload(parcel.bytes)
    BY <1>2 DEF CodecInv, Decode
  <2>3. parcel.bytes = Encoded(parcel.sent)
    BY <1>2 DEF CodecInv, Decode
  <2>4. parcel'.decoded = Decoded(parcel.sent)
    BY <2>2, <2>3, InstructionReadsBack DEF Encoded, Decoded
  <2> QED BY <2>1, <2>4 DEF CodecInv
<1>3. CASE Submit
  <2>1. /\ parcel'.at = "submitted" /\ parcel'.sent = parcel.sent
        /\ parcel'.decoded = parcel.decoded /\ parcel.at = "decoded"
        /\ parcel.sent \in Instructions
        /\ parcel'.flags = AccountsToWritableFlags(parcel.decoded.accounts)
        /\ parcel' = [at |-> parcel'.at, sent |-> parcel'.sent, bytes |-> parcel'.bytes,
                      decoded |-> parcel'.decoded, flags |-> parcel'.flags]
    BY <1>3 DEF CodecInv, Submit
  <2> QED BY <2>1 DEF CodecInv
<1>4. CASE UNCHANGED parcel
  BY <1>4 DEF CodecInv
<1> QED BY <1>1, <1>2, <1>3, <1>4 DEF CodecNext

LEMMA CodecInvariant == CodecSpec => []CodecInv
BY CodecInitially, CodecStep, PTL DEF CodecSpec

\* Whatever the accounts and the data of an instruction, within what 32 bits can count, the
\* gateway program calls the target with them.
THEOREM InstructionsArrive == CodecSpec => []ProgramSeesTheInstruction
<1>1. CodecInv => ProgramSeesTheInstruction
  <2> SUFFICES ASSUME CodecInv, parcel.at = "submitted"
               PROVE  LET accounts == parcel.decoded.accounts
                      IN  /\ Len(parcel.flags) = FlagsLen(Len(accounts))
                          /\ ReconstructAccounts([i \in DOMAIN accounts |-> accounts[i].pubkey],
                                                 parcel.flags) = parcel.sent.accounts
                          /\ parcel.decoded.ixData = parcel.sent.ixData
                          /\ parcel.decoded.targetProgram = parcel.sent.target
    BY DEF ProgramSeesTheInstruction
  <2> DEFINE ix == parcel.sent
             accounts == parcel.decoded.accounts
  <2>1. /\ ix \in Instructions /\ parcel.decoded = InstructionToPayloadFields(ix)
        /\ parcel.flags = AccountsToWritableFlags(accounts)
    BY DEF CodecInv, Decoded
  <2>2. /\ accounts = ix.accounts /\ parcel.decoded.ixData = ix.ixData
        /\ parcel.decoded.targetProgram = ix.target
    BY <2>1 DEF InstructionToPayloadFields
  <2>3. accounts \in Seq(AccountMeta) /\ Len(accounts) \in Nat
    BY <2>1, <2>2, InstructionTypes
  <2> HIDE DEF accounts
  <2>4. ReconstructAccounts([i \in DOMAIN accounts |-> accounts[i].pubkey], parcel.flags)
            = accounts
    BY <2>1, <2>3, ReconstructedAccounts
  <2>5. Len(parcel.flags) = FlagsLen(Len(accounts))
    <3>1. FlagsLen(Len(accounts)) \in Nat
      BY <2>3, SMT DEF FlagsLen
    <3> QED BY <2>1, <3>1 DEF AccountsToWritableFlags
  <2> QED BY <2>2, <2>4, <2>5 DEF accounts
<1> QED BY <1>1, CodecInvariant, PTL

\* decode-tx.js prints the payload that was deposited, whatever its data and its numbers below
\* 2^53.
THEOREM PayloadsAreReadExactly == CodecSpec => []DecodedPayloadIsExact
<1>1. CodecInv => DecodedPayloadIsExact
  <2> SUFFICES ASSUME CodecInv, parcel.at = "decoded", parcel.sent \in UserPayloads,
                      ~(parcel.sent.value >= SAFE), ~(parcel.sent.deadline >= SAFE)
               PROVE  parcel.decoded = parcel.sent
    BY DEF DecodedPayloadIsExact
  <2> DEFINE p == parcel.sent
  <2>1. p \notin Instructions
    <3>1. /\ p \in [to : Seq(Byte), value : Nat, data : Seq(Byte), deadline : Nat,
                    vType : {"SignedVerification", "UniversalTxVerification"}]
          /\ p \in Instructions =>
                 p \in [target : Seq(Byte), accounts : Seq(AccountMeta), ixData : Seq(Byte)]
      BY CodecAssumption
    <3> QED BY <3>1, Zenon
  <2>2. p.value < SAFE /\ p.deadline < SAFE
    BY CodecAssumption, PayloadTypes, SMT
  <2>3. DecodeUniversalPayload(SerializePayload(p)) = p
    BY <2>2, PayloadReadsBack
  <2> QED BY <2>1, <2>3 DEF CodecInv, Decoded
<1> QED BY <1>1, CodecInvariant, PTL

================================================================================
