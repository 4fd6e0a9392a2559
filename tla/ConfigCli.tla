------------------------------- MODULE ConfigCli -------------------------------
(***************************************************************************)
(* The operators of the Solana gateway: who may administer and pause it,   *)
(* and the commands of app/config-cli.ts, each one instruction signed with *)
(* the key of the machine it runs on. A command that fails changes         *)
(* nothing; config:show only reads.                                        *)
(***************************************************************************)
EXTENDS SolanaReleases

CONSTANTS
    AdminKeys,      \* keys operators have in upgrade-keypair.json
    NoKey           \* an option that was not given

ASSUME KeysAssumption == NoKey \notin AdminKeys /\ DEFAULT \notin AdminKeys

VARIABLE authority  \* [admin, pauser]

AuthorityType == [admin : AdminKeys, pauser : AdminKeys]

\* gateway-test.ts initializes the gateway with one key for both.
AuthorityInit ==
    /\ ReleaseInit
    /\ authority \in AuthorityType
    /\ authority.admin = authority.pauser

\* The constraints of AdminAction and of PauseAction.
MayAdminister(key) == key = authority.admin
MayPause(key) == key \in {authority.admin, authority.pauser}

programVars == <<releaseVars, authority>>

--------------------------------------------------------------------------------
\* tss:init and tss:update
TssInit(key, new) ==
    /\ MayAdminister(key) /\ "tss_pda" \notin created
    /\ SetSolTss(new) /\ UNCHANGED programVars
TssUpdate(key, new) ==
    /\ MayAdminister(key) /\ "tss_pda" \in created
    /\ SetSolTss(new) /\ UNCHANGED programVars

\* pause and unpause; where the gateway is paused already a pause changes nothing.
Pause(key) ==
    /\ MayPause(key) /\ ~config.paused
    /\ SetSolPaused /\ UNCHANGED programVars
Unpause(key) ==
    /\ MayPause(key) /\ config.paused
    /\ SetSolPaused /\ UNCHANGED programVars

\* authority:set and set_authorities, in a pause too
Given(option, current) == IF option = NoKey THEN current ELSE option
AuthoritySet(key, newAdmin, newPauser) ==
    /\ {newAdmin, newPauser} # {NoKey}
    /\ DEFAULT \notin {newAdmin, newPauser}
    /\ MayAdminister(key)
    /\ authority' = [admin  |-> Given(newAdmin, authority.admin),
                     pauser |-> Given(newPauser, authority.pauser)]
    /\ UNCHANGED allSolVars

\* fee:init
FeeInit(key, fee) ==
    MayAdminister(key) /\ SetSolProtocolFee(fee) /\ UNCHANGED programVars

\* caps:set, which asks for more than the program does
CapsSet(key, min, max) ==
    /\ min < max
    /\ MayAdminister(key)
    /\ SetSolConfig([config EXCEPT !.min = min, !.max = max])
    /\ UNCHANGED programVars

\* pyth:set-feed and pyth:set-conf
PythSetFeed(key, feed) ==
    /\ MayAdminister(key)
    /\ SetSolConfig([config EXCEPT !.priceFeed = feed]) /\ UNCHANGED programVars
PythSetConf(key, threshold) ==
    /\ MayAdminister(key)
    /\ SetSolConfig([config EXCEPT !.confidence = threshold]) /\ UNCHANGED programVars

\* rate:set-block-usd-cap, rate:set-epoch and rate:set-token
RateSetBlockUsdCap(key, cap) ==
    MayAdminister(key) /\ SetSlotUsdCap(cap) /\ UNCHANGED programVars
RateSetEpoch(key, seconds) ==
    MayAdminister(key) /\ SetEpochDuration(seconds) /\ UNCHANGED programVars
RateSetToken(key, token, threshold) ==
    MayAdminister(key) /\ SetTokenRateLimit(token, threshold) /\ UNCHANGED programVars

Command(key) ==
    \/ \E new \in TssStates : TssInit(key, new) \/ TssUpdate(key, new)
    \/ Pause(key)
    \/ Unpause(key)
    \/ \E newAdmin, newPauser \in AdminKeys \cup {NoKey, DEFAULT} :
           AuthoritySet(key, newAdmin, newPauser)
    \/ \E fee \in ProtocolFees : FeeInit(key, fee)
    \/ \E caps \in SolCaps : CapsSet(key, caps[1], caps[2])
    \/ \E feed \in PriceFeeds : PythSetFeed(key, feed)
    \/ \E threshold \in Confidences : PythSetConf(key, threshold)
    \/ \E cap \in SlotCaps : RateSetBlockUsdCap(key, cap)
    \/ \E seconds \in EpochDurations : RateSetEpoch(key, seconds)
    \/ \E token \in SolTokens, threshold \in TokenLimits : RateSetToken(key, token, threshold)

================================================================================
