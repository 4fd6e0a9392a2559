------------------------------ MODULE LookupTables ------------------------------
(***************************************************************************)
(* The scripts around address lookup tables (ALTs) on Solana: three that   *)
(* create tables and write their addresses to files, two for maintenance,  *)
(* and the AltHelper that loads the files. They share the admin's key, the *)
(* chain and the working directory. A table's address is a function of the *)
(* authority and a recent slot, so it is modelled as the slot. Tables are  *)
(* also deactivated and closed, with the command line tools of Solana.     *)
(***************************************************************************)
EXTENDS TokenTools

CONSTANTS
    Labels,             \* programs universal-alt.json has entries for
    NoTable,
    MaxAttempts,        \* maxAttempts
    MaxSlot             \* bound: the slots in which a script looks at the clock

ASSUME TablesAssumption == MaxAttempts \in Nat \ {0} /\ MaxSlot \in Nat /\ NoTable \notin Nat

VARIABLES
    slot,
    tables,             \* slot -> [accounts, state], where a table was created; a closed one
                        \* with the accounts it had
    failed,             \* history: tables of which a transaction landed and failed
    tokensFile,         \* alt-config-tokens.json: a set of [symbol, mint, table]
    protocolFile,       \* alt-config-protocol.json: a table
    universalFile,      \* universal-alt.json: label -> table
    tokenRun,           \* create-token-alt.ts [at, todo, token, first, slot, attempt, entries, made]
    protocolRun,        \* create-protocol-alt.ts [at, slot]
    universalRun,       \* create-universal-alt.ts [at, label, slot]
    helper,             \* AltHelper [protocol, tokens, fetched, transaction]
    answer              \* of the maintenance scripts: [says, table]

fileVars  == <<tokensFile, protocolFile, universalFile>>
chainVars == <<slot, tables, failed>>
tableVars == <<chainVars, fileVars, tokenRun, protocolRun, universalRun, helper, answer>>

Slots == 0..MaxSlot
IdleTokenRun == [at |-> "off", todo |-> {}, token |-> [symbol |-> "", mint |-> NoMint],
                 first |-> 0, slot |-> 0, attempt |-> 0, entries |-> {}, made |-> {}]

NoTransaction == [mint |-> NoMint, ofProtocol |-> {}, ofToken |-> {}]
NoHelper == [protocol |-> NoTable, tokens |-> {}, fetched |-> {}, transaction |-> NoTransaction]

TablesInit ==
    /\ ToolsInit
    /\ slot = 0 /\ tables = <<>> /\ failed = {}
    /\ tokensFile = {} /\ protocolFile = NoTable /\ universalFile = [l \in Labels |-> NoTable]
    /\ tokenRun = IdleTokenRun
    /\ protocolRun = [at |-> "off", slot |-> 0]
    /\ universalRun = [at |-> "off", label |-> "", slot |-> 0]
    /\ helper = NoHelper
    /\ answer = [says |-> "", table |-> NoTable]

--------------------------------------------------------------------------------
(* A transaction that creates or extends a table. *)

OnChain(t) == t \in DOMAIN tables /\ tables[t].state # "closed"

\* "stale": refused, not a recent slot; "error": refused otherwise; "failed": it lands and
\* fails, which confirmTransaction reports in a value no script looks at.
SendResults == {"done", "late", "failed", "error", "stale"}
ThrowsIfStale(result) == result = "stale"
Throws(result) == result \in {"late", "error", "stale"}

\* A slot makes one table: a second creation is refused or fails, and the slot is no recent one
\* when the table has been closed.
CreateTable(s, accounts, result) ==
    /\ s \in DOMAIN tables => result \in IF OnChain(s) THEN {"failed", "error"}
                                         ELSE {"stale", "error"}
    /\ tables' = IF Landed(result)
                 THEN [t \in DOMAIN tables \cup {s} |->
                          IF t = s THEN [accounts |-> accounts, state |-> "active"]
                              ELSE tables[t]]
                 ELSE tables
    /\ failed' = IF result = "failed" THEN failed \cup {s} ELSE failed
    /\ UNCHANGED slot

NextSlot ==
    /\ slot < MaxSlot
    /\ slot' = slot + 1
    /\ UNCHANGED <<toolVars, tables, failed, fileVars, tokenRun, protocolRun, universalRun,
                   helper, answer>>

--------------------------------------------------------------------------------
(* create-token-alt.ts *)

TokenAccounts(mint) == {<<"mint", mint>>, <<"vault_ata", mint>>}

\* loadTokenConfigs: of two files with the same mint, one.
LoadTokenConfigs ==
    {files \in SUBSET {[symbol |-> s, mint |-> tokenFile[s]] : s \in Symbols} :
        /\ \A f \in files : f.mint # NoMint
        /\ {f.mint : f \in files} = Range(tokenFile) \ {NoMint}
        /\ \A f, g \in files : f.mint = g.mint => f = g}

StartTokenScript ==
    /\ tokenRun.at = "off"
    /\ \E files \in LoadTokenConfigs :
           /\ files # {}
           /\ tokenRun' = [IdleTokenRun EXCEPT !.at = "next", !.todo = files]
    /\ UNCHANGED <<toolVars, chainVars, fileVars, protocolRun, universalRun, helper, answer>>

\* A token whose mint is not on the cluster is skipped, as is one whose look-up throws.
SkipToken(token) ==
    /\ tokenRun.at = "next" /\ token \in tokenRun.todo
    /\ tokenRun' = [tokenRun EXCEPT !.todo = @ \ {token}]
    /\ UNCHANGED <<toolVars, chainVars, fileVars, protocolRun, universalRun, helper, answer>>

BeginToken(token) ==
    /\ tokenRun.at = "next" /\ token \in tokenRun.todo
    /\ token.mint \in DOMAIN mintSupply
    /\ tokenRun' = [tokenRun EXCEPT !.at = "send", !.todo = @ \ {token}, !.token = token,
                                    !.first = slot, !.slot = slot, !.attempt = 1, !.made = {}]
    /\ UNCHANGED <<toolVars, chainVars, fileVars, protocolRun, universalRun, helper, answer>>

\* One attempt; only a slot found stale is tried again, with the slot of the day.
RetriesAfterError(result, attempt) == Throws(result) /\ attempt < MaxAttempts
Retries(result, attempt) == result = "stale" /\ attempt < MaxAttempts
NotCounted(attempt) == attempt
NextAttempt(attempt) == attempt + 1

SendTokenTable(result) ==
    /\ tokenRun.at = "send"
    /\ CreateTable(tokenRun.slot, TokenAccounts(tokenRun.token.mint), result)
    /\ LET made == IF Landed(result) THEN tokenRun.made \cup {tokenRun.slot} ELSE tokenRun.made
       IN  tokenRun' =
               IF ~Throws(result) THEN [tokenRun EXCEPT !.at = "poll", !.made = made]
               ELSE IF Retries(result, tokenRun.attempt)
               THEN [tokenRun EXCEPT !.at = "getSlot", !.attempt = NextAttempt(@), !.made = made]
               ELSE [tokenRun EXCEPT !.at = "next", !.made = made]
    /\ UNCHANGED <<toolVars, fileVars, protocolRun, universalRun, helper, answer>>

GetAttemptSlot ==
    /\ tokenRun.at = "getSlot"
    /\ tokenRun' = [tokenRun EXCEPT !.at = "send", !.slot = slot]
    /\ UNCHANGED <<toolVars, chainVars, fileVars, protocolRun, universalRun, helper, answer>>

\* lookupTableAddress, which the first attempt's address was before.
FirstAddress == tokenRun.first
LookupTableAddress == tokenRun.slot

\* The table is polled for, and the token listed whether or not it was seen; a call that throws
\* loses the token.
PollTokenTable(answered) ==
    /\ tokenRun.at = "poll"
    /\ tokenRun' = [tokenRun EXCEPT
           !.at = "next",
           !.entries = IF answered
                       THEN @ \cup {[symbol |-> tokenRun.token.symbol,
                                     mint |-> tokenRun.token.mint, table |-> LookupTableAddress]}
                       ELSE @]
    /\ UNCHANGED <<toolVars, chainVars, fileVars, protocolRun, universalRun, helper, answer>>

SaveTokenTables ==
    /\ tokenRun.at = "next" /\ tokenRun.todo = {}
    /\ tokensFile' = tokenRun.entries
    /\ tokenRun' = IdleTokenRun
    /\ UNCHANGED <<toolVars, chainVars, protocolFile, universalFile, protocolRun, universalRun,
                   helper, answer>>

--------------------------------------------------------------------------------
(* create-protocol-alt.ts: one attempt. *)

StartProtocolScript ==
    /\ protocolRun.at = "off"
    /\ protocolRun' = [at |-> "send", slot |-> slot]
    /\ UNCHANGED <<toolVars, chainVars, fileVars, tokenRun, universalRun, helper, answer>>

SendProtocolTable(result) ==
    /\ protocolRun.at = "send"
    /\ CreateTable(protocolRun.slot, {<<"protocol", NoMint>>}, result)
    /\ protocolRun' = [protocolRun EXCEPT !.at = IF Throws(result) THEN "off" ELSE "poll"]
    /\ UNCHANGED <<toolVars, fileVars, tokenRun, universalRun, helper, answer>>

SaveProtocolTable(answered) ==
    /\ protocolRun.at = "poll"
    /\ protocolFile' = IF answered THEN protocolRun.slot ELSE protocolFile
    /\ protocolRun' = [protocolRun EXCEPT !.at = "off"]
    /\ UNCHANGED <<toolVars, chainVars, tokensFile, universalFile, tokenRun, universalRun,
                   helper, answer>>

--------------------------------------------------------------------------------
(* create-universal-alt.ts: creation and extension are two transactions. *)

UniversalAccounts == {<<"universal", NoMint>>}

\* The slot is a finalized one, some time ago.
StartUniversalScript(label, s) ==
    /\ universalRun.at = "off" /\ s <= slot
    /\ universalRun' = [at |-> "create", label |-> label, slot |-> s]
    /\ UNCHANGED <<toolVars, chainVars, fileVars, tokenRun, protocolRun, helper, answer>>

CreateUniversalTable(result) ==
    /\ universalRun.at = "create"
    /\ CreateTable(universalRun.slot, {}, result)
    /\ universalRun' = [universalRun EXCEPT !.at = IF Throws(result) THEN "off" ELSE "extend"]
    /\ UNCHANGED <<toolVars, fileVars, tokenRun, protocolRun, helper, answer>>

\* After the extension the entry is written, and the other labels' are kept.
ExtendUniversalTable(result) ==
    LET table == universalRun.slot
    IN  /\ universalRun.at = "extend"
        /\ result # "stale"
        /\ Landed(result) => OnChain(table) /\ tables[table].state = "active"
        /\ tables' = IF Landed(result)
                     THEN [tables EXCEPT ![table].accounts = @ \cup UniversalAccounts]
                     ELSE tables
        /\ failed' = IF result = "failed" THEN failed \cup {table} ELSE failed
        /\ universalFile' = IF Throws(result) THEN universalFile
                            ELSE [universalFile EXCEPT ![universalRun.label] = table]
        /\ universalRun' = [universalRun EXCEPT !.at = "off"]
        /\ UNCHANGED <<toolVars, slot, tokensFile, protocolFile, tokenRun, protocolRun, helper,
                       answer>>

--------------------------------------------------------------------------------
(* extend-alt.ts and deactivate-alt.ts *)

\* web3.js gives an active table the greatest u64 as its deactivationSlot, never undefined.
DeactivationSlot(t) == IF tables[t].state = "active" THEN "u64::MAX" ELSE "a slot"
Refusal(t) ==
    IF ~OnChain(t) THEN "not found"
    ELSE IF DeactivationSlot(t) # "undefined" THEN "deactivated" ELSE ""

ExtendAlt(t, accounts, result) ==
    /\ answer' = [says |-> Refusal(t), table |-> t]
    /\ tables' = IF Refusal(t) = "" /\ Landed(result)
                 THEN [tables EXCEPT ![t].accounts = @ \cup accounts] ELSE tables
    /\ UNCHANGED <<toolVars, slot, failed, fileVars, tokenRun, protocolRun, universalRun, helper>>

DeactivateAlt(t, result) ==
    /\ answer' = [says |-> Refusal(t), table |-> t]
    /\ tables' = IF Refusal(t) = "" /\ Landed(result)
                 THEN [tables EXCEPT ![t].state = "deactivated"] ELSE tables
    /\ UNCHANGED <<toolVars, slot, failed, fileVars, tokenRun, protocolRun, universalRun, helper>>

\* The authority's other tool, which deactivates and, some 513 slots later, closes a table.
RetireTable(t) ==
    /\ OnChain(t)
    /\ \/ tables[t].state = "active" /\ tables' = [tables EXCEPT ![t].state = "deactivated"]
       \/ /\ tables[t].state = "deactivated" /\ t < slot
          /\ tables' = [tables EXCEPT ![t].state = "closed"]
    /\ UNCHANGED <<toolVars, slot, failed, fileVars, tokenRun, protocolRun, universalRun, helper,
                   answer>>

--------------------------------------------------------------------------------
(* alt-helper.ts: the files, then the chain, then the tables of a transaction. *)

\* A new process has a new helper.
NewAltHelper ==
    /\ helper # NoHelper
    /\ helper' = NoHelper
    /\ UNCHANGED <<toolVars, chainVars, fileVars, tokenRun, protocolRun, universalRun, answer>>

\* What a file does not name is kept from an earlier load.
LoadFromConfigFiles ==
    /\ helper' = [helper EXCEPT
           !.protocol = IF protocolFile = NoTable THEN @ ELSE protocolFile,
           !.tokens = {e \in @ : \A f \in tokensFile : f.mint # e.mint} \cup tokensFile]
    /\ UNCHANGED <<toolVars, chainVars, fileVars, tokenRun, protocolRun, universalRun, answer>>

\* fetchAltAccounts: what the tables hold at this moment. A deactivated one is fetched too; of
\* one that is not there, or whose request fails, what was fetched before is kept.
ConfiguredTables == {helper.protocol} \cup {e.table : e \in helper.tokens}
Fetched == {t \in ConfiguredTables : OnChain(t)}
Cached(t) == [table |-> t, accounts |-> tables[t].accounts]
FetchAltAccounts ==
    /\ \E answered \in SUBSET Fetched :
           helper' = [helper EXCEPT
               !.fetched = {c \in @ : c.table \notin answered} \cup {Cached(t) : t \in answered}]
    /\ UNCHANGED <<toolVars, chainVars, fileVars, tokenRun, protocolRun, universalRun, answer>>

\* getAltsForTransaction: the protocol's table and the token's; strict insists on the latter.
AnyTableConfigured(t, mint) == t \in ConfiguredTables
TableConfigured(t, mint) == \E e \in helper.tokens : e.mint = mint /\ e.table = t
GetAltsForTransaction(mint, strict) ==
    LET ofToken == {c \in helper.fetched : TableConfigured(c.table, mint)}
        ofProtocol == {c \in helper.fetched : c.table = helper.protocol}
    IN  /\ strict /\ mint # NoMint => ofToken # {}
        /\ helper' = [helper EXCEPT !.transaction = [mint |-> mint, ofProtocol |-> ofProtocol,
                                                     ofToken |-> ofToken]]
        /\ UNCHANGED <<toolVars, chainVars, fileVars, tokenRun, protocolRun, universalRun,
                       answer>>

--------------------------------------------------------------------------------
ScriptDies ==
    /\ \/ tokenRun.at # "off" /\ tokenRun' = IdleTokenRun
                              /\ UNCHANGED <<protocolRun, universalRun>>
       \/ protocolRun.at # "off" /\ protocolRun' = [protocolRun EXCEPT !.at = "off"]
                                 /\ UNCHANGED <<tokenRun, universalRun>>
       \/ universalRun.at # "off" /\ universalRun' = [universalRun EXCEPT !.at = "off"]
                                  /\ UNCHANGED <<tokenRun, protocolRun>>
    /\ UNCHANGED <<toolVars, chainVars, fileVars, helper, answer>>

TokenScriptStep ==
    \/ \E token \in tokenRun.todo : SkipToken(token) \/ BeginToken(token)
    \/ \E result \in SendResults : SendTokenTable(result)
    \/ GetAttemptSlot
    \/ \E answered \in BOOLEAN : PollTokenTable(answered)
    \/ SaveTokenTables

ProtocolScriptStep ==
    \/ \E result \in SendResults : SendProtocolTable(result)
    \/ \E answered \in BOOLEAN : SaveProtocolTable(answered)

UniversalScriptStep ==
    \E result \in SendResults : CreateUniversalTable(result) \/ ExtendUniversalTable(result)

CreationStarts ==
    \/ StartTokenScript
    \/ StartProtocolScript
    \/ \E label \in Labels, s \in Slots : StartUniversalScript(label, s)

Maintenance ==
    \E t \in Slots, result \in Results :
        ExtendAlt(t, UniversalAccounts, result) \/ DeactivateAlt(t, result)

HelperStep ==
    \/ NewAltHelper
    \/ LoadFromConfigFiles
    \/ FetchAltAccounts
    \/ \E mint \in Mints \cup {NoMint}, strict \in BOOLEAN : GetAltsForTransaction(mint, strict)

TablesNext ==
    \/ ToolsNext /\ UNCHANGED tableVars
    \/ CreationStarts \/ TokenScriptStep \/ ProtocolScriptStep \/ UniversalScriptStep
    \/ ScriptDies \/ Maintenance \/ HelperStep \/ NextSlot
    \/ \E t \in Slots : RetireTable(t)

\* A running script goes on: every call it waits for returns or throws.
TablesSpec ==
    /\ TablesInit /\ [][TablesNext]_<<toolVars, tableVars>>
    /\ WF_<<toolVars, tableVars>>(TokenScriptStep)
    /\ WF_<<toolVars, tableVars>>(ProtocolScriptStep)
    /\ WF_<<toolVars, tableVars>>(UniversalScriptStep)

--------------------------------------------------------------------------------
(* Properties. *)

\* The table listed for a token holds, or held until it was closed, that token's mint and vault
\* account, however many attempts it took and whoever else made tables meanwhile; except where a
\* transaction failed on chain after its simulation had passed, of which the scripts do not take
\* notice.
TokenEntriesNameTheirTables ==
    \A e \in tokensFile :
        \/ e.table \in failed
        \/ e.table \in DOMAIN tables /\ TokenAccounts(e.mint) \subseteq tables[e.table].accounts

\* A run makes one table of a token at most: it never tries again what may have landed.
OneTablePerTokenAndRun == Cardinality(tokenRun.made) <= 1

\* A label of universal-alt.json names a table that was created and filled, not one whose
\* second transaction was refused or never sent, whatever became of the table since; failures
\* on chain excepted again.
UniversalEntriesFilled ==
    \A l \in Labels :
        LET t == universalFile[l]
        IN  t \notin failed \cup {NoTable} =>
                t \in DOMAIN tables /\ UniversalAccounts \subseteq tables[t].accounts

\* AltHelper compiles a transaction's accounts into places of the tables as it fetched them, then
\* or long before, from files that may have been rewritten and tables extended, deactivated and
\* closed since. What the places stand for does not change: each table, unless it is closed and
\* the transaction refused for it, still holds all that was fetched of it; and the table taken
\* for a token was fetched with that token's accounts in it, again unless a transaction of it
\* had failed.
TransactionsResolve ==
    LET built == helper.transaction
    IN  /\ \A c \in built.ofProtocol \cup built.ofToken :
               OnChain(c.table) => c.accounts \subseteq tables[c.table].accounts
        /\ \A c \in built.ofToken :
               c.table \in failed \/ TokenAccounts(built.mint) \subseteq c.accounts

\* A started creation of token tables ends, however its attempts turn out.
TokenScriptEnds == tokenRun.at = "send" ~> tokenRun.at = "off"

\* extend-alt.ts extends an existing table; it turns away those that are deactivated.
RefusesOnlyDeactivated == answer.says = "deactivated" => tables[answer.table].state # "active"

================================================================================
