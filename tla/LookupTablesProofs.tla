--------------------------- MODULE LookupTablesProofs ---------------------------
(***************************************************************************)
(* The invariants of token-cli.ts and of the scripts around lookup tables, *)
(* for every set of symbols, mints and labels and any number of runs. The  *)
(* first part says how far a command of token-cli has come; the second     *)
(* that tables only gain accounts, and a token's accounts only with their  *)
(* creation, so that what was seen of a table stays true of it.            *)
(***************************************************************************)
EXTENDS LookupTables, FiniteSetTheorems, TLAPS

--------------------------------------------------------------------------------
(* token-cli.ts *)

\* What the fields of the command and its state are.
ToolTypeOK ==
    /\ \E minted \in SUBSET Mints : mintSupply \in [minted -> Nat]
    /\ threshold \in [Mints -> Nat]
    /\ tokenFile \in [Symbols -> Mints \cup {NoMint}]
    /\ cli = [at |-> cli.at, symbol |-> cli.symbol, mint |-> cli.mint]

\* What the parts of a command that are done have left for those to come.
CommandUnderWay ==
    /\ cli.at \in {"createMint", "createAccount", "mintTo", "saveToken", "saveSecret",
                   "setThreshold", "createVaultAta"} => cli.mint \in Mints /\ cli.symbol \in Symbols
    /\ cli.at = "createMint" => cli.mint \notin DOMAIN mintSupply
    /\ cli.at \in {"createAccount", "mintTo"} => cli.mint \in DOMAIN mintSupply
    /\ cli.at = "saveToken" => cli.mint \in DOMAIN mintSupply /\ mintSupply[cli.mint] > 0
    /\ cli.at = "createVaultAta" => threshold[cli.mint] > 0

ToolInv ==
    /\ ToolTypeOK /\ CommandUnderWay
    /\ TokenFilesNameMintedTokens /\ WhitelistedIsDepositable
    /\ whitelisted \subseteq Mints

LEMMA ToolsInit_Inv == ToolsInit => ToolInv
<1> SUFFICES ASSUME ToolsInit PROVE ToolInv
  OBVIOUS
<1>1. ToolTypeOK
  <2>1. mintSupply \in [ClusterMints -> Nat] /\ ClusterMints \in SUBSET Mints
    BY TokenAssumption DEF ToolsInit
  <2>2. threshold \in [Mints -> Nat]
    BY DEF ToolsInit
  <2> QED BY <2>1, <2>2, TokenAssumption DEF ToolsInit, ToolTypeOK, NoCommand
<1>2. CommandUnderWay
  BY DEF ToolsInit, CommandUnderWay, NoCommand
<1>3. TokenFilesNameMintedTokens
  <2>1. \A s \in Symbols : CommittedFiles[s] \in Range(CommittedFiles)
    BY TokenAssumption DEF Range
  <2> QED BY <2>1 DEF ToolsInit, TokenFilesNameMintedTokens
<1>4. WhitelistedIsDepositable /\ whitelisted \subseteq Mints
  BY DEF ToolsInit, WhitelistedIsDepositable
<1> QED BY <1>1, <1>2, <1>3, <1>4 DEF ToolInv

\* A supply that only grows where it was leaves the token files true.
LEMMA FilesStayTrue ==
    ASSUME ToolInv, tokenFile' = tokenFile,
           \A m \in DOMAIN mintSupply : /\ m \in DOMAIN mintSupply'
                                        /\ mintSupply[m] > 0 => mintSupply'[m] > 0
    PROVE  TokenFilesNameMintedTokens'
BY DEF ToolInv, TokenFilesNameMintedTokens

\* Tokens minted of a mint that is there.
LEMMA MintedMore ==
    ASSUME ToolTypeOK, NEW mint \in DOMAIN mintSupply,
           mintSupply' = [mintSupply EXCEPT ![mint] = @ + 1]
    PROVE  /\ DOMAIN mintSupply' = DOMAIN mintSupply
           /\ mintSupply'[mint] > 0
           /\ \A m \in DOMAIN mintSupply : mintSupply[m] > 0 => mintSupply'[m] > 0
           /\ \E minted \in SUBSET Mints : mintSupply' \in [minted -> Nat]
<1>1. PICK minted \in SUBSET Mints : mintSupply \in [minted -> Nat]
  BY DEF ToolTypeOK
<1>2. mint \in minted /\ DOMAIN mintSupply = minted
  BY <1>1
<1>3. /\ mintSupply' \in [minted -> Nat]
      /\ mintSupply'[mint] = mintSupply[mint] + 1
      /\ \A m \in minted : m # mint => mintSupply'[m] = mintSupply[m]
  BY <1>1, <1>2
<1>4. mintSupply[mint] \in Nat /\ mintSupply'[mint] > 0
  BY <1>1, <1>2, <1>3, SMT
<1> QED BY <1>1, <1>2, <1>3, <1>4

LEMMA CreateToken_Inv ==
    ASSUME ToolInv, NEW symbol \in Symbols, NEW mint \in Mints, CreateToken(symbol, mint)
    PROVE  ToolInv'
<1>1. /\ cli' = [at |-> "createMint", symbol |-> symbol, mint |-> mint]
      /\ mint \notin DOMAIN mintSupply
      /\ UNCHANGED <<mintSupply, threshold, vaultAtas, tokenFile, secretFile, whitelisted>>
  BY DEF CreateToken
<1> QED BY <1>1 DEF ToolInv, ToolTypeOK, CommandUnderWay, TokenFilesNameMintedTokens,
                    WhitelistedIsDepositable, IsWhitelisted

LEMMA CreateMint_Inv ==
    ASSUME ToolInv, NEW result \in Results, CreateMint(result)
    PROVE  ToolInv'
<1>1. /\ cli.at = "createMint" /\ cli.mint \notin DOMAIN mintSupply /\ cli.mint \in Mints
      /\ cli.symbol \in Symbols
      /\ UNCHANGED <<threshold, vaultAtas, tokenFile, secretFile, whitelisted>>
  BY DEF CreateMint, ToolInv, CommandUnderWay
<1>2. PICK mint \in Mints, symbol \in Symbols : mint = cli.mint /\ symbol = cli.symbol
  BY <1>1
<1>3. /\ mintSupply' = IF ~Landed(result) THEN mintSupply
                       ELSE [m \in DOMAIN mintSupply \cup {mint} |->
                                IF m = mint THEN 0 ELSE mintSupply[m]]
      /\ cli' = IF GoesOn(result) THEN [cli EXCEPT !.at = "createAccount"] ELSE NoCommand
  BY <1>2 DEF CreateMint, Proceeds
<1>4. /\ \A m \in DOMAIN mintSupply : m \in DOMAIN mintSupply' /\ mintSupply'[m] = mintSupply[m]
      /\ Landed(result) => mint \in DOMAIN mintSupply'
      /\ \E minted \in SUBSET Mints : mintSupply' \in [minted -> Nat]
  <2>1. PICK minted \in SUBSET Mints : mintSupply \in [minted -> Nat]
    BY DEF ToolInv, ToolTypeOK
  <2>2. CASE Landed(result)
    <3>1. mintSupply' = [m \in minted \cup {mint} |-> IF m = mint THEN 0 ELSE mintSupply[m]]
      BY <1>3, <2>1, <2>2
    <3>2. mintSupply' \in [minted \cup {mint} -> Nat] /\ minted \cup {mint} \in SUBSET Mints
      BY <1>1, <1>2, <2>1, <3>1
    <3> QED BY <1>1, <1>2, <2>1, <3>1, <3>2
  <2> QED BY <1>3, <2>1, <2>2
<1>5. TokenFilesNameMintedTokens'
  BY <1>1, <1>4, FilesStayTrue
<1>6. \/ cli' = [at |-> "createAccount", symbol |-> symbol, mint |-> mint] /\ Landed(result)
      \/ cli' = NoCommand
  BY <1>2, <1>3 DEF GoesOn, Landed, ToolInv, ToolTypeOK
<1>7. ToolTypeOK'
  BY <1>1, <1>4, <1>6 DEF ToolInv, ToolTypeOK, NoCommand
<1>8. CommandUnderWay'
  <2>1. CASE cli' = NoCommand
    BY <2>1 DEF CommandUnderWay, NoCommand
  <2>2. CASE cli' = [at |-> "createAccount", symbol |-> symbol, mint |-> mint] /\ Landed(result)
    <3>1. cli'.at = "createAccount" /\ cli'.mint = mint /\ cli'.symbol = symbol
      BY <2>2
    <3>2. mint \in DOMAIN mintSupply'
      BY <1>4, <2>2
    <3> QED BY <3>1, <3>2 DEF CommandUnderWay
  <2> QED BY <1>6, <2>1, <2>2
<1> QED BY <1>1, <1>5, <1>7, <1>8 DEF ToolInv, WhitelistedIsDepositable, IsWhitelisted

LEMMA CreateTokenAccount_Inv ==
    ASSUME ToolInv, NEW result \in Results, NEW readAgain \in BOOLEAN,
           CreateTokenAccount(result, readAgain)
    PROVE  ToolInv'
<1>1. PICK mint \in Mints, symbol \in Symbols : mint = cli.mint /\ symbol = cli.symbol
  BY DEF CreateTokenAccount, ToolInv, CommandUnderWay
<1>2. /\ mint \in DOMAIN mintSupply
      /\ UNCHANGED <<mintSupply, threshold, vaultAtas, tokenFile, secretFile, whitelisted>>
      /\ \/ cli' = [at |-> "mintTo", symbol |-> symbol, mint |-> mint]
         \/ cli' = NoCommand
  BY <1>1 DEF CreateTokenAccount, ToolInv, ToolTypeOK, CommandUnderWay
<1>3. TokenFilesNameMintedTokens' /\ WhitelistedIsDepositable' /\ whitelisted' \subseteq Mints
  BY <1>2 DEF ToolInv, TokenFilesNameMintedTokens, WhitelistedIsDepositable, IsWhitelisted
<1>4. ToolTypeOK'
  BY <1>2 DEF ToolInv, ToolTypeOK, NoCommand
<1>5. CommandUnderWay'
  <2>1. CASE cli' = NoCommand
    BY <2>1 DEF CommandUnderWay, NoCommand
  <2>2. CASE cli' = [at |-> "mintTo", symbol |-> symbol, mint |-> mint]
    <3>1. cli'.at = "mintTo" /\ cli'.mint = mint /\ cli'.symbol = symbol
      BY <2>2
    <3>2. mint \in DOMAIN mintSupply'
      BY <1>2
    <3> QED BY <3>1, <3>2 DEF CommandUnderWay
  <2> QED BY <1>2, <2>1, <2>2
<1> QED BY <1>3, <1>4, <1>5 DEF ToolInv

LEMMA MintInitialSupply_Inv ==
    ASSUME ToolInv, NEW result \in Results, MintInitialSupply(result)
    PROVE  ToolInv'
<1>1. /\ cli.at = "mintTo" /\ cli.mint \in DOMAIN mintSupply /\ cli.mint \in Mints
      /\ cli.symbol \in Symbols
      /\ UNCHANGED <<threshold, vaultAtas, tokenFile, secretFile, whitelisted>>
  BY DEF MintInitialSupply, ToolInv, CommandUnderWay
<1>2. PICK mint \in Mints, symbol \in Symbols : mint = cli.mint /\ symbol = cli.symbol
  BY <1>1
<1>3. /\ mintSupply' = IF Landed(result) THEN [mintSupply EXCEPT ![mint] = @ + 1]
                       ELSE mintSupply
      /\ cli' = IF GoesOn(result) THEN [cli EXCEPT !.at = "saveToken"] ELSE NoCommand
  BY <1>1, <1>2 DEF MintInitialSupply, Proceeds
<1>4. /\ DOMAIN mintSupply' = DOMAIN mintSupply
      /\ \A m \in DOMAIN mintSupply : mintSupply[m] > 0 => mintSupply'[m] > 0
      /\ Landed(result) => mintSupply'[mint] > 0
      /\ \E minted \in SUBSET Mints : mintSupply' \in [minted -> Nat]
  BY <1>1, <1>2, <1>3, MintedMore DEF ToolInv, ToolTypeOK
<1>5. TokenFilesNameMintedTokens'
  BY <1>1, <1>4, FilesStayTrue
<1>6. \/ cli' = [at |-> "saveToken", symbol |-> symbol, mint |-> mint] /\ Landed(result)
      \/ cli' = NoCommand
  BY <1>2, <1>3 DEF GoesOn, Landed, ToolInv, ToolTypeOK
<1>7. ToolTypeOK'
  BY <1>1, <1>4, <1>6 DEF ToolInv, ToolTypeOK, NoCommand
<1>8. CommandUnderWay'
  <2>1. CASE cli' = NoCommand
    BY <2>1 DEF CommandUnderWay, NoCommand
  <2>2. CASE cli' = [at |-> "saveToken", symbol |-> symbol, mint |-> mint] /\ Landed(result)
    <3>1. cli'.at = "saveToken" /\ cli'.mint = mint /\ cli'.symbol = symbol
      BY <2>2
    <3>2. mint \in DOMAIN mintSupply' /\ mintSupply'[mint] > 0
      BY <1>1, <1>2, <1>4, <2>2
    <3> QED BY <3>1, <3>2 DEF CommandUnderWay
  <2> QED BY <1>6, <2>1, <2>2
<1> QED BY <1>1, <1>5, <1>7, <1>8 DEF ToolInv, WhitelistedIsDepositable, IsWhitelisted

LEMMA SaveTokenInfo_Inv ==
    ASSUME ToolInv, SaveTokenInfo
    PROVE  ToolInv'
<1>1. CASE cli.at = "saveToken"
  <2>1. PICK mint \in Mints, symbol \in Symbols : mint = cli.mint /\ symbol = cli.symbol
    BY <1>1 DEF ToolInv, CommandUnderWay
  <2>2. /\ mint \in DOMAIN mintSupply /\ mintSupply[mint] > 0
        /\ tokenFile' = [tokenFile EXCEPT ![symbol] = mint]
        /\ cli' = [cli EXCEPT !.at = "saveSecret"]
        /\ UNCHANGED <<mintSupply, threshold, vaultAtas, secretFile, whitelisted>>
    BY <1>1, <2>1 DEF SaveTokenInfo, ToolInv, CommandUnderWay
  <2>3. /\ tokenFile' \in [Symbols -> Mints \cup {NoMint}]
        /\ \A s \in Symbols : tokenFile'[s] = IF s = symbol THEN mint ELSE tokenFile[s]
    BY <2>1, <2>2 DEF ToolInv, ToolTypeOK
  <2>4. TokenFilesNameMintedTokens'
    BY <2>2, <2>3 DEF ToolInv, TokenFilesNameMintedTokens
  <2> QED BY <2>1, <2>2, <2>3, <2>4 DEF ToolInv, ToolTypeOK, CommandUnderWay,
                                        WhitelistedIsDepositable, IsWhitelisted
<1>2. CASE cli.at # "saveToken"
  <2>1. cli' = NoCommand /\ UNCHANGED <<mintSupply, threshold, vaultAtas, tokenFile, whitelisted>>
    BY <1>2 DEF SaveTokenInfo
  <2> QED BY <2>1 DEF ToolInv, ToolTypeOK, CommandUnderWay, NoCommand,
                      TokenFilesNameMintedTokens, WhitelistedIsDepositable, IsWhitelisted
<1> QED BY <1>1, <1>2

LEMMA MintTokens_Inv ==
    ASSUME ToolInv, NEW symbol \in Symbols, NEW bySymbol \in BOOLEAN,
           MintTokens(symbol, bySymbol)
    PROVE  ToolInv'
<1>1. PICK mint : mint = Named(symbol)
  OBVIOUS
<1>2. /\ cli = NoCommand /\ mint \in DOMAIN mintSupply
      /\ mintSupply' = [mintSupply EXCEPT ![mint] = @ + 1]
      /\ UNCHANGED <<threshold, vaultAtas, tokenFile, secretFile, cli, whitelisted>>
  BY <1>1 DEF MintTokens
<1>3. /\ DOMAIN mintSupply' = DOMAIN mintSupply
      /\ \A m \in DOMAIN mintSupply : mintSupply[m] > 0 => mintSupply'[m] > 0
      /\ \E minted \in SUBSET Mints : mintSupply' \in [minted -> Nat]
  BY <1>2, MintedMore DEF ToolInv
<1>4. TokenFilesNameMintedTokens'
  BY <1>2, <1>3, FilesStayTrue
<1> QED BY <1>2, <1>3, <1>4 DEF ToolInv, ToolTypeOK, CommandUnderWay, NoCommand,
                                WhitelistedIsDepositable, IsWhitelisted

LEMMA Whitelist_Inv ==
    ASSUME ToolInv, NEW symbol \in Symbols, Whitelist(symbol)
    PROVE  ToolInv'
<1>1. /\ cli' = [at |-> "setThreshold", symbol |-> symbol, mint |-> Named(symbol)]
      /\ Named(symbol) \in Mints
      /\ UNCHANGED <<mintSupply, threshold, vaultAtas, tokenFile, secretFile, whitelisted>>
  BY DEF Whitelist, Named, ToolInv, ToolTypeOK
<1> QED BY <1>1 DEF ToolInv, ToolTypeOK, CommandUnderWay, TokenFilesNameMintedTokens,
                    WhitelistedIsDepositable, IsWhitelisted

LEMMA SetThreshold_Inv ==
    ASSUME ToolInv, NEW result \in Results, SetThreshold(result)
    PROVE  ToolInv'
<1>1. PICK mint \in Mints, symbol \in Symbols : mint = cli.mint /\ symbol = cli.symbol
  BY DEF ToolInv, CommandUnderWay, SetThreshold
<1>2. /\ threshold' = IF Landed(result) THEN [threshold EXCEPT ![mint] = 1] ELSE threshold
      /\ cli' = IF GoesOn(result) THEN [cli EXCEPT !.at = "createVaultAta"] ELSE NoCommand
      /\ UNCHANGED <<mintSupply, vaultAtas, tokenFile, secretFile, whitelisted>>
  BY <1>1 DEF SetThreshold, Proceeds
<1>3. /\ threshold' \in [Mints -> Nat]
      /\ \A m \in Mints : threshold[m] > 0 => threshold'[m] > 0
      /\ Landed(result) => threshold'[mint] > 0
  BY <1>2, SMT DEF ToolInv, ToolTypeOK
<1>4. \/ cli' = [at |-> "createVaultAta", symbol |-> symbol, mint |-> mint] /\ Landed(result)
      \/ cli' = NoCommand
  BY <1>1, <1>2 DEF GoesOn, Landed, ToolInv, ToolTypeOK
<1>5. ToolTypeOK' /\ CommandUnderWay'
  BY <1>2, <1>3, <1>4 DEF ToolInv, ToolTypeOK, CommandUnderWay, NoCommand
<1>6. WhitelistedIsDepositable'
  BY <1>2, <1>3 DEF ToolInv, WhitelistedIsDepositable, IsWhitelisted
<1> QED BY <1>2, <1>5, <1>6 DEF ToolInv, TokenFilesNameMintedTokens

LEMMA CreateVaultAta_Inv ==
    ASSUME ToolInv, NEW result \in Results, CreateVaultAta(result)
    PROVE  ToolInv'
<1>1. /\ cli.mint \in Mints /\ threshold[cli.mint] > 0 /\ cli' = NoCommand
      /\ vaultAtas' = IF Landed(result) THEN vaultAtas \cup {cli.mint} ELSE vaultAtas
      /\ whitelisted' = IF GoesOn(result) THEN whitelisted \cup {cli.mint} ELSE whitelisted
      /\ UNCHANGED <<mintSupply, threshold, tokenFile, secretFile>>
  BY DEF CreateVaultAta, ToolInv, CommandUnderWay
<1>2. whitelisted' \subseteq Mints /\ WhitelistedIsDepositable'
  BY <1>1 DEF ToolInv, WhitelistedIsDepositable, IsWhitelisted, GoesOn, Landed
<1> QED BY <1>1, <1>2 DEF ToolInv, ToolTypeOK, CommandUnderWay, NoCommand,
                          TokenFilesNameMintedTokens

LEMMA Unwhitelist_Inv ==
    ASSUME ToolInv, NEW symbol \in Symbols, NEW result \in Results, Unwhitelist(symbol, result)
    PROVE  ToolInv'
<1>1. PICK mint \in Mints : mint = Named(symbol)
  BY DEF Unwhitelist, Named, ToolInv, ToolTypeOK
<1>2. /\ cli = NoCommand /\ whitelisted' = whitelisted \ {mint}
      /\ threshold' = IF Landed(result) THEN [threshold EXCEPT ![mint] = 0] ELSE threshold
      /\ UNCHANGED <<mintSupply, vaultAtas, tokenFile, secretFile, cli>>
  BY <1>1 DEF Unwhitelist
<1>3. /\ threshold' \in [Mints -> Nat]
      /\ \A m \in Mints \ {mint} : threshold'[m] = threshold[m]
  BY <1>2, SMT DEF ToolInv, ToolTypeOK
<1>4. WhitelistedIsDepositable' /\ whitelisted' \subseteq Mints
  BY <1>2, <1>3 DEF ToolInv, WhitelistedIsDepositable, IsWhitelisted
<1> QED BY <1>2, <1>3, <1>4 DEF ToolInv, ToolTypeOK, CommandUnderWay, NoCommand,
                                TokenFilesNameMintedTokens

LEMMA ToolsStep_Inv ==
    ASSUME ToolInv, ToolsNext \/ UNCHANGED toolVars PROVE ToolInv'
<1>1. CASE CliStarts
  BY <1>1, CreateToken_Inv, MintTokens_Inv, Whitelist_Inv, Unwhitelist_Inv DEF CliStarts
<1>2. CASE CliStep
  BY <1>2, CreateMint_Inv, MintInitialSupply_Inv, SetThreshold_Inv, CreateVaultAta_Inv,
     CreateTokenAccount_Inv, SaveTokenInfo_Inv DEF CliStep
<1>3. CASE CliDies
  BY <1>3 DEF CliDies, ToolInv, ToolTypeOK, CommandUnderWay, NoCommand,
              TokenFilesNameMintedTokens, WhitelistedIsDepositable, IsWhitelisted
<1>4. CASE UNCHANGED toolVars
  BY <1>4 DEF toolVars, ToolInv, ToolTypeOK, CommandUnderWay, NoCommand,
              TokenFilesNameMintedTokens, WhitelistedIsDepositable, IsWhitelisted
<1> QED BY <1>1, <1>2, <1>3, <1>4 DEF ToolsNext

--------------------------------------------------------------------------------
(* The tables: they only gain accounts until they are closed. *)

\* The state of a run of create-token-alt.ts.
IsTokenRun(run) ==
    run = [at |-> run.at, todo |-> run.todo, token |-> run.token, first |-> run.first,
           slot |-> run.slot, attempt |-> run.attempt, entries |-> run.entries,
           made |-> run.made]

\* The state of an AltHelper.
IsHelper(h) == h = [protocol |-> h.protocol, tokens |-> h.tokens,
                    fetched |-> h.fetched, transaction |-> h.transaction]

\* A table is a record of its accounts and state; so are the running scripts' states.
TablesTypeOK ==
    /\ \E created : tables = [t \in created |-> [accounts |-> tables[t].accounts,
                                                 state |-> tables[t].state]]
    /\ universalFile = [l \in Labels |-> universalFile[l]]
    /\ IsTokenRun(tokenRun)
    /\ IsHelper(helper)

\* What a step of any script does to the chain's tables and to the record of failures.
TablesGrow ==
    /\ failed \subseteq failed'
    /\ \A t \in DOMAIN tables :
           /\ t \in DOMAIN tables' /\ tables[t].accounts \subseteq tables'[t].accounts
           /\ \A mint : TokenAccounts(mint) \subseteq tables'[t].accounts =>
                            TokenAccounts(mint) \subseteq tables[t].accounts
    /\ \E created : tables' = [t \in created |-> [accounts |-> tables'[t].accounts,
                                                  state |-> tables'[t].state]]

LEMMA CreateTable_Effect ==
    ASSUME TablesTypeOK, NEW s, NEW accounts, NEW result \in SendResults,
           CreateTable(s, accounts, result)
    PROVE  /\ TablesGrow
           /\ Landed(result) => s \in DOMAIN tables' /\ tables'[s].accounts = accounts
           /\ result = "failed" => s \in failed'
<1>1. PICK created : tables = [t \in created |-> [accounts |-> tables[t].accounts,
                                                  state |-> tables[t].state]]
  BY DEF TablesTypeOK
<1>2. DOMAIN tables = created
  BY <1>1
<1>3. failed \subseteq failed' /\ (result = "failed" => s \in failed')
  BY DEF CreateTable
<1>4. CASE Landed(result)
  <2>1. s \notin created
    BY <1>2, <1>4 DEF CreateTable, Landed
  <2>2. tables' = [t \in created \cup {s} |->
                      IF t = s THEN [accounts |-> accounts, state |-> "active"] ELSE tables[t]]
    BY <1>2, <1>4 DEF CreateTable
  <2>3. DOMAIN tables' = created \cup {s} /\ tables'[s] = [accounts |-> accounts, state |-> "active"]
        /\ \A t \in created : tables'[t] = tables[t]
    BY <2>1, <2>2
  <2>4. \A t \in created :
            tables[t] = [accounts |-> tables[t].accounts, state |-> tables[t].state]
    BY <1>1
  <2>5. \A t \in created \cup {s} :
            tables'[t] = [accounts |-> tables'[t].accounts, state |-> tables'[t].state]
    BY <2>3, <2>4
  <2>6. tables' = [t \in created \cup {s} |-> [accounts |-> tables'[t].accounts,
                                               state |-> tables'[t].state]]
    BY <2>2, <2>5
  <2> QED BY <1>2, <1>3, <2>3, <2>6 DEF TablesGrow
<1>5. CASE ~Landed(result)
  <2>1. tables' = tables
    BY <1>5 DEF CreateTable
  <2> QED BY <1>1, <1>3, <1>5, <2>1 DEF TablesGrow
<1> QED BY <1>4, <1>5

\* An extension, and a deactivation, of a table that is there.
LEMMA Extend_Effect ==
    ASSUME TablesTypeOK, NEW t \in DOMAIN tables, NEW accounts, failed \subseteq failed',
           accounts \subseteq UniversalAccounts,
           \/ tables' = [tables EXCEPT ![t].accounts = @ \cup accounts]
           \/ (\E state : tables' = [tables EXCEPT ![t].state = state]) /\ accounts = {}
    PROVE  TablesGrow /\ t \in DOMAIN tables' /\ accounts \subseteq tables'[t].accounts
<1>1. PICK created : tables = [u \in created |-> [accounts |-> tables[u].accounts,
                                                  state |-> tables[u].state]]
  BY DEF TablesTypeOK
<1>2. DOMAIN tables = created /\ t \in created
  BY <1>1
<1>3. PICK old : tables[t] = [accounts |-> old.accounts, state |-> old.state]
  BY <1>1, <1>2
<1>4. PICK new : /\ new = [accounts |-> new.accounts, state |-> new.state]
                 /\ old.accounts \cup accounts = new.accounts
                 /\ tables' = [tables EXCEPT ![t] = new]
  <2>1. CASE tables' = [tables EXCEPT ![t].accounts = @ \cup accounts]
    <3>1. [tables[t] EXCEPT !.accounts = @ \cup accounts]
              = [accounts |-> old.accounts \cup accounts, state |-> old.state]
      BY <1>3
    <3>2. tables' = [tables EXCEPT ![t] = [tables[t] EXCEPT !.accounts = @ \cup accounts]]
      BY <2>1
    <3>3. tables' = [tables EXCEPT ![t] = [accounts |-> old.accounts \cup accounts,
                                           state |-> old.state]]
      BY <3>1, <3>2, Zenon
    <3>4. PICK new : new = [accounts |-> old.accounts \cup accounts, state |-> old.state]
      OBVIOUS
    <3> QED BY <3>3, <3>4
  <2>2. CASE (\E state : tables' = [tables EXCEPT ![t].state = state]) /\ accounts = {}
    <3>1. PICK off : tables' = [tables EXCEPT ![t].state = off]
      BY <2>2
    <3>2. [tables[t] EXCEPT !.state = off] = [accounts |-> old.accounts, state |-> off]
      BY <1>3
    <3>3. tables' = [tables EXCEPT ![t] = [tables[t] EXCEPT !.state = off]]
      BY <3>1, Zenon
    <3>4. tables' = [tables EXCEPT ![t] = [accounts |-> old.accounts, state |-> off]]
      BY <3>2, <3>3, Zenon
    <3>5. PICK new : new = [accounts |-> old.accounts, state |-> off]
      OBVIOUS
    <3> QED BY <2>2, <3>4, <3>5
  <2> QED BY <2>1, <2>2
<1>5. /\ DOMAIN tables' = created /\ tables'[t] = new
      /\ \A u \in created : u # t => tables'[u] = tables[u]
  BY <1>1, <1>2, <1>4
<1>6. \A u \in created : tables[u] = [accounts |-> tables[u].accounts, state |-> tables[u].state]
  BY <1>1
<1>7. \A u \in created :
          tables'[u] = [accounts |-> tables'[u].accounts, state |-> tables'[u].state]
  BY <1>4, <1>5, <1>6
<1>8. tables' = [u \in created |-> [accounts |-> tables'[u].accounts,
                                    state |-> tables'[u].state]]
  BY <1>1, <1>2, <1>4, <1>7
<1>9. \A u \in created : tables[u].accounts \subseteq tables'[u].accounts
  BY <1>2, <1>3, <1>4, <1>5
<1>10. ASSUME NEW u \in created, NEW mint, TokenAccounts(mint) \subseteq tables'[u].accounts
       PROVE  TokenAccounts(mint) \subseteq tables[u].accounts
  <2>1. tables'[u].accounts \subseteq tables[u].accounts \cup UniversalAccounts
    BY <1>2, <1>3, <1>4, <1>5
  <2>2. TokenAccounts(mint) \cap UniversalAccounts = {}
    BY DEF TokenAccounts, UniversalAccounts
  <2> QED BY <1>10, <2>1, <2>2
<1> QED BY <1>2, <1>3, <1>4, <1>5, <1>8, <1>9, <1>10 DEF TablesGrow

LEMMA State_Effect ==
    ASSUME TablesTypeOK, NEW t \in DOMAIN tables, failed \subseteq failed',
           \E state : tables' = [tables EXCEPT ![t].state = state]
    PROVE  TablesGrow
<1>1. PICK none : none = {}
  OBVIOUS
<1>2. none \subseteq UniversalAccounts
  BY <1>1
<1>3. \/ tables' = [tables EXCEPT ![t].accounts = @ \cup none]
      \/ (\E state : tables' = [tables EXCEPT ![t].state = state]) /\ none = {}
  BY <1>1, Zenon
<1> QED BY <1>2, <1>3, Extend_Effect, Zenon

LEMMA Kept_Grows == TablesTypeOK /\ UNCHANGED <<tables, failed>> => TablesGrow
BY DEF TablesTypeOK, TablesGrow

LEMMA TablesStep_Grow ==
    ASSUME TablesTypeOK, TablesNext \/ UNCHANGED <<toolVars, tableVars>>
    PROVE  TablesGrow
<1>1. CASE \E result \in SendResults : SendTokenTable(result)
  <2>1. PICK result \in SendResults :
            \E s, mint : CreateTable(s, TokenAccounts(mint), result)
    BY <1>1 DEF SendTokenTable
  <2> QED BY <2>1, CreateTable_Effect
<1>2. CASE \E result \in SendResults : SendProtocolTable(result)
  <2>1. PICK result \in SendResults : \E s, accounts : CreateTable(s, accounts, result)
    BY <1>2 DEF SendProtocolTable
  <2> QED BY <2>1, CreateTable_Effect
<1>3. CASE \E result \in SendResults : CreateUniversalTable(result)
  <2>1. PICK result \in SendResults : \E s, accounts : CreateTable(s, accounts, result)
    BY <1>3 DEF CreateUniversalTable
  <2> QED BY <2>1, CreateTable_Effect
<1>4. CASE \E result \in SendResults : ExtendUniversalTable(result)
  <2>1. PICK result \in SendResults : ExtendUniversalTable(result)
    BY <1>4
  <2>2. PICK t : t = universalRun.slot
    OBVIOUS
  <2>3. failed \subseteq failed'
    BY <2>1 DEF ExtendUniversalTable
  <2>4. CASE Landed(result)
    <3>1. t \in DOMAIN tables /\ tables' = [tables EXCEPT ![t].accounts = @ \cup UniversalAccounts]
      BY <2>1, <2>2, <2>4, Zenon DEF ExtendUniversalTable, OnChain
    <3> QED BY <2>3, <3>1, Extend_Effect
  <2>5. CASE ~Landed(result)
    <3>1. tables' = tables
      BY <2>1, <2>5 DEF ExtendUniversalTable
    <3> QED BY <2>3, <3>1 DEF TablesTypeOK, TablesGrow
  <2> QED BY <2>4, <2>5
<1>5. CASE Maintenance
  <2>1. PICK t \in Slots, result \in Results :
            ExtendAlt(t, UniversalAccounts, result) \/ DeactivateAlt(t, result)
    BY <1>5 DEF Maintenance
  <2>2. failed' = failed
    BY <2>1 DEF ExtendAlt, DeactivateAlt
  <2>3. CASE tables' = tables
    BY <2>2, <2>3, Kept_Grows
  <2>4. CASE tables' # tables
    <3>1. t \in DOMAIN tables
      BY <2>1, <2>4 DEF ExtendAlt, DeactivateAlt, Refusal, OnChain
    <3>2. \/ tables' = [tables EXCEPT ![t].accounts = @ \cup UniversalAccounts]
          \/ \E state : tables' = [tables EXCEPT ![t].state = state]
      BY <2>1, <2>4, Zenon DEF ExtendAlt, DeactivateAlt
    <3> QED BY <2>2, <3>1, <3>2, Extend_Effect, State_Effect
  <2> QED BY <2>3, <2>4
<1>6. CASE \E t \in Slots : RetireTable(t)
  <2>1. PICK t \in Slots : RetireTable(t)
    BY <1>6
  <2>2. t \in DOMAIN tables /\ failed' = failed
    BY <2>1 DEF RetireTable, OnChain
  <2>3. \E state : tables' = [tables EXCEPT ![t].state = state]
    BY <2>1, Zenon DEF RetireTable
  <2> QED BY <2>2, <2>3, State_Effect
<1>7. CASE (ToolsNext /\ UNCHANGED tableVars) \/ UNCHANGED <<toolVars, tableVars>>
  BY <1>7, Kept_Grows DEF tableVars, chainVars
<1>8. CASE CreationStarts \/ ScriptDies \/ HelperStep \/ NextSlot
  BY <1>8, Kept_Grows DEF CreationStarts, StartTokenScript, StartProtocolScript,
     StartUniversalScript, ScriptDies, HelperStep, NewAltHelper, LoadFromConfigFiles,
     FetchAltAccounts, GetAltsForTransaction, NextSlot, RetireTable, chainVars
<1>9. CASE \/ \E token \in tokenRun.todo : SkipToken(token) \/ BeginToken(token)
           \/ GetAttemptSlot \/ (\E answered \in BOOLEAN : PollTokenTable(answered))
           \/ SaveTokenTables \/ (\E answered \in BOOLEAN : SaveProtocolTable(answered))
  BY <1>9, Kept_Grows DEF SkipToken, BeginToken, GetAttemptSlot, PollTokenTable,
     SaveTokenTables, SaveProtocolTable, chainVars
<1> QED BY <1>1, <1>2, <1>3, <1>4, <1>5, <1>6, <1>7, <1>8, <1>9
        DEF TablesNext, TokenScriptStep, ProtocolScriptStep, UniversalScriptStep

--------------------------------------------------------------------------------
(* create-token-alt.ts *)

\* The table has the accounts of the mint, or a transaction for it failed on chain.
HoldsToken(t, mint) ==
    t \in failed \/ (t \in DOMAIN tables /\ TokenAccounts(mint) \subseteq tables[t].accounts)

\* Nothing is tried again once a table may have been made, and what is polled for was made.
TokenRunSound ==
    /\ \A e \in tokenRun.entries : HoldsToken(e.table, e.mint)
    /\ tokenRun.at = "poll" => HoldsToken(tokenRun.slot, tokenRun.token.mint)
    /\ tokenRun.at \in {"send", "getSlot"} => tokenRun.made = {}
    /\ tokenRun.made = {} \/ (\E s : tokenRun.made = {s})
    /\ TokenEntriesNameTheirTables

LEMMA HoldsToken_Stays ==
    ASSUME TablesGrow, NEW t, NEW mint, HoldsToken(t, mint)
    PROVE  HoldsToken(t, mint)'
BY DEF TablesGrow, HoldsToken

\* A step of anything else than the script.
LEMMA TokenRunAside ==
    ASSUME TokenRunSound, TablesGrow, UNCHANGED <<tokenRun, tokensFile>>
    PROVE  TokenRunSound'
<1>1. \A e \in tokenRun.entries \cup tokensFile : HoldsToken(e.table, e.mint)
  BY DEF TokenRunSound, TokenEntriesNameTheirTables, HoldsToken
<1>2. \A e \in tokenRun.entries \cup tokensFile : HoldsToken(e.table, e.mint)'
  BY <1>1, HoldsToken_Stays
<1>3. tokenRun.at = "poll" => HoldsToken(tokenRun.slot, tokenRun.token.mint)'
  <2>1. PICK run : run = tokenRun
    OBVIOUS
  <2>2. run.at = "poll" => HoldsToken(run.slot, run.token.mint)'
    BY <2>1, HoldsToken_Stays DEF TokenRunSound
  <2> QED BY <2>1, <2>2
<1> QED BY <1>2, <1>3 DEF TokenRunSound, TokenEntriesNameTheirTables, HoldsToken

\* The attempt that made the table is the one the script polls for.
LEMMA SendTokenTable_Sound ==
    ASSUME TablesTypeOK, TokenRunSound, TablesGrow,
           NEW result \in SendResults, SendTokenTable(result)
    PROVE  TokenRunSound' /\ IsTokenRun(tokenRun')
<1>1. PICK run : run = tokenRun
  OBVIOUS
<1>2. /\ IsTokenRun(run)
      /\ run.at = "send" /\ run.made = {}
      /\ \A e \in run.entries : HoldsToken(e.table, e.mint)
  BY <1>1 DEF SendTokenTable, TablesTypeOK, TokenRunSound
<1>3. /\ CreateTable(run.slot, TokenAccounts(run.token.mint), result)
      /\ tokensFile' = tokensFile
  BY <1>1 DEF SendTokenTable, fileVars
<1>4. PICK made : made = IF Landed(result) THEN {run.slot} ELSE {}
  OBVIOUS
<1>5. PICK label \in {"poll", "getSlot", "next"} :
          /\ \E attempt :
                 tokenRun' = [run EXCEPT !.at = label, !.attempt = attempt, !.made = made]
          /\ label = "poll" => result \in {"done", "failed"}
          /\ label = "getSlot" => result = "stale"
  <2>1. made = IF Landed(result) THEN run.made \cup {run.slot} ELSE run.made
    BY <1>2, <1>4
  <2>2. tokenRun' = IF ~Throws(result) THEN [run EXCEPT !.at = "poll", !.made = made]
                    ELSE IF Retries(result, run.attempt)
                    THEN [run EXCEPT !.at = "getSlot", !.attempt = NextAttempt(@), !.made = made]
                    ELSE [run EXCEPT !.at = "next", !.made = made]
    BY <1>1, <2>1 DEF SendTokenTable
  <2>3. CASE ~Throws(result)
    <3>1. result \in {"done", "failed"}
      BY <2>3 DEF Throws, SendResults
    <3>2. tokenRun' = [run EXCEPT !.at = "poll", !.attempt = run.attempt, !.made = made]
      BY <1>2, <2>2, <2>3 DEF IsTokenRun
    <3> QED BY <3>1, <3>2
  <2>4. CASE Throws(result) /\ Retries(result, run.attempt)
    <3>1. tokenRun' = [run EXCEPT !.at = "getSlot", !.attempt = NextAttempt(run.attempt),
                                  !.made = made]
      BY <1>2, <2>2, <2>4 DEF IsTokenRun
    <3> QED BY <2>4, <3>1 DEF Retries
  <2>5. CASE Throws(result) /\ ~Retries(result, run.attempt)
    <3>1. tokenRun' = [run EXCEPT !.at = "next", !.attempt = run.attempt, !.made = made]
      BY <1>2, <2>2, <2>5 DEF IsTokenRun
    <3> QED BY <3>1
  <2> QED BY <2>3, <2>4, <2>5
<1>6. PICK attempt : tokenRun' = [run EXCEPT !.at = label, !.attempt = attempt, !.made = made]
  BY <1>5
<1>7. tokenRun' = [at |-> label, todo |-> run.todo, token |-> run.token, first |-> run.first,
                   slot |-> run.slot, attempt |-> attempt, entries |-> run.entries,
                   made |-> made]
  BY <1>2, <1>6 DEF IsTokenRun
<1>8. label = "poll" => HoldsToken(run.slot, run.token.mint)'
  <2>1. /\ Landed(result) => /\ run.slot \in DOMAIN tables'
                             /\ tables'[run.slot].accounts = TokenAccounts(run.token.mint)
        /\ result = "failed" => run.slot \in failed'
    BY <1>3, CreateTable_Effect
  <2> QED BY <1>5, <2>1 DEF HoldsToken, Landed
<1>9. \A e \in run.entries \cup tokensFile : HoldsToken(e.table, e.mint)'
  <2>1. \A e \in tokensFile : HoldsToken(e.table, e.mint)
    BY DEF TokenRunSound, TokenEntriesNameTheirTables, HoldsToken
  <2> QED BY <1>2, <2>1, HoldsToken_Stays
<1>10. label = "getSlot" => made = {}
  BY <1>4, <1>5 DEF Landed
<1> HIDE DEF HoldsToken
<1>11. TokenEntriesNameTheirTables'
  BY <1>3, <1>9 DEF HoldsToken, TokenEntriesNameTheirTables
<1> QED BY <1>4, <1>7, <1>8, <1>9, <1>10, <1>11 DEF TokenRunSound, IsTokenRun

\* The other steps of the script.
LEMMA TokenScript_Sound ==
    ASSUME TablesTypeOK, TokenRunSound, TablesGrow,
           \/ StartTokenScript
           \/ \E token \in tokenRun.todo : SkipToken(token) \/ BeginToken(token)
           \/ GetAttemptSlot
           \/ \E answered \in BOOLEAN : PollTokenTable(answered)
           \/ SaveTokenTables
           \/ ScriptDies
    PROVE  TokenRunSound' /\ IsTokenRun(tokenRun')
<1>1. PICK run : run = tokenRun
  OBVIOUS
<1>2. /\ IsTokenRun(run)
      /\ run.at = "poll" => HoldsToken(run.slot, run.token.mint)
      /\ run.at \in {"send", "getSlot"} => run.made = {}
      /\ run.made = {} \/ (\E s : run.made = {s})
      /\ \A e \in run.entries \cup tokensFile : HoldsToken(e.table, e.mint)
  BY <1>1 DEF TablesTypeOK, TokenRunSound, TokenEntriesNameTheirTables, HoldsToken
<1>3. PICK new : new = tokenRun'
  OBVIOUS
<1>4. /\ IsTokenRun(new)
      /\ new.at \in {"send", "getSlot"} => new.made = {}
      /\ new.made = {} \/ new.made = run.made
      /\ new.at = "poll" => HoldsToken(new.slot, new.token.mint)
      /\ \A e \in new.entries \cup tokensFile' : HoldsToken(e.table, e.mint)
  <2>1. CASE tokenRun' = IdleTokenRun /\ (tokensFile' = tokensFile \/ tokensFile' = run.entries)
    BY <1>2, <1>3, <2>1 DEF IdleTokenRun, IsTokenRun
  <2>2. CASE StartTokenScript
    <3>1. PICK files : /\ tokenRun' = [IdleTokenRun EXCEPT !.at = "next", !.todo = files]
                       /\ tokensFile' = tokensFile
      BY <2>2 DEF StartTokenScript, fileVars
    <3>2. PICK token : token = [symbol |-> "", mint |-> NoMint]
      OBVIOUS
    <3>3. new = [at |-> "next", todo |-> files, token |-> token,
                 first |-> 0, slot |-> 0, attempt |-> 0, entries |-> {}, made |-> {}]
      BY <1>3, <3>1, <3>2 DEF IdleTokenRun
    <3> QED BY <1>2, <3>1, <3>3 DEF IsTokenRun
  <2>3. CASE \E token \in tokenRun.todo : SkipToken(token)
    <3>1. PICK token \in run.todo : SkipToken(token)
      BY <1>1, <2>3
    <3>2. new = [run EXCEPT !.todo = @ \ {token}] /\ tokensFile' = tokensFile
      BY <1>1, <1>3, <3>1 DEF SkipToken, fileVars
    <3>3. new = [at |-> run.at, todo |-> run.todo \ {token}, token |-> run.token,
                 first |-> run.first, slot |-> run.slot, attempt |-> run.attempt,
                 entries |-> run.entries, made |-> run.made]
      BY <1>2, <3>2 DEF IsTokenRun
    <3> QED BY <1>2, <3>2, <3>3 DEF IsTokenRun
  <2>4. CASE \E token \in tokenRun.todo : BeginToken(token)
    <3>1. PICK token, now : token \in run.todo /\ BeginToken(token) /\ now = slot
      BY <1>1, <2>4
    <3>2. /\ new = [run EXCEPT !.at = "send", !.todo = @ \ {token}, !.token = token,
                             !.first = now, !.slot = now, !.attempt = 1, !.made = {}]
          /\ tokensFile' = tokensFile
      BY <1>1, <1>3, <3>1 DEF BeginToken, fileVars
    <3>3. new = [at |-> "send", todo |-> run.todo \ {token}, token |-> token, first |-> now,
                 slot |-> now, attempt |-> 1, entries |-> run.entries, made |-> {}]
      BY <1>2, <3>2 DEF IsTokenRun
    <3> QED BY <1>2, <3>2, <3>3 DEF IsTokenRun
  <2>5. CASE GetAttemptSlot
    <3>1. PICK now : now = slot
      OBVIOUS
    <3>2. /\ new = [run EXCEPT !.at = "send", !.slot = now]
          /\ tokensFile' = tokensFile /\ run.at = "getSlot"
      BY <1>1, <1>3, <2>5, <3>1 DEF GetAttemptSlot, fileVars
    <3>3. new = [at |-> "send", todo |-> run.todo, token |-> run.token, first |-> run.first,
                 slot |-> now, attempt |-> run.attempt, entries |-> run.entries,
                 made |-> run.made]
      BY <1>2, <3>2 DEF IsTokenRun
    <3> QED BY <1>2, <3>2, <3>3 DEF IsTokenRun
  <2>6. CASE \E answered \in BOOLEAN : PollTokenTable(answered)
    <3>1. PICK entry : entry = [symbol |-> run.token.symbol, mint |-> run.token.mint,
                                table |-> run.slot]
      OBVIOUS
    <3>2. PICK entries : /\ entries = run.entries \/ entries = run.entries \cup {entry}
                         /\ new = [run EXCEPT !.at = "next", !.entries = entries]
                         /\ tokensFile' = tokensFile /\ run.at = "poll"
      <4>1. PICK answered \in BOOLEAN : PollTokenTable(answered)
        BY <2>6
      <4>2. PICK entries : entries = IF answered THEN run.entries \cup {entry} ELSE run.entries
        OBVIOUS
      <4>3. new = [run EXCEPT !.at = "next", !.entries = entries]
        BY <1>1, <1>3, <3>1, <4>1, <4>2 DEF PollTokenTable, LookupTableAddress
      <4> QED BY <1>1, <4>1, <4>2, <4>3 DEF PollTokenTable, fileVars
    <3>3. new = [at |-> "next", todo |-> run.todo, token |-> run.token, first |-> run.first,
                 slot |-> run.slot, attempt |-> run.attempt, entries |-> entries,
                 made |-> run.made]
      BY <1>2, <3>2 DEF IsTokenRun
    <3>4. HoldsToken(entry.table, entry.mint)
      BY <1>2, <3>1, <3>2
    <3>5. \A e \in entries : HoldsToken(e.table, e.mint)
      BY <1>2, <3>2, <3>4
    <3> QED BY <1>2, <3>2, <3>3, <3>5 DEF IsTokenRun
  <2>7. CASE SaveTokenTables
    BY <1>1, <2>1, <2>7 DEF SaveTokenTables
  <2>8. CASE ScriptDies
    <3>1. tokensFile' = tokensFile /\ (tokenRun' = tokenRun \/ tokenRun' = IdleTokenRun)
      BY <2>8 DEF ScriptDies, fileVars
    <3> QED BY <1>1, <1>2, <1>3, <2>1, <3>1
  <2> QED BY <2>2, <2>3, <2>4, <2>5, <2>6, <2>7, <2>8
<1>5. \A e \in new.entries \cup tokensFile' : HoldsToken(e.table, e.mint)'
  <2>1. PICK listed : listed = new.entries \cup tokensFile'
    OBVIOUS
  <2>2. \A e \in listed : HoldsToken(e.table, e.mint)'
    BY <1>4, <2>1, HoldsToken_Stays
  <2> QED BY <2>1, <2>2
<1>6. new.at = "poll" => HoldsToken(new.slot, new.token.mint)'
  BY <1>4, HoldsToken_Stays
<1>7. TokenEntriesNameTheirTables'
  BY <1>5 DEF HoldsToken, TokenEntriesNameTheirTables
<1>8. TokenRunSound'
  BY <1>2, <1>3, <1>4, <1>5, <1>6, <1>7 DEF TokenRunSound
<1> QED BY <1>3, <1>4, <1>8

--------------------------------------------------------------------------------
(* create-universal-alt.ts and AltHelper *)

\* The entries are false only where the chain failed an extension it had simulated.
LEMMA Universal_Sound ==
    ASSUME TablesTypeOK, UniversalEntriesFilled, TablesGrow,
           \/ UNCHANGED universalFile
           \/ \E result \in SendResults : ExtendUniversalTable(result)
    PROVE  UniversalEntriesFilled' /\ universalFile' = [l \in Labels |-> universalFile'[l]]
<1>1. CASE UNCHANGED universalFile
  <2>1. ASSUME NEW l \in Labels, universalFile'[l] \notin failed' \cup {NoTable}
        PROVE  /\ universalFile'[l] \in DOMAIN tables'
               /\ UniversalAccounts \subseteq tables'[universalFile'[l]].accounts
    <3>1. PICK t : t = universalFile[l]
      OBVIOUS
    <3>2. t \in DOMAIN tables /\ UniversalAccounts \subseteq tables[t].accounts
      BY <1>1, <2>1, <3>1 DEF UniversalEntriesFilled, TablesGrow
    <3>3. t \in DOMAIN tables' /\ UniversalAccounts \subseteq tables'[t].accounts
      BY <3>2 DEF TablesGrow
    <3> QED BY <1>1, <3>1, <3>3
  <2>2. UniversalEntriesFilled'
    BY <2>1 DEF UniversalEntriesFilled
  <2> QED BY <1>1, <2>2 DEF TablesTypeOK
<1>2. CASE \E result \in SendResults : ExtendUniversalTable(result)
  <2>1. PICK result \in SendResults : ExtendUniversalTable(result)
    BY <1>2
  <2>2. PICK label, table : label = universalRun.label /\ table = universalRun.slot
    OBVIOUS
  <2>3. /\ Landed(result) =>
               /\ table \in DOMAIN tables
               /\ tables' = [tables EXCEPT ![table].accounts = @ \cup UniversalAccounts]
        /\ failed' = IF result = "failed" THEN failed \cup {table} ELSE failed
        /\ universalFile' = IF Throws(result) THEN universalFile
                            ELSE [universalFile EXCEPT ![label] = table]
    BY <2>1, <2>2, Zenon DEF ExtendUniversalTable, OnChain
  <2>4. /\ universalFile' = [l \in Labels |-> universalFile'[l]]
        /\ \A l \in Labels : \/ universalFile'[l] = universalFile[l]
                             \/ universalFile'[l] = table /\ result \in {"done", "failed"}
    <3>1. CASE Throws(result)
      BY <2>3, <3>1 DEF TablesTypeOK
    <3>2. CASE ~Throws(result)
      <4>1. result \in {"done", "failed"}
        BY <3>2 DEF Throws, SendResults
      <4>2. universalFile' = [l \in Labels |-> IF l = label THEN table ELSE universalFile[l]]
        BY <2>3, <3>2 DEF TablesTypeOK
      <4> QED BY <4>1, <4>2
    <3> QED BY <3>1, <3>2
  <2>5. result = "done" =>
            table \in DOMAIN tables' /\ UniversalAccounts \subseteq tables'[table].accounts
    <3>1. failed \subseteq failed'
      BY DEF TablesGrow
    <3> QED BY <2>3, <3>1, Extend_Effect DEF Landed
  <2>6. ASSUME NEW l \in Labels, universalFile'[l] \notin failed' \cup {NoTable}
        PROVE  /\ universalFile'[l] \in DOMAIN tables'
               /\ UniversalAccounts \subseteq tables'[universalFile'[l]].accounts
    <3>1. CASE universalFile'[l] = universalFile[l]
      <4>1. PICK t : t = universalFile[l]
        OBVIOUS
      <4>2. t \in DOMAIN tables /\ UniversalAccounts \subseteq tables[t].accounts
        BY <2>6, <3>1, <4>1 DEF UniversalEntriesFilled, TablesGrow
      <4>3. t \in DOMAIN tables' /\ UniversalAccounts \subseteq tables'[t].accounts
        BY <4>2 DEF TablesGrow
      <4> QED BY <3>1, <4>1, <4>3
    <3>2. CASE universalFile'[l] = table /\ result \in {"done", "failed"}
      BY <2>3, <2>5, <2>6, <3>2
    <3> QED BY <2>4, <3>1, <3>2
  <2> QED BY <2>4, <2>6 DEF UniversalEntriesFilled
<1> QED BY <1>1, <1>2

\* What was fetched of a table, the table has; and if the table has a token's accounts now, they
\* were there when it was fetched.
CacheHolds(c) ==
    /\ c.table \in DOMAIN tables /\ c.accounts \subseteq tables[c.table].accounts
    /\ \A mint : TokenAccounts(mint) \subseteq tables[c.table].accounts =>
                     TokenAccounts(mint) \subseteq c.accounts

\* What a transaction was built from still holds.
BuiltSound(built) ==
    /\ \A c \in built.ofProtocol \cup built.ofToken : CacheHolds(c)
    /\ \A c \in built.ofToken :
           c.table \in failed \/ TokenAccounts(built.mint) \subseteq c.accounts

HelperSound ==
    /\ \A e \in helper.tokens : HoldsToken(e.table, e.mint)
    /\ \A c \in helper.fetched : CacheHolds(c)
    /\ BuiltSound(helper.transaction)

LEMMA CacheHolds_Stays ==
    ASSUME TablesGrow, NEW c, CacheHolds(c)
    PROVE  CacheHolds(c)'
BY DEF TablesGrow, CacheHolds

LEMMA BuiltSound_Stays ==
    ASSUME TablesGrow, NEW built, BuiltSound(built)
    PROVE  BuiltSound(built)'
<1>1. \A c \in built.ofProtocol \cup built.ofToken : CacheHolds(c)'
  BY CacheHolds_Stays DEF BuiltSound
<1>2. failed \subseteq failed'
  BY DEF TablesGrow
<1> QED BY <1>1, <1>2 DEF BuiltSound

\* A table with a token's accounts was fetched with them.
LEMMA TokenTable_Cached ==
    ASSUME NEW c, CacheHolds(c), NEW mint, HoldsToken(c.table, mint)
    PROVE  c.table \in failed \/ TokenAccounts(mint) \subseteq c.accounts
BY DEF CacheHolds, HoldsToken

\* The same of a helper that need not be the present one.
SoundHelper(h) ==
    /\ IsHelper(h)
    /\ \A e \in h.tokens : HoldsToken(e.table, e.mint)
    /\ \A c \in h.fetched : CacheHolds(c)
    /\ BuiltSound(h.transaction)

LEMMA Helper_Sound ==
    ASSUME IsHelper(helper), HelperSound, TokenEntriesNameTheirTables, TablesGrow,
           UNCHANGED helper \/ HelperStep
    PROVE  HelperSound' /\ IsHelper(helper')
<1>1. PICK old, new : old = helper /\ new = helper'
  OBVIOUS
<1>2. SoundHelper(old)
  BY <1>1 DEF HelperSound, SoundHelper
<1>3. SoundHelper(new)
  <2>1. CASE UNCHANGED helper
    BY <1>1, <1>2, <2>1
  <2>2. CASE NewAltHelper
    <3>1. PICK none : none = NoTransaction
      OBVIOUS
    <3>2. new = [protocol |-> NoTable, tokens |-> {}, fetched |-> {}, transaction |-> none]
      BY <1>1, <2>2, <3>1 DEF NewAltHelper, NoHelper
    <3>3. BuiltSound(none)
      BY <3>1 DEF BuiltSound, NoTransaction
    <3> QED BY <3>2, <3>3 DEF SoundHelper, IsHelper
  <2>3. CASE LoadFromConfigFiles
    <3>1. PICK protocol, tokens : /\ tokens \subseteq old.tokens \cup tokensFile
                                  /\ new = [old EXCEPT !.protocol = protocol, !.tokens = tokens]
      <4>1. PICK protocol, tokens :
                /\ protocol = IF protocolFile = NoTable THEN old.protocol ELSE protocolFile
                /\ tokens = {e \in old.tokens : \A f \in tokensFile : f.mint # e.mint}
                                \cup tokensFile
        OBVIOUS
      <4>2. new = [old EXCEPT !.protocol = protocol, !.tokens = tokens]
        BY <1>1, <2>3, <4>1 DEF LoadFromConfigFiles
      <4> QED BY <4>1, <4>2
    <3>2. new = [protocol |-> protocol, tokens |-> tokens, fetched |-> old.fetched,
                 transaction |-> old.transaction]
      BY <1>2, <3>1 DEF SoundHelper, IsHelper
    <3>3. \A e \in old.tokens \cup tokensFile : HoldsToken(e.table, e.mint)
      BY <1>2 DEF SoundHelper, TokenEntriesNameTheirTables, HoldsToken
    <3> QED BY <1>2, <3>1, <3>2, <3>3 DEF SoundHelper, IsHelper
  <2>4. CASE FetchAltAccounts
    <3>1. PICK answered \in SUBSET Fetched :
              new = [old EXCEPT !.fetched = {c \in @ : c.table \notin answered}
                                                \cup {Cached(t) : t \in answered}]
      BY <1>1, <2>4 DEF FetchAltAccounts
    <3>2. PICK fetched : fetched = {c \in old.fetched : c.table \notin answered}
                                       \cup {Cached(t) : t \in answered}
      OBVIOUS
    <3>3. new = [old EXCEPT !.fetched = fetched]
      BY <3>1, <3>2
    <3>4. new = [protocol |-> old.protocol, tokens |-> old.tokens, fetched |-> fetched,
                 transaction |-> old.transaction]
      BY <1>2, <3>3 DEF SoundHelper, IsHelper
    <3>5. \A t \in answered : CacheHolds(Cached(t))
      BY DEF Fetched, OnChain, Cached, CacheHolds
    <3>6. \A c \in fetched : CacheHolds(c)
      BY <1>2, <3>2, <3>5 DEF SoundHelper
    <3> QED BY <1>2, <3>4, <3>6 DEF SoundHelper, IsHelper
  <2>5. CASE \E mint \in Mints \cup {NoMint}, strict \in BOOLEAN :
                 GetAltsForTransaction(mint, strict)
    <3>1. PICK mint, strict : GetAltsForTransaction(mint, strict)
      BY <2>5
    <3>2. PICK ofToken, ofProtocol, built :
              /\ ofToken = {c \in old.fetched : TableConfigured(c.table, mint)}
              /\ ofProtocol = {c \in old.fetched : c.table = old.protocol}
              /\ built = [mint |-> mint, ofProtocol |-> ofProtocol, ofToken |-> ofToken]
      OBVIOUS
    <3>3. new = [old EXCEPT !.transaction = built]
      BY <1>1, <3>1, <3>2 DEF GetAltsForTransaction
    <3>4. new = [protocol |-> old.protocol, tokens |-> old.tokens, fetched |-> old.fetched,
                 transaction |-> built]
      BY <1>2, <3>3 DEF SoundHelper, IsHelper
    <3>5. \A c \in ofProtocol \cup ofToken : CacheHolds(c)
      BY <1>2, <3>2 DEF SoundHelper
    <3>6. \A c \in ofToken : HoldsToken(c.table, mint)
      BY <1>1, <1>2, <3>2 DEF TableConfigured, SoundHelper
    <3>7. \A c \in ofToken : c.table \in failed \/ TokenAccounts(mint) \subseteq c.accounts
      BY <3>5, <3>6, TokenTable_Cached
    <3>8. BuiltSound(built)
      BY <3>2, <3>5, <3>7 DEF BuiltSound
    <3> QED BY <1>2, <3>4, <3>8 DEF SoundHelper, IsHelper
  <2> QED BY <2>1, <2>2, <2>3, <2>4, <2>5 DEF HelperStep
<1>4. \A e \in new.tokens : HoldsToken(e.table, e.mint)'
  BY <1>3, HoldsToken_Stays DEF SoundHelper
<1>5. \A c \in new.fetched : CacheHolds(c)'
  BY <1>3, CacheHolds_Stays DEF SoundHelper
<1>6. BuiltSound(new.transaction)'
  BY <1>3, BuiltSound_Stays DEF SoundHelper
<1>7. HelperSound'
  BY <1>1, <1>4, <1>5, <1>6 DEF HelperSound
<1> QED BY <1>1, <1>3, <1>7 DEF SoundHelper

--------------------------------------------------------------------------------
(* All of it. *)

TablesInv ==
    ToolInv /\ TablesTypeOK /\ TokenRunSound /\ UniversalEntriesFilled /\ HelperSound

LEMMA TablesInit_Inv == TablesInit => TablesInv
<1> SUFFICES ASSUME TablesInit PROVE TablesInv
  OBVIOUS
<1>1. ToolInv
  BY ToolsInit_Inv DEF TablesInit
<1>2. tables = [t \in {} |-> [accounts |-> tables[t].accounts, state |-> tables[t].state]]
  <2>1. tables = << >>
    BY DEF TablesInit
  <2>2. PICK empty : empty = [t \in 1..0 |-> [accounts |-> tables[t].accounts,
                                              state |-> tables[t].state]]
    OBVIOUS
  <2>3. 1..0 = {}
    BY SMT
  <2>4. empty = << >>
    BY <2>2, <2>3
  <2> QED BY <2>1, <2>2, <2>3, <2>4
<1>3. TablesTypeOK
  BY <1>2 DEF TablesInit, TablesTypeOK, IsTokenRun, IdleTokenRun, IsHelper, NoHelper
<1>4. TokenRunSound
  BY DEF TablesInit, TokenRunSound, IdleTokenRun, TokenEntriesNameTheirTables
<1>5. UniversalEntriesFilled /\ HelperSound
  BY DEF TablesInit, UniversalEntriesFilled, HelperSound, NoHelper, NoTransaction, BuiltSound
<1> QED BY <1>1, <1>3, <1>4, <1>5 DEF TablesInv

LEMMA TablesStep_Inv ==
    ASSUME TablesInv, TablesNext \/ UNCHANGED <<toolVars, tableVars>>
    PROVE  TablesInv'
<1>1. TablesGrow
  BY TablesStep_Grow DEF TablesInv
<1>2. ToolInv'
  <2>1. ToolsNext \/ UNCHANGED toolVars
    BY DEF TablesNext, CreationStarts, StartTokenScript, StartProtocolScript,
       StartUniversalScript, TokenScriptStep, SkipToken, BeginToken, SendTokenTable,
       GetAttemptSlot, PollTokenTable, SaveTokenTables, ProtocolScriptStep, SendProtocolTable,
       SaveProtocolTable, UniversalScriptStep, CreateUniversalTable, ExtendUniversalTable,
       ScriptDies, Maintenance, ExtendAlt, DeactivateAlt, HelperStep, NewAltHelper,
       LoadFromConfigFiles, FetchAltAccounts, GetAltsForTransaction, NextSlot, RetireTable
  <2> QED BY <2>1, ToolsStep_Inv DEF TablesInv
<1>3. TokenRunSound' /\ IsTokenRun(tokenRun')
  <2>1. CASE \E result \in SendResults : SendTokenTable(result)
    BY <1>1, <2>1, SendTokenTable_Sound DEF TablesInv
  <2>2. CASE \/ StartTokenScript
             \/ \E token \in tokenRun.todo : SkipToken(token) \/ BeginToken(token)
             \/ GetAttemptSlot
             \/ \E answered \in BOOLEAN : PollTokenTable(answered)
             \/ SaveTokenTables
             \/ ScriptDies
    BY <1>1, <2>2, TokenScript_Sound DEF TablesInv
  <2>3. CASE UNCHANGED <<tokenRun, tokensFile>>
    BY <1>1, <2>3, TokenRunAside DEF TablesInv, TablesTypeOK
  <2>4. \/ TokenScriptStep \/ StartTokenScript \/ ScriptDies
        \/ UNCHANGED <<tokenRun, tokensFile>>
    BY DEF TablesNext, CreationStarts, StartProtocolScript, StartUniversalScript,
       ProtocolScriptStep, SendProtocolTable, SaveProtocolTable, UniversalScriptStep,
       CreateUniversalTable, ExtendUniversalTable, Maintenance, ExtendAlt, DeactivateAlt,
       HelperStep, NewAltHelper, LoadFromConfigFiles, FetchAltAccounts,
       GetAltsForTransaction, NextSlot, RetireTable, tableVars, fileVars
  <2> QED BY <2>1, <2>2, <2>3, <2>4 DEF TokenScriptStep
<1>4. UniversalEntriesFilled' /\ universalFile' = [l \in Labels |-> universalFile'[l]]
  <2>1. UNCHANGED universalFile \/ (\E result \in SendResults : ExtendUniversalTable(result))
    BY DEF TablesNext, CreationStarts, StartTokenScript, StartProtocolScript,
       StartUniversalScript, TokenScriptStep, SkipToken, BeginToken, SendTokenTable,
       GetAttemptSlot, PollTokenTable, SaveTokenTables, ProtocolScriptStep, SendProtocolTable,
       SaveProtocolTable, UniversalScriptStep, CreateUniversalTable, ScriptDies, Maintenance,
       ExtendAlt, DeactivateAlt, HelperStep, NewAltHelper, LoadFromConfigFiles,
       FetchAltAccounts, GetAltsForTransaction, NextSlot, RetireTable, tableVars, fileVars
  <2> QED BY <1>1, <2>1, Universal_Sound DEF TablesInv
<1>5. HelperSound' /\ IsHelper(helper')
  <2>1. UNCHANGED helper \/ HelperStep
    BY DEF TablesNext, CreationStarts, StartTokenScript, StartProtocolScript,
       StartUniversalScript, TokenScriptStep, SkipToken, BeginToken, SendTokenTable,
       GetAttemptSlot, PollTokenTable, SaveTokenTables, ProtocolScriptStep, SendProtocolTable,
       SaveProtocolTable, UniversalScriptStep, CreateUniversalTable, ExtendUniversalTable,
       ScriptDies, Maintenance, ExtendAlt, DeactivateAlt, NextSlot, RetireTable, tableVars
  <2> QED BY <1>1, <2>1, Helper_Sound DEF TablesInv, TablesTypeOK, TokenRunSound
<1>6. TablesTypeOK'
  BY <1>1, <1>3, <1>4, <1>5 DEF TablesTypeOK, TablesGrow, IsTokenRun, IsHelper
<1> QED BY <1>2, <1>3, <1>4, <1>5, <1>6 DEF TablesInv

\* The invariant of both groups of scripts, of which the theorems below are parts.
LEMMA TablesInvariant == TablesSpec => []TablesInv
<1>1. TablesInv /\ [TablesNext]_<<toolVars, tableVars>> => TablesInv'
  BY TablesStep_Inv
<1> QED BY <1>1, TablesInit_Inv, PTL DEF TablesSpec

\* token-cli.ts create: a file under tokens/ that the repository does not have names a mint of
\* which there are tokens, however the command failed or died, for any symbols and mints.
THEOREM TokenFilesSound == TablesSpec => []TokenFilesNameMintedTokens
<1>1. TablesInv => TokenFilesNameMintedTokens
  BY DEF TablesInv, ToolInv
<1> QED BY <1>1, TablesInvariant, PTL

\* token-cli.ts whitelist: what it reported whitelisted has a threshold and a vault account.
THEOREM WhitelistSound == TablesSpec => []WhitelistedIsDepositable
<1>1. TablesInv => WhitelistedIsDepositable
  BY DEF TablesInv, ToolInv
<1> QED BY <1>1, TablesInvariant, PTL

\* create-token-alt.ts: every table in alt-config-tokens.json has the accounts of its mint, or
\* had a transaction fail on chain, with any number of attempts, runs and other scripts.
THEOREM TokenTablesSound == TablesSpec => []TokenEntriesNameTheirTables
<1>1. TablesInv => TokenEntriesNameTheirTables
  BY DEF TablesInv, TokenRunSound
<1> QED BY <1>1, TablesInvariant, PTL

\* create-token-alt.ts: the retry loop never makes two tables for one token.
THEOREM TokenRetriesSound == TablesSpec => []OneTablePerTokenAndRun
<1>1. TablesInv => OneTablePerTokenAndRun
  <2>1. SUFFICES ASSUME TablesInv PROVE Cardinality(tokenRun.made) <= 1
    BY DEF OneTablePerTokenAndRun
  <2>2. CASE tokenRun.made = {}
    BY <2>2, FS_EmptySet
  <2>3. CASE \E s : tokenRun.made = {s}
    BY <2>3, FS_Singleton
  <2> QED BY <2>1, <2>2, <2>3 DEF TablesInv, TokenRunSound
<1> QED BY <1>1, TablesInvariant, PTL

\* create-universal-alt.ts: an entry of universal-alt.json names a table that was filled.
THEOREM UniversalTablesSound == TablesSpec => []UniversalEntriesFilled
<1>1. TablesInv => UniversalEntriesFilled
  BY DEF TablesInv
<1> QED BY <1>1, TablesInvariant, PTL

\* AltHelper: what a transaction refers to in its tables is what was fetched, and the token's table
\* was fetched with the token's accounts, whatever was rewritten, made, extended or closed since.
THEOREM HelperResolves == TablesSpec => []TransactionsResolve
<1>1. TablesInv => TransactionsResolve
  BY DEF TablesInv, HelperSound, BuiltSound, CacheHolds, TransactionsResolve
<1> QED BY <1>1, TablesInvariant, PTL

================================================================================
