------------------------------- MODULE TokenTools -------------------------------
(***************************************************************************)
(* app/token-cli.ts: creates SPL tokens and their files, mints them, and   *)
(* whitelists them at the Solana gateway. Every command is a row of        *)
(* transactions and file writes; a transaction may fail, or land while its *)
(* confirmation does not arrive, and the process may die between any two.  *)
(***************************************************************************)
EXTENDS Naturals, FiniteSets, Sequences, Functions

CONSTANTS
    Symbols, Mints, NoMint,
    CommittedFiles,     \* the token files of the repository: Symbols -> mint, or NoMint
    ClusterMints,       \* the mints of these on the cluster
    MaxSupply           \* bound on the tokens minted of one mint

ASSUME TokenAssumption ==
    /\ NoMint \notin Mints /\ ClusterMints \subseteq Mints /\ MaxSupply \in Nat
    /\ CommittedFiles \in [Symbols -> Mints \cup {NoMint}]

VARIABLES
    mintSupply,         \* mint accounts of the cluster -> tokens minted
    threshold,          \* mint -> limit_threshold of its token_rate_limit account
    vaultAtas,          \* the mints for which the gateway's vault has a token account
    tokenFile,          \* symbol -> mint in tokens/<symbol>-token.json
    secretFile,         \* symbol -> mint whose key is in secrets/<symbol>-secret.json
    cli,                \* [at, symbol, mint] of the running command
    whitelisted         \* history: what the last command on each mint reported, if "whitelisted"

toolVars == <<mintSupply, threshold, vaultAtas, tokenFile, secretFile, cli, whitelisted>>

NoCommand == [at |-> "off", symbol |-> "", mint |-> NoMint]

ToolsInit ==
    /\ mintSupply = [m \in ClusterMints |-> 1]
    /\ threshold = [m \in Mints |-> 0] /\ vaultAtas = {}
    /\ tokenFile = CommittedFiles /\ secretFile = [s \in Symbols |-> NoMint]
    /\ cli = NoCommand
    /\ whitelisted = {}

\* sendAndConfirmTransaction and rpc(): both throw on an error of the transaction; "late" is a
\* transaction that lands although the call has thrown.
Results == {"done", "late", "error"}
Landed(result) == result \in {"done", "late"}
SentIsEnough(result) == result \in Results
GoesOn(result) == result = "done"

\* The command after one of its transactions: its next part, or the end of the process.
Proceeds(result, next) == cli' = IF GoesOn(result) THEN [cli EXCEPT !.at = next] ELSE NoCommand

--------------------------------------------------------------------------------
(* create: the mint with its metadata, an account for the user's tokens, the first tokens, the *)
(* two files. *)

CreateToken(symbol, mint) ==
    /\ cli = NoCommand
    /\ mint \notin DOMAIN mintSupply \cup Range(CommittedFiles)
    /\ cli' = [at |-> "createMint", symbol |-> symbol, mint |-> mint]
    /\ UNCHANGED <<mintSupply, threshold, vaultAtas, tokenFile, secretFile, whitelisted>>

CreateMint(result) ==
    /\ cli.at = "createMint"
    /\ mintSupply' = IF ~Landed(result) THEN mintSupply
                     ELSE [m \in DOMAIN mintSupply \cup {cli.mint} |->
                              IF m = cli.mint THEN 0 ELSE mintSupply[m]]
    /\ Proceeds(result, "createAccount")
    /\ UNCHANGED <<threshold, vaultAtas, tokenFile, secretFile, whitelisted>>

\* getOrCreateAssociatedTokenAccount drops what its transaction throws and reads the account
\* again: create goes on when it is there.
CreateTokenAccount(result, readAgain) ==
    /\ cli.at = "createAccount"
    /\ cli' = IF Landed(result) /\ readAgain THEN [cli EXCEPT !.at = "mintTo"] ELSE NoCommand
    /\ UNCHANGED <<mintSupply, threshold, vaultAtas, tokenFile, secretFile, whitelisted>>

MintInitialSupply(result) ==
    /\ cli.at = "mintTo"
    /\ mintSupply' = IF cli.mint \in DOMAIN mintSupply /\ Landed(result)
                     THEN [mintSupply EXCEPT ![cli.mint] = @ + 1] ELSE mintSupply
    /\ Proceeds(result, "saveToken")
    /\ UNCHANGED <<threshold, vaultAtas, tokenFile, secretFile, whitelisted>>

\* saveTokenInfo: a second token of the same symbol overwrites the files of the first.
SaveTokenInfo ==
    \/ /\ cli.at = "saveToken"
       /\ tokenFile' = [tokenFile EXCEPT ![cli.symbol] = cli.mint]
       /\ cli' = [cli EXCEPT !.at = "saveSecret"]
       /\ UNCHANGED <<mintSupply, threshold, vaultAtas, secretFile, whitelisted>>
    \/ /\ cli.at = "saveSecret"
       /\ secretFile' = [secretFile EXCEPT ![cli.symbol] = cli.mint]
       /\ cli' = NoCommand
       /\ UNCHANGED <<mintSupply, threshold, vaultAtas, tokenFile, whitelisted>>

--------------------------------------------------------------------------------
(* The other commands. *)

\* loadTokenInfo
Named(symbol) == tokenFile[symbol]

\* mint: by address, the user's key signs, which is the mint authority; by symbol, the key of
\* the mint account, which is not.
Authority(bySymbol) == IF bySymbol THEN "mint account" ELSE "user"
MintTokens(symbol, bySymbol) ==
    /\ cli = NoCommand
    /\ Named(symbol) \in DOMAIN mintSupply
    /\ bySymbol => secretFile[symbol] # NoMint
    /\ Authority(bySymbol) = "user"
    /\ mintSupply[Named(symbol)] < MaxSupply
    /\ mintSupply' = [mintSupply EXCEPT ![Named(symbol)] = @ + 1]
    /\ UNCHANGED <<threshold, vaultAtas, tokenFile, secretFile, cli, whitelisted>>

\* whitelist: the rate limit, then the vault's token account.
Whitelist(symbol) ==
    /\ cli = NoCommand
    /\ Named(symbol) # NoMint
    /\ cli' = [at |-> "setThreshold", symbol |-> symbol, mint |-> Named(symbol)]
    /\ UNCHANGED <<mintSupply, threshold, vaultAtas, tokenFile, secretFile, whitelisted>>

SetThreshold(result) ==
    /\ cli.at = "setThreshold"
    /\ threshold' = IF Landed(result) THEN [threshold EXCEPT ![cli.mint] = 1] ELSE threshold
    /\ Proceeds(result, "createVaultAta")
    /\ UNCHANGED <<mintSupply, vaultAtas, tokenFile, secretFile, whitelisted>>

CreateVaultAta(result) ==
    /\ cli.at = "createVaultAta"
    /\ cli.mint \notin DOMAIN mintSupply => result = "error"
    /\ vaultAtas' = IF Landed(result) THEN vaultAtas \cup {cli.mint} ELSE vaultAtas
    /\ whitelisted' = IF GoesOn(result) THEN whitelisted \cup {cli.mint} ELSE whitelisted
    /\ cli' = NoCommand
    /\ UNCHANGED <<mintSupply, threshold, tokenFile, secretFile>>

\* unwhitelist
Unwhitelist(symbol, result) ==
    /\ cli = NoCommand
    /\ Named(symbol) # NoMint
    /\ threshold' = IF Landed(result) THEN [threshold EXCEPT ![Named(symbol)] = 0]
                    ELSE threshold
    /\ whitelisted' = whitelisted \ {Named(symbol)}
    /\ UNCHANGED <<mintSupply, vaultAtas, tokenFile, secretFile, cli>>

\* check-whitelist looks at the threshold alone.
IsWhitelisted(mint) == threshold[mint] > 0

CliDies ==
    /\ cli # NoCommand
    /\ cli' = NoCommand
    /\ UNCHANGED <<mintSupply, threshold, vaultAtas, tokenFile, secretFile, whitelisted>>

--------------------------------------------------------------------------------
CliStarts ==
    \/ \E symbol \in Symbols, mint \in Mints : CreateToken(symbol, mint)
    \/ \E symbol \in Symbols, bySymbol \in BOOLEAN : MintTokens(symbol, bySymbol)
    \/ \E symbol \in Symbols : Whitelist(symbol)
    \/ \E symbol \in Symbols, result \in Results : Unwhitelist(symbol, result)

CliStep ==
    \/ \E result \in Results :
           CreateMint(result) \/ MintInitialSupply(result) \/ SetThreshold(result)
                              \/ CreateVaultAta(result)
    \/ \E result \in Results, readAgain \in BOOLEAN : CreateTokenAccount(result, readAgain)
    \/ SaveTokenInfo

ToolsNext == CliStarts \/ CliStep \/ CliDies

--------------------------------------------------------------------------------
(* Properties. *)

\* A file under tokens/ names a mint of which there are tokens: whatever fails or dies on the
\* way, create leaves no file behind for a token that cannot be used.
TokenFilesNameMintedTokens ==
    \A s \in Symbols :
        tokenFile[s] \notin Range(CommittedFiles) \cup {NoMint} =>
            tokenFile[s] \in DOMAIN mintSupply /\ mintSupply[tokenFile[s]] > 0

\* What whitelist has reported whitelisted, the gateway takes: it has a threshold and the vault
\* an account to receive it in, until unwhitelist is called.
WhitelistedIsDepositable ==
    \A m \in whitelisted : IsWhitelisted(m) /\ m \in vaultAtas

================================================================================
