\* The scripts around lookup tables and tokens: creations side by side with slots that go stale,
\* collisions, deaths and tables that are closed; token-cli; the two maintenance
\* scripts; the AltHelper while its files are rewritten and its tables closed and made anew.
\* Every script ends, and no more are started than the bound says: the instance may stop.
SPECIFICATION MCSpec
CONSTANTS
    Symbols = {"dai", "usdt"}  old = old  Mints = {old, new1, new2}  NoMint = NoMint
    CommittedFiles <- MCCommitted  ClusterMints = {old}  MaxSupply = 2
    Labels = {"main"}  NoTable = NoTable  MaxAttempts = 2  MaxSlot = 2  MaxStarts = 3
    MaxHelperStarts = 2  Questions = {"tables", "helper", "tokens", "upkeep"}
INVARIANTS TokenFilesNameMintedTokens WhitelistedIsDepositable TokenEntriesNameTheirTables
           OneTablePerTokenAndRun UniversalEntriesFilled TransactionsResolve
PROPERTY TokenScriptEnds
CHECK_DEADLOCK FALSE
