\* The test scripts of the Solana gateway: their sessions with the deployed program, between
\* other users, relayers and operators; the byte formats they write and read; the search for
\* the largest transaction.
SPECIFICATION MCSpec
CONSTANTS
    SOL = SOL  DEFAULT = DEFAULT  VAULT_PDA = VAULT_PDA  FEE_VAULT = FEE_VAULT  NoKey = NoKey
    admin = admin  ops = ops  user = user  relayer = relayer  receiver = receiver
    stranger = stranger  otherRelayer = otherRelayer  cea = cea  otherCea = otherCea  usdt = usdt
    Mints = {usdt}  SolUsers = {admin, user, receiver, stranger}
    Relayers = {admin, relayer, otherRelayer}  PushUsers = {cea, otherCea}
    SolSubTxIds <- SubTxIds  Messages <- OthersMessages  TssStates <- TssKeys
    SolRequests <- OthersDeposits  NativeAmounts = {0, 1}
    PriceFeeds = {feed1}  PythPrices <- Prices
    LAMPORTS_PER_SOL = 1  MAX_PRICE_AGE_SECONDS = 1  RENT = 1
    StartCaps <- FirstCaps  DefaultConfidence = 5  StartBalances <- Funds  StartTime = 6
    SolCaps <- SomeCaps  SlotCaps = {0, 2}  EpochDurations = {1}  TokenLimits = {1}
    ProtocolFees = {0, 1}  Confidences = {1}  SlotTicks = {1}  MaxSlot = 2
    AdminKeys = {admin, ops}
    AdminKey = admin  SessionUser = user  SessionRelayer = relayer  SessionCEA = cea
    Receiver = receiver  SessionMint = usdt  EnvKeys <- SomeEnvKeys
    HardCodedTss <- OurTss  VeryLarge = 100
    FallbackGas = 1  SessionCaps <- FirstCaps
    MaxSessions = 2  MaxOthers = 3  MaxOthersAgain = 1
    KEY_BYTES = 2  U64_BYTES = 2  SAFE = 1024
    Instructions <- SomeInstructions  UserPayloads <- SomeUserPayloads
    Overheads <- AllOverheads  LIMIT = 1232  MinAccounts = 3  MaxAccounts = 40
    MaxData = 600  UsualData = 70
INVARIANTS ProgramSeesTheInstruction DecodedPayloadIsExact ReportsTheCapacity
    SuccessMeansReleased
PROPERTY QuietSessionPasses
\* A payload that was decoded, a search that ended and a session that is over stop.
CHECK_DEADLOCK FALSE
