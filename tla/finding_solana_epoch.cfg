\* A new epoch of the Solana quota that starts with usage of the old schedule.
SPECIFICATION ProgramSpec
CONSTANTS
    SOL = SOL  DEFAULT = DEFAULT  VAULT_PDA = VAULT_PDA  FEE_VAULT = FEE_VAULT
    usdc = usdc  bob = bob  relayer1 = relayer1  push1 = push1  push2 = push2
    Mints = {usdc}  SolUsers = {bob}  Relayers = {relayer1}
    PushUsers = {push1, push2}  SolSubTxIds = {"s1", "s2", "s3", "s4"}
    Messages <- AllMessages  TssStates = {"key1", "key2"}
    SolRequests <- AllShapes  NativeAmounts = {1, 2, 3}
    PriceFeeds = {feed1}  PythPrices <- Quotes
    LAMPORTS_PER_SOL = 1  MAX_PRICE_AGE_SECONDS = 1  RENT = 1
    StartCaps <- Caps12  DefaultConfidence = 5  StartBalances <- Rich  StartTime = 6
    SolCaps <- OtherCaps  SlotCaps = {0, 2}  EpochDurations = {1, 2}  TokenLimits = {2}
    ProtocolFees = {1}  Confidences = {0, 1}  SlotTicks = {1}  MaxSlot = 3
PROPERTIES FreshEpochHasFullQuota
