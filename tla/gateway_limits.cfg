\* What limits deposits: caps per call and per block with the price they are computed with,
\* and the per-token quota over epochs, with thresholds and schedules that change meanwhile.
SPECIFICATION LimitsSpec
CONSTANTS
    NATIVE = NATIVE  ZERO = ZERO  GATEWAY = GATEWAY  DEX = DEX  NotCEA = NotCEA
    WETH = WETH  tkn = tkn  alice = alice  cea = cea  uea = uea  other = other
    ERC20s = {tkn}  Users = {alice}  CEAs = {}
    VaultAddresses = {"vault1"}  TSSAddresses = {"tss1"}
    InitialVault = "vault1"  InitialTSS = "tss1"
    Factories = {}  PushAccounts = {uea}  PushAccountOf <- OneFactory
    Requests <- LimitRequests  TokenRequests = {}
    MsgValues = {1, 2, 3}  SwapOuts = {}  Pools = {}  FeeOrders = {}
    SwapDeadlines = {10}
    UINT256 = 32  UINT192 = 16  WAD = 2  Prices = {0, 2, 3}  StalePeriods = {0}  GracePeriods = {1}
    InitialCaps <- Caps13  InitialEpochDuration = 3  InitialStalePeriod = 1
    InitialBalances <- Balances46  InitialTime = 12
    Caps <- MoreCaps  BlockCaps = {0, 2, 3}  Thresholds = {0, 2, 3}  Durations = {0, 2, 3, 4}  Fees = {}
    Ticks = {1, 2}  MaxBlock = 7
PROPERTIES EpochQuotaHolds BlockBudgetHolds
