\* The advertised minimum deposit is below the minimum.
SPECIFICATION LimitsSpec
CONSTANTS
    NATIVE = NATIVE  ZERO = ZERO  GATEWAY = GATEWAY  DEX = DEX  NotCEA = NotCEA
    WETH = WETH  tkn = tkn  alice = alice  cea = cea  uea = uea  other = other
    ERC20s = {tkn}  Users = {alice}  CEAs = {}
    VaultAddresses = {"vault1"}  TSSAddresses = {"tss1"}
    InitialVault = "vault1"  InitialTSS = "tss1"
    Factories = {}  PushAccounts = {uea}  PushAccountOf <- OneFactory
    Requests <- LimitRequests  TokenRequests = {}
    MsgValues = {1, 2, 3}  SwapOuts = {}  Pools = {}  FeeOrders = {}
    SwapDeadlines = {10}
    UINT256 = 32  UINT192 = 16  WAD = 2  Prices = {2, 3}  StalePeriods = {}  GracePeriods = {}
    InitialCaps <- Caps13  InitialEpochDuration = 3  InitialStalePeriod = 2
    InitialBalances <- Balances46  InitialTime = 12
    Caps <- MoreCaps  BlockCaps = {0, 2, 4}  Thresholds = {6}  Durations = {}  Fees = {}
    Ticks = {1}  MaxBlock = 3
INVARIANTS AdvertisedMinimumAllowed
