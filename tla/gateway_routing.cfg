\* What one call does with its value, in every request shape, by a user and by a CEA.
SPECIFICATION RoutingSpec
CONSTANTS
    NATIVE = NATIVE  ZERO = ZERO  GATEWAY = GATEWAY  DEX = DEX  NotCEA = NotCEA
    WETH = WETH  tkn = tkn  alice = alice  cea = cea  uea = uea  other = other
    ERC20s = {tkn, WETH}  Users = {alice}  CEAs = {cea}
    VaultAddresses = {"vault1"}  TSSAddresses = {"tss1"}
    InitialVault = "vault1"  InitialTSS = "tss1"
    Factories = {factory}  PushAccounts = {uea}  PushAccountOf <- OneFactory
    Requests <- RoutingRequests  TokenRequests <- SomeSwaps
    MsgValues = {0, 1, 2}  SwapOuts = {1}  Pools <- TknPool  FeeOrders = {{1}}
    SwapDeadlines = {10}
    UINT256 = 16  UINT192 = 8  WAD = 1  Prices = {1}  StalePeriods = {}  GracePeriods = {}
    InitialCaps <- Caps13  InitialEpochDuration = 4  InitialStalePeriod = 2
    InitialBalances <- Balances2  InitialTime = 8
    Caps <- OneCaps  BlockCaps = {}  Thresholds = {3}  Durations = {}  Fees = {1}
    Ticks = {}  MaxBlock = 1
INVARIANTS TypeOK EventsBacked GatewayPassesEverythingOn
