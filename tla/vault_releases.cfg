\* Reverts and rescues under rotations and pauses of both contracts; finalizations whose CEAs
\* call back into the gateway.
SPECIFICATION ReleasesSpec
CONSTANTS
    NATIVE = NATIVE  ZERO = ZERO  GATEWAY = GATEWAY  DEX = DEX  NotCEA = NotCEA
    WETH = WETH  tkn = tkn  alice = alice  cea = cea  uea = uea  other = other
    ERC20s = {tkn}  Users = {alice}  CEAs = {cea}
    VaultAddresses = {"vault1", "vault2"}  TSSAddresses = {"tss1", "tss2"}
    InitialVault = "vault1"  InitialTSS = "tss1"
    Factories = {factory, other}  PushAccounts = {uea}  PushAccountOf <- TwoFactories
    Requests <- DepositRequests  TokenRequests = {}
    MsgValues = {0, 1}  SwapOuts = {}  Pools = {}  FeeOrders = {}
    SwapDeadlines = {10}
    UINT256 = 32  UINT192 = 16  WAD = 1  Prices = {1}  StalePeriods = {}  GracePeriods = {}
    InitialCaps <- Caps13  InitialEpochDuration = 3  InitialStalePeriod = 2
    InitialBalances <- ReleaseBalances  InitialTime = 12
    Caps = {}  BlockCaps = {}  Thresholds = {4}  Durations = {}  Fees = {1}
    Ticks = {}  MaxBlock = 1
    GATEWAY2 = GATEWAY2  Gateways = {GATEWAY, GATEWAY2}  CEAFor <- OneCEA  SubTxIds = {tx1, tx2}
    Payouts <- SmallPayouts  CEARequests <- BackToUEA
INVARIANTS CustodyBalances RefundedAtMostOnce RolesFollowAddresses
PROPERTIES CEAEventsNameTheirUEA RefundsByServingVault
