\* The client's requests carry no PC, and the gateway takes the gas fee in PC alone.
SPECIFICATION PushSpec
CONSTANTS
    PC = PC  ZERO = ZERO  UGPC = UGPC  AMM = AMM  Manager = Manager
    pETH = pETH  pUSD = pUSD  pX = pX  carol = carol  dave = dave  chain = chain
    PRC20s = {pETH, pUSD, pX}  Callers = {carol, dave}  VaultPCs = {vault1, vault2}
    GasTokenOf <- MCGasTokenOf  ChainOf <- MCChainOf  InitialVaultPC = vault1
    OutboundRequests <- OutRequests  PCValues = {1, 2}  SwapCosts = {0, 1}
    GasPrices = {1, 2}  OutboundFees = {0, 1}  BASE_GAS_LIMIT = 1  RescueGasLimit = 1
    StartPC <- MCStartPC  MaxNonce = 3
    Signer = dave  Recipient = dave  PSOL = pETH  USDC = pUSD  USDT = pX
    Withdrawn = 1  TopUps = {0, 1}  GasLimits = {0, 2}
    CounterAuthorityKnown = TRUE  SplMintKnown = TRUE  MaxRuns = 2  MaxDonated = 1
PROPERTY ApprovedRequestIsIssued
