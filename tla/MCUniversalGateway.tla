--------------------------- MODULE MCUniversalGateway ---------------------------
(***************************************************************************)
(* Small instances of UniversalGateway. A run asks one or two questions;   *)
(* a behaviour is about one of them, chosen in its initial state, and takes *)
(* only the steps that matter to it, so that it can go deeper.             *)
(***************************************************************************)
EXTENDS UniversalGateway

CONSTANTS tkn, alice, cea, uea, other

VARIABLE question   \* what the behaviour is about

\* One factory that knows the CEA, and one that does not.
TwoFactories == [f \in Factories |-> [c \in CEAs |-> IF f = other THEN NotCEA ELSE uea]]
OneFactory   == [f \in Factories |-> [c \in CEAs |-> uea]]

\* Balances to start with: the caller's, and some native coin to swap for.
StartWith(native, erc20) ==
    [t \in Tokens |-> [a \in Accounts |->
        CASE a \in Users \cup CEAs -> IF t = NATIVE THEN native ELSE erc20
          [] a = DEX /\ t = NATIVE -> 2
          [] OTHER                 -> 0]]
Balances46 == StartWith(4, 6)
Balances2 == StartWith(2, 2)

Request(recipient, token, amount, payload) ==
    [recipient |-> recipient, token |-> token, amount |-> amount, payload |-> payload,
     revertRecipient |-> alice]

\* Every shape _fetchTxType tells apart, with and without a recipient, one amount that the
\* unchecked sum of _consumeRateLimit wraps around, and a request without revertRecipient.
RoutingRequests ==
    {Request(r, t, a, p) : r \in {ZERO, uea}, t \in {NATIVE, tkn}, a \in {0, 1}, p \in BOOLEAN}
    \cup {Request(ZERO, tkn, UINT256 - 1, FALSE),
          [Request(uea, tkn, 1, TRUE) EXCEPT !.revertRecipient = ZERO]}

GasRequest    == Request(ZERO, NATIVE, 0, FALSE)
LimitRequests == {GasRequest} \cup {Request(ZERO, tkn, a, FALSE) : a \in {1, 2, UINT256 - 1}}

Swap(gasToken, amount, min, deadline) ==
    [gasToken |-> gasToken, gasAmount |-> amount, amountOutMinETH |-> min, deadline |-> deadline]
SomeSwaps ==
    [req  : {Request(ZERO, NATIVE, 0, FALSE), Request(ZERO, NATIVE, 1, TRUE),
             Request(ZERO, tkn, 1, FALSE)},
     swap : {Swap(WETH, 2, 1, 0), Swap(tkn, 1, 1, InitialTime)}]
TknPool   == {<<tkn, 1>>}

Caps13   == <<1, 3>>
OneCaps  == {<<1, 1>>}
MoreCaps == {<<2, 3>>, <<2, 1>>}

--------------------------------------------------------------------------------
\* The oracle of a run that is not about it: set once, then left alone.
FeedSet == SetEthUsdFeed /\ UNCHANGED <<adminVars, nonAdminVars, windowVars, round, sequencer>>

Supporting == \E batch \in [Tokens -> Thresholds] : SetTokenLimitThresholds(batch)

RoutingNext ==
    \/ CallerStep
    \/ FeedSet \/ Supporting
    \/ \E fee \in Fees : SetProtocolFee(fee)
    \/ \E caps \in Caps : SetCapsUSD(caps)
    \/ \E factory \in Factories : SetCEAFactory(factory)
    \/ \E config \in SwapConfigs : ConfigureSwap(config)
RoutingInit == Init /\ question = "routing"
RoutingSpec == RoutingInit /\ [][RoutingNext /\ UNCHANGED question]_<<vars, question>>

\* Quotas: the token deposits, in up to MaxBlock blocks.
EpochNext ==
    \/ \E req \in Requests \ {GasRequest} : SendUniversalTx(bal, alice, req, 0)
    \/ \E tokens \in SUBSET Tokens : \E batch \in [tokens -> Thresholds] :
           SetTokenLimitThresholds(batch)
    \/ \E sec \in Durations : UpdateEpochDuration(sec)
    \/ \E sec \in Ticks : NewBlock(sec)

\* The instant route alone, with everything its checks depend on, in three blocks.
GasNext ==
    \/ \E value \in MsgValues : SendUniversalTx(bal, alice, GasRequest, value)
    \/ ConfigureOracle
    \/ \E cap \in BlockCaps : SetBlockUsdCap(cap)
    \/ \E caps \in Caps : SetCapsUSD(caps)
    \/ OracleMoves
    \/ blockNumber < 3 /\ NewBlock(1)

LimitsInit ==
    /\ Init /\ question \in {"gas", "epochs"}
    /\ ~swapConfig.routers
    /\ question = "epochs" => round.answer = 2

LimitsSpec ==
    /\ LimitsInit
    /\ [][/\ \/ question = "gas" /\ GasNext
             \/ question = "epochs" /\ EpochNext
          /\ UNCHANGED question]_<<vars, question>>

--------------------------------------------------------------------------------
(* What a comment or a document says and the code does differently. *)

\* IUniversalGateway: minValue of getMinMaxValueForNative is the "Minimum native amount (in
\* wei) allowed by MIN_CAP_UNIVERSAL_TX_USD".
AdvertisedMinimumAllowed ==
    /\ PriceAvailable(timestamp)
    /\ MinValueForNative > 0
    => QuoteEthAmountInUsd(MinValueForNative) >= capsUSD.min

\* _consumeRateLimit: "epoch.used is reset to 0 when a new epoch starts (no rollover)". A block
\* that begins an epoch finds nothing used in it; only the clock moves in such a step.
FreshEpochStartsEmpty ==
    [][blockNumber' # blockNumber /\ CurrentEpoch' # CurrentEpoch =>
           \A t \in Tokens : UsedNow(t)' = 0]_vars

================================================================================
