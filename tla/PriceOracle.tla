------------------------------ MODULE PriceOracle ------------------------------
(***************************************************************************)
(* The ETH/USD price as UniversalGateway reads it: the Chainlink price     *)
(* feed and the L2 sequencer uptime feed (external), the gateway's         *)
(* configuration of both, and the checks of getEthUsdPrice.                *)
(*                                                                         *)
(* A price is the number of USD units per WAD wei, already rescaled from   *)
(* the feed's decimals to the contract's 1e18 scale.                       *)
(***************************************************************************)
EXTENDS Integers

CONSTANTS
    WAD,            \* the divisor 1e18 of quoteEthAmountInUsd1e18
    Prices,         \* answers the feed may give; an answer <= 0 is an invalid one
    StalePeriods,   \* values of chainlinkStalePeriod the admin may set, 0 for "no check"
    GracePeriods    \* values of l2SequencerGracePeriodSec the admin may set

ASSUME OracleAssumption ==
    /\ WAD \in Nat \ {0}
    /\ Prices \subseteq Int
    /\ StalePeriods \subseteq Nat
    /\ GracePeriods \subseteq Nat

VARIABLES
    feedConfig,     \* [ethUsdFeed, l2SequencerFeed : set or not, stalePeriod, gracePeriod]
    round,          \* latestRoundData of the price feed (external)
    sequencer       \* latestRoundData of the sequencer feed (external)

oracleVars == <<feedConfig, round, sequencer>>

FeedConfigs == [ethUsdFeed : BOOLEAN, l2SequencerFeed : BOOLEAN,
                stalePeriod : Nat, gracePeriod : Nat]
Rounds      == [answer : Int, updatedAt : Nat, complete : BOOLEAN]
Sequencers  == [up : BOOLEAN, since : Nat]

OracleTypeOK ==
    /\ feedConfig \in FeedConfigs
    /\ round \in Rounds
    /\ sequencer \in Sequencers

\* initialize sets the stale period and leaves both feeds and the grace period unset.
OracleInit(now, stalePeriod) ==
    /\ feedConfig = [ethUsdFeed |-> FALSE, l2SequencerFeed |-> FALSE,
                     stalePeriod |-> stalePeriod, gracePeriod |-> 0]
    /\ round \in [answer : Prices, updatedAt : {now}, complete : {TRUE}]
    /\ sequencer = [up |-> TRUE, since |-> now]

--------------------------------------------------------------------------------
(* What the gateway reads. *)

SequencerSound(now) ==
    feedConfig.l2SequencerFeed =>
        /\ sequencer.up
        /\ feedConfig.gracePeriod # 0 => now - sequencer.since > feedConfig.gracePeriod

RoundSound(now) ==
    /\ round.answer > 0
    /\ round.complete
    /\ feedConfig.stalePeriod # 0 => now - round.updatedAt <= feedConfig.stalePeriod

\* getEthUsdPrice returns rather than reverting.
PriceAvailable(now) ==
    /\ feedConfig.ethUsdFeed
    /\ SequencerSound(now)
    /\ RoundSound(now)

\* quoteEthAmountInUsd1e18, which asks the oracle for nothing when the amount is 0.
QuoteAvailable(now, amountWei) == amountWei = 0 \/ PriceAvailable(now)
QuoteEthAmountInUsd(amountWei) == (amountWei * round.answer) \div WAD

--------------------------------------------------------------------------------
(* The setters (the gateway adds their whenNotPaused guard), and the feeds. *)

SetEthUsdFeed == feedConfig' = [feedConfig EXCEPT !.ethUsdFeed = TRUE]

SetChainlinkStalePeriod(sec) == feedConfig' = [feedConfig EXCEPT !.stalePeriod = sec]

SetL2SequencerFeed(isSet) == feedConfig' = [feedConfig EXCEPT !.l2SequencerFeed = isSet]

SetL2SequencerGracePeriod(sec) == feedConfig' = [feedConfig EXCEPT !.gracePeriod = sec]

\* Chainlink posts a round, possibly one carried over from an earlier round.
PostRound(now, answer, complete) ==
    /\ round' = [answer |-> answer, updatedAt |-> now, complete |-> complete]
    /\ UNCHANGED <<feedConfig, sequencer>>

\* The sequencer goes down or comes back.
SequencerFlips(now) ==
    /\ sequencer' = [up |-> ~sequencer.up, since |-> now]
    /\ UNCHANGED <<feedConfig, round>>

================================================================================
