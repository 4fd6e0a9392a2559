# Push Chain gateways: models, checks and proofs

The repository holds the gateways between Push Chain and the external chains it serves:
Solidity contracts for EVM chains (`src/contracts/evm-gateway`) and for Push Chain itself, an
Anchor program for Solana (`src/contracts/svm-gateway`), and the TypeScript clients, operators'
tools and test scripts of the Solana side. This directory models them in TLA+, checks the models
with TLC and proves theorems about them with TLAPS.

## 1. The system

Users deposit on an external chain; Universal Validators observe the event and credit the user
on Push Chain. In the other direction a user burns a PRC20 on Push Chain; the validators sign
the release with a threshold key (TSS), and it is delivered on the external chain. What cannot
be delivered is reverted or rescued. The validators are not in the repository.

| Component | State it keeps | Operations | Hard behaviour |
|---|---|---|---|
| `UniversalGateway.sol` | TSS and Vault addresses and roles, pause, USD caps, block budget, per-token quota, fee, swap and oracle configuration, `isExecuted` | three deposit entry points, revert and rescue (called by the Vault), the setters | lazily reset counters, unchecked `uint192` arithmetic, `msg.value` split over fee, gas and funds, settings that change in mid-window |
| Chainlink reading (in `UniversalGateway.sol`) | feeds, stale period, sequencer feed, grace period | `getEthUsdPrice`, `quoteEthAmountInUsd1e18` | stale or incomplete rounds, a sequencer that was down |
| `Vault.sol` | gateway, TSS, CEA factory, pause; ERC20 custody | finalize, revert, rescue, the setters | the CEA it calls calls the gateway back; Vault and gateway are rotated and paused independently |
| CEA, CEAFactory (external) | the CEA of a Push Chain account | called by the Vault | any call at all |
| `UniversalGatewayPC.sol` | nonce, VaultPC address, pause | outbound request, rescue request, `setVaultPC`, pause | three external calls in one transaction; identical requests |
| `VaultPC.sol` | protocol fees, pause | withdrawals to anybody, among them another VaultPC; PC that anybody sends | several VaultPCs over time |
| `push-chain-outbound.ts` | allowances of its signer; the request it is at | quote, two approvals, request, for five cases | three transactions that anyone may act between; killed and started again |
| `universal-gateway` program | config, fee vault, rate-limit config and per-token limits, TSS account, one account per executed `sub_tx_id`, SOL and SPL vaults | deposit, finalize (withdraw, execute, return from a CEA), revert, rescue, the settings | messages delivered twice, late, out of order or after a key change; epoch numbers that go backwards; the fee vault running dry |
| `config-cli.ts` | the program's settings and authorities | one command, one instruction | commands of several operators between the steps of everybody else |
| `token-cli.ts` | SPL mints, token and secret files, the gateway's limit and vault account of a token | create, mint, whitelist, unwhitelist | several transactions and files per command, each of which may fail, or land without its confirmation |
| lookup-table scripts, `AltHelper` | tables on the chain, three JSON files | three creations, extension, deactivation, loading and choosing | slots that go stale, retries, two scripts in one slot, death between table and file; tables closed while a file or a cache names them |
| `gateway-test.ts`, `simple-spl-test.ts` | what a step saw | thirty-two, and three, steps: look, send, look again | others act between the looks; killed and restarted; failures that are printed and forgotten |
| payload formats (`execute-payload.ts`, `decode-tx.js`) | - | encode, decode | bit order and field offsets shared by programs in two languages |

What makes each correct: the gateway must pass on exactly what it announces, to the address that
holds the role, within caps, budget and quota; the Vault and the Solana vault must pay a
`subTxId` once and hold what was announced less what was released; the outbound gateway must
take out of circulation what it announces, under ids that never repeat. The tools must leave
files that name what was put on the chain; the test scripts must pass on a gateway nobody
disturbs, and must not pass when a release did not happen.

How they interact: Vault calls gateway (refunds) and CEA (finalize), and the CEA the gateway
(`sendUniversalTx`, `sendUniversalTxFromCEA`), all in one transaction; the gateway transfers to
Vault and TSS; UniversalGatewayPC calls UniversalCore, the PRC20 and VaultPC; on Solana the
program calls a target program with the CEA's signature. Between chains there are only events
and the messages the TSS signs. The scripts send transactions and share the working directory:
`create-token-alt.ts` reads the token files `token-cli.ts` writes, `AltHelper` reads the files of
the table scripts, and the sessions run against the program the operators configure.

## 2. Modules

A transaction (EVM) or instruction (Solana) that fails has no effect and one that succeeds is
atomic, so it is one action, and every `revert`, `require!` and account constraint is a guard.
Where code of others runs within a transaction (a CEA, a target program, UniversalCore, the AMM),
the action leaves its outcome open within what that code can do. A script is a program counter
with one action for the code from one awaited call to the next. Variables after the comment
`history` are read by properties only.

| Module | Models | Notes |
|---|---|---|
| `ChainLedger` | balances, transfers | shared by the EVM modules |
| `PriceOracle` | `UniversalGateway.sol` 259-285, 632-702; the feeds | rounds are posted, may be incomplete or not positive; the sequencer goes down and comes back |
| `UniversalGateway` | all of `UniversalGateway.sol` | `CallerStep`, `AdminStep`, `ChainStep`; `SendUniversalTx`, `SendUniversalTxWithToken` and `SendUniversalTxFromCEA` share `RouteUniversalTx`, as the code does; `Refund` is the gateway's half of a revert or rescue |
| `Vault` | all of `Vault.sol`, for every address the gateway's VAULT may be set to | `FinalizeBackToPush` runs a deposit inside a finalization; `GATEWAY2` is a redeployed gateway, of which only `isExecuted` matters |
| `SolanaGateway` | `deposit.rs`, `rate_limit.rs`, `pricing.rs`, `admin.rs`, `initialize.rs`, TSS settings | the accounts that exist are the set `created` |
| `SolanaReleases` | `execute.rs`, `withdraw.rs`, `revert.rs`, `rescue.rs`, `validate_message`, `transfers.rs` | every member of `Messages` counts as signed by the key it names, and may be delivered at any time and again |
| `CustodyPromise` | abstract | what a custodian of bridged assets promises: what comes in is announced, what goes out a signed order names, each order's id once, for the key in force, and nothing while it is closed |
| `ConfigCli` | the access constraints of `admin.rs`, `set_authorities`, `config-cli.ts` | `authority` is who administers and pauses; a command composes its own checks, the constraint and the program's action |
| `GatewaySession` | `gateway-test.ts` but for 1389-1560, `simple-spl-test.ts` | a script is a sequence of records; `Look` reads balances, price and accounts, `Send` is the transaction, `Check` compares; `SomebodyElse` is any step of operators, users, relayers and the chain. A session signs with the key of its machine's `.env` (`EnvKeys`), but `gateway-test.ts` initializes the TSS with an address it has hard-coded (`HardCodedTss`). `gateway-test.ts` creates the vault's token account where it is missing, `simple-spl-test.ts` throws |
| `TxSizing` | the two binary searches of `gateway-test.ts` 2856-3189 | the size of a serialized transaction is a formula: overhead, 33 bytes an account, a bit of flags each, the data |
| `PayloadCodecs` | `execute-payload.ts`, `decode-tx.js`, the flags as `execute.rs` reads them | the codecs work on sequences of bytes of any length; where a JavaScript number cannot hold an integer it is the nearest it can (`JsNumber`). In the instance a key and a u64 have two bytes and numbers are exact below 1024 |
| `TokenTools` | `token-cli.ts` | each transaction is `done`, `late` (it landed, the call threw) or `error`; `create` is three of them (mint, account, supply) and then a file; one command runs at a time |
| `LookupTables` | `create-token-alt.ts`, `create-protocol-alt.ts`, `create-universal-alt.ts`, `extend-alt.ts`, `deactivate-alt.ts`, `alt-helper.ts` | a table's address is the slot it derives from; results as above, and `stale` (the slot is not a recent one) and `failed` (it lands and fails, which confirmTransaction does not throw). `RetireTable` (external: Solana's command line tools) deactivates and closes tables at any time. The helper caches accounts, and a table that is gone when it fetches again keeps its cached entry |
| `UniversalGatewayPC` | `UniversalGatewayPC.sol`, `VaultPC.sol` | UniversalCore's quotes change at any time; the swap takes any cost up to what it is given; `WithdrawFees` pays anybody; `SendDirectly` is PC or a PRC20 that arrives without a request |
| `OutboundPromise` | abstract | what Push Chain promises: an asset leaves circulation with the one request that names its amount, or as gas that is accounted for |
| `PushOutboundClient` | `push-chain-outbound.ts` on `UniversalGatewayPC` | `StartClient`, `NextCase`, `GetGasQuote`, `EnsureAllowance`, `SendRequest`, `ClientDies` |
| `MCUniversalGateway`, `MCVault`, `MCSolana`, `MCPush`, `MCLookupTables`, `MCClients` | instances | section 3 |
| `UniversalGatewayProofs`, `VaultProofs`, `SolanaProofs`, `PushProofs`, `PushOutboundProofs`, `LookupTablesProofs`, `ClientProofs` | - | theorems |
| `LedgerProofs` | - | lemmas on division and digits, on sums over finite sets and on transfers, and that recursive functions exist |

Correspondence: variables carry the source's names (`tokenToLimitThreshold`, `isExecuted`,
`INBOUND_FEE`, ...), except `usage` (`_usage`), `consumedUSDinBlock` (`_consumedUSDinBlock`),
`roleHolders` (the members of TSS_ROLE and VAULT_ROLE; the other roles never move), `bal`,
`lamports` and `pcBal` (balances), `rateConfig` and `tokenRateLimit` (the Solana accounts
RateLimitConfig and TokenRateLimit), and the scripts' `client`, `session`, `cli`, `tokenRun`,
`protocolRun`, `universalRun`, `helper` (program counter and locals). A payload is a Boolean
outside `PayloadCodecs`; signature data is left out; a `uint256` sum wraps at the constant
`UINT256` and a stored usage at `UINT192`.

Left out of the actions: gas, transaction fees, rent exemption of accounts other than the fee
vault, rent a relayer pays for `executed_sub_tx`, the exponent of a Pyth price (fixed at -8, the
one of its SOL/USD feed), the swap's `amountOutMin` parameters of UniversalCore, event fields
other than those named. Account encodings and signatures are abstract: a forged signature is
outside the model. In the sessions, all messages are for one CEA, a look is one snapshot, rents
are no part of the balances compared, and the counter of the target program is not tracked; both
scripts run against one program, although `simple-spl-test.ts:17` and `token-cli.ts:21` default to
another program id than `gateway-test.ts:42` and `config-cli.ts:16`.

Three simplifications narrow what a property says. What a target program does with the CEA's
signature (`Execute`) is at most one transfer, of the message's token: that a CEA's balance falls
only in a message for its owner (`CEASpendsForItsOwner`) is so checked of the program's own
transfers and of that one, not of everything a signature allows. `SetSolTss` serves `init_tss`
and `update_tss` alike; `ConfigCli` has the guards that tell them apart. `PayloadCodecs` has
one of the five u64 fields of a universal payload: the other four are read by the same code, each
at the next offset. The JSON branch of `decode-tx.js:229` parses text and is left out.

## 3. Runs

Each passing run explores its whole state space. An instance has a variable `question`, chosen
in the initial state and never changed: a behaviour is about one question and takes the steps
that matter to it, so that it can go deeper than if all steps interleaved.

| Run | Questions | Bounds and why they are enough |
|---|---|---|
| `gateway_routing` | Is value split without loss, for every request shape, caller, fee and swap? | one user, one CEA, 2 ERC20s (one the WETH), values up to 2: every inference branch with value below, at and above amount and fee |
| `gateway_limits` | `epochs`: does the quota hold on the calendar? `gas`: do caps and block budget hold when they, the price and the sequencer change in mid-block? | 7 blocks of 1 or 2 s, three epoch durations, and `UINT256` = 32 with an amount that wraps the sum; 3 blocks with values around both caps |
| `vault_releases` | `refunds`: is a `subTxId` refunded once, and only by the serving Vault? `finalize`: do custody and attribution survive CEAs that call back? | 2 ids, 2 Vaults, 2 TSS addresses, 2 gateways, rotations and pauses of all; 2 factories that disagree, one CEA, both entry points |
| `solana_program` | deposits: slot budget and epoch quota; releases: once each, vault and fee vault accounted for, and the refinement of `CustodyPromise` | 3 slots, 4 quotes (one too uncertain, one zero), a user and a CEA that share the quota; 12 messages for 4 ids under 2 keys: withdraw or revert, execute or rescue, two returns, an id signed as two kinds; one id signed under the first key only, so that a change of keys leaves messages that must never pass |
| `push_outbound` | `gateway`: unique ids, nothing kept, and the refinement of `OutboundPromise`; `fees`: are the fees where they belong while they are paid out to anybody, VaultPCs and the gateway included, and PC and PRC20s arrive without a request? `client`: are the approvals enough? | up to 3 requests (`MaxNonce`), unlimited rescues, a gas token that is itself withdrawn, a token without quote, 2 VaultPCs, donations of up to 1 (`MaxDonated`: one is what an equality without them cannot bear); the client started twice (`MaxRuns`), one case and all five |
| `lookup_tables` | `tables`: three creations side by side; `tokens`: the commands of `token-cli.ts` and the script that reads its files; `upkeep`: extension and deactivation between creations and tables that are closed; `helper`: does every transaction name its accounts by the right table, while files are rewritten and tables deactivated, closed and made again? | 3 slots (`MaxSlot`), 2 attempts (`MaxAttempts`: a first and a repeated one, of the 5 of `create-token-alt.ts:159`), 3 starts of scripts or commands (`MaxStarts`; `MaxHelperStarts` = 2 with the helper: a table and one that takes its place), 2 symbols, 3 mints, supply up to 2 |
| `client_tests` | `session`: a session of either script among everybody else; `payloads`: the codecs; `sizing`: the searches | 2 sessions, 3 steps of others in the first and one before or in the second (`MaxOthers`, `MaxOthersAgain`): one suffices to disturb any step, two to hide it; others' releases of 2 and 3 tokens, which leave the vault too little for the next step or nothing; two keys in `.env`, the hard-coded address being one of them; the vault's token account there or not; flags of 0, 1, 7, 8 and 9 accounts, values around 256 and the last exact number; overheads 560 to 1060, from which the searches end between few accounts and all |
| `finding_*` | section 5 | - |

Deadlock is checked in all but `lookup_tables`, `client_tests` and `finding_extend_alt`: there
every script has ended, and no more are started than the bound says.

The properties, by the question they answer:

- *Backing.* `EventsBacked` and `CustodyBalances` (EVM) and `VaultBacksEvents` (Solana) relate
  custody to the events ever emitted and the releases ever made. `GatewayPassesEverythingOn` and
  `OutboundGatewayKeepsNothing` say nothing gets stuck between; `FeesInVaultPC` and
  `FeeVaultKeepsRent` do the same for fees. `FeesInVaultPC` is an equality in which a withdrawal
  from one VaultPC to another counts for nothing and what arrives without a request counts as
  donated.
- *Refinement.* `KeepsOutboundPromise`: the sum of all balances of a PRC20 is the promise's
  supply, the outbound events are its requests and the gas fees burned its gas. A burn without
  an event, an event without its burn, by another amount or under an old id, would be a step the
  promise does not have. Where the token withdrawn is the gas token, both amounts count.
  `KeepsCustodyPromise`: the Solana vault is in custody, the events are the announcements, the
  messages the orders. It relates in each single step what `VaultBacksEvents` relates over a
  history, and adds whose orders count, that none counts twice, and that a pause stops both
  directions: a step that pays out beyond one message, announces what did not come in, obeys an
  old key or moves custody by a setting is none of the promise's. The inequality in `CarryOut` is
  the code's: a message may name the vault itself as the recipient.
- *Once.* `RefundedAtMostOnce`, `ReleasedAtMostOnce`, `SubTxIdsUnique`.
- *Limits.* `BlockBudgetHolds`, `EpochQuotaHolds`; on Solana `SlotBudgetHolds` and `SolEpochQuotaHolds`. The windows in them
  are counted by history variables on the chain's own clock, not by the counters of the code:
  `epochVolume` starts again when the calendar epoch changes, `blockSpend` when the block changes
  or the cap is switched on. A change of the epoch duration starts a new calendar, and the history
  with it: `EpochQuotaHolds` and `SolEpochQuotaHolds` speak of one schedule. What the code does
  from one schedule to the next is what `finding_evm_epoch` and `finding_solana_epoch` show.
  `GasWithinCaps` and `SolGasWithinCaps`, which come close to the guards, are left to their
  theorems.
- *Authority.* `RolesFollowAddresses`, `RefundsByServingVault`, `CEAEventsNameTheirUEA`,
  `CEASpendsForItsOwner`.
- *Clients and tools.* `ApprovalCoversQuote`: when the request goes out the allowances cover fee
  and amount together, whatever an earlier run left. `TokenFilesNameMintedTokens`,
  `TokenEntriesNameTheirTables`, `UniversalEntriesFilled`: a file never names what was never on
  the chain or holds something else, after deaths, lost confirmations and collisions.
  `TransactionsResolve`: the accounts that a transaction names by their place in a cached table are
  the accounts of that table's address, if the address still holds one: a closed table's address
  is never that of another. `OneTablePerTokenAndRun`: a retry does not leave a second table.
  `WhitelistedIsDepositable`: what the command reports is so.
- *Test scripts.* `QuietSessionPasses`: the step in which a session fails is one where somebody
  touched the settings or accounts it relies on, moved a balance between its two looks, or had
  left the vault less than the release takes. `SuccessMeansReleased`: a session that reports
  success has made its releases, but for a withdrawal of tokens where it did find the vault too
  poor (`foundEmpty`), and for the revert, whose failure it prints.
  `ProgramSeesTheInstruction`, `DecodedPayloadIsExact`: what one side writes the other reads.
  `ReportsTheCapacity`: the searches report the exact boundary.
- *Liveness.* `TokenScriptEnds`: `create-token-alt.ts`, whose attempts may all fail and be made
  again, comes to its end.

**Fairness.** Weak fairness of the steps of `create-token-alt.ts` once it runs, and nothing else:
it is a sequential program whose every awaited call returns or throws (web3.js confirms a
transaction only until its block height is exceeded), so its next step is always enabled until it
ends. No other script is given fairness: `tx.wait()` of the outbound client has no timeout. The
contracts and programs have none either: whether a transaction is ever sent is up to users,
relayers and the TSS, so liveness of a deposit or release could only be stated of assumptions
about these.

Every property has a mutant in `PROJECT.json`: a one-definition change (an operator
defined in the module next to the one it replaces, such as `DepositedToSelf` or
`FeeVaultPaysAll`) under which TLC finds the property violated.

## 4. Proofs

The proof modules prove for every value of the constants, under the named assumptions of
the modules only:

- `GatewayAssumption`, `OracleAssumption`, `VaultAssumption`, `SolanaAssumption`,
  `MessageAssumption`, `PushAssumption`, `TokenAssumption`, `TablesAssumption`,
  `SizingAssumption`: types of the constants, distinctness of contract addresses and accounts,
  nothing in the gateways and in the fee vault at the start, a smallest transaction that fits.
- `CustodyAssumption`: finitely many TSS and Vault addresses, none of which is a user or a CEA.
  `Vault.sol` has no call to a deposit of its own, and a TSS that deposited would be paid by
  itself: an event with nothing behind it that no contract refuses. The theorems on custody say
  nothing of such a TSS.
- `AccountsAssumption`: finitely many accounts on Push Chain, so that a supply is a sum.
- `CodecAssumption`: what the clients' types say of what is encoded. Keys have `KEY_BYTES` bytes,
  addresses 20; data and accounts are fewer than 2^32, a value fits a u64 and a deadline is an
  i64 that is not negative. Of `KEY_BYTES`, `U64_BYTES` and `SAFE` nothing is assumed but that
  they are natural numbers.
- `SessionAssumption`, `SubTxIdAssumption`: the keys of the script's machine are keys the model
  has, and the ids a session draws are ids.

Where a theorem needs more, it says so itself: `AmountsBelowWrap` and `ThresholdsFit` keep
`uint256` sums from wrapping. Amounts and thresholds in use are far
below 2^192; the code does not enforce it.

| Theorem | Says |
|---|---|
| `TypeCorrect`, `VaultTypeCorrect` | no balance or share of `msg.value` goes below zero, a stored usage fits `uint192`; nested calls included |
| `NothingKept`, `VaultNothingKept` | `GatewayPassesEverythingOn` |
| `RolesFollow`, `VaultRolesFollow` | `RolesFollowAddresses` |
| `CEAsNameTheirUEA`, `GasStaysWithinCaps` | the action properties of a single call |
| `CustodyBacksEvents`, `CustodyBalanced` | `EventsBacked`, `CustodyBalances`: custody against events and releases, for any rotations |
| `BlockBudget` | `BlockBudgetHolds` |
| `EpochQuota` | `EpochQuotaHolds`, under `AmountsBelowWrap` and `ThresholdsFit` |
| `RefundedOnce` | `RefundedAtMostOnce` |
| `OnlyServingVaultRefunds` | `RefundsByServingVault` |
| `SolanaTypeCorrect` | the types on Solana: no balance, quota or counter goes below zero |
| `ReleasedOnce` | `ReleasedAtMostOnce`, for any set of signed messages |
| `CEASpends` | `CEASpendsForItsOwner` |
| `VaultBacks`, `FeeVaultKeeps` | `VaultBacksEvents`, `FeeVaultKeepsRent` |
| `SolGasStaysWithinCaps`, `SlotBudget`, `SolEpochQuota` | the limits on Solana deposits |
| `SolanaImplementsPromise` | the Solana program implements `CustodyPromise`, for any messages, keys and settings |
| `PushTypesHold` | the types on Push Chain: no fee, swap or burn of an accepted call takes more than its payer has |
| `PushGatewayKeepsNothing` | `OutboundGatewayKeepsNothing` |
| `PushSubTxIdsUnique` | `SubTxIdsUnique`, for any number of requests |
| `PushFeesInVaultPC` | `FeesInVaultPC`, for withdrawals to anybody and any donations |
| `PushImplementsPromise` | the contracts of Push Chain implement `OutboundPromise` |
| `ClientApprovesEnough` | `ApprovalCoversQuote`, for any number of runs, killed anywhere |
| `ClientKeepsPushSound`, `ClientImplementsPromise` | what the contracts guarantee, they guarantee with the client |
| `TokenFilesSound`, `WhitelistSound` | `TokenFilesNameMintedTokens`, `WhitelistedIsDepositable` |
| `TokenTablesSound`, `UniversalTablesSound` | `TokenEntriesNameTheirTables`, `UniversalEntriesFilled` |
| `TokenRetriesSound` | `OneTablePerTokenAndRun` |
| `HelperResolves` | `TransactionsResolve`, for tables closed at any time |
| `SessionsReleaseWhatTheyReport` | `SuccessMeansReleased`, for any number of sessions among any steps of others |
| `SessionsReleaseOnce` | `ReleasedAtMostOnce` with the scripts' own messages among those of the TSS |
| `OperatorsRunTheProgram` | any operators' commands, and roles handed over, run the program as `SolSpec` says |
| `CapacityReported` | `ReportsTheCapacity`, for any overhead, limit and ranges |
| `InstructionsArrive` | `ProgramSeesTheInstruction`, for any number of accounts and bytes of data |
| `PayloadsAreReadExactly` | `DecodedPayloadIsExact`, for any payload |

The argument. Each caller's step is first reduced to its effect (`DepositEffect`, `AdminEffect`,
`ChainEffect`, `GatewayEffect`; on Solana `SolDeposits` and `Releases`; on Push Chain
`BurnPRC20Effect`, `FeeForwardedEffect`, `SwapAndBurnGasEffect`): lemmas such as
`RouteEffect`, `FinalizeBackToPushEffect` and `ReleaseEffect` go through the code paths once, and
every invariant is proved from the effects. Type correctness and `VaultBacksEvents` are
inductive. The others need more:

- Sums. `EventsBacked`, `CustodyBalances`, `FeesInVaultPC` and the supply of `OutboundPromise` are
  sums over sets of addresses (`MapThenSumSet`). `LedgerProofs` shows from the definition of the
  fold, by a least counterexample (`MinimalSubset`), that over a finite set such a sum has the
  value one expects, that it does not change with what is outside the set (`SumOfSame`) and
  changes by the difference at one member (`SumAfterChange`). A transfer then either moves
  nothing into or out of the set or exactly its amount (`TransferSum`), and a code path is the
  few transfers it makes (`CustodyMoves`).

- `BlockInv`: with the cap on, what was spent in the block is at most what the contract's
  counter says it consumed. The counter may say more (it survives switching the cap off and on),
  never less.
- `EpochInv`: what was deposited of a token in the present epoch is at most the usage the next
  deposit will count. It needs that a sum does not wrap: `AmountsBelowWrap` (an amount plus
  2^192 stays below 2^256) and `ThresholdsFit` (thresholds fit `uint192`). Without them the
  property is true only by the check that follows the wrapped sum; `gateway_limits` checks such
  an amount.
- `CountsMatch`: an id was refunded once if it is in the gateway's `isExecuted` and never
  otherwise; `CountsExecuted` is the same for the `executed_sub_tx` accounts.
- `FeeVaultInv`: as long as the fee vault does not exist no fee has been collected, so that its
  creation, which pays the rent, establishes the property.
- `SlotInv` and `QuotaInv`: the counters of the program are at least what the slot and the epoch
  have spent, as in `BlockInv` and `EpochInv`. Rust's checked arithmetic makes the assumptions
  on overflow unnecessary: a sum that overflows fails the instruction.
- `PushInv`: the ids of past events hold a nonce below the present one (`IdsBelowNonce`), so the
  next is none of them. That the gateway holds nothing before a call is what makes the amounts
  of the call the only ones it can pass on.
- The refinement: `OutboundPromise` is mapped to sums and event sets of the state
  (`PromiseOfState`). `PCStep` shows that each call, by any caller at any price, is a step of the
  promise or leaves its variables alone (`PromiseStep`): an outbound request lowers the supply of
  the token by the amount of the one event it adds and the gas token's by the fee it records, both
  at once where they are the same token. That the event is new rests on `IdsBelowNonce`.
- The refinement of `CustodyPromise` needs no invariant but the types: its steps are those effects
  seen from the vault (`CustodyStep`). A deposit is a `TakeIn`; a message of any kind is the
  `CarryOut` of its order, with the gas fee where a finalization pays one out of the vault and
  none where the fee vault does (`OrderOf`); administration and a passing slot are `Govern`.
- `ClientInv`: while the client approves, what its allowances have by now and what is left to
  approve cover the request between them (`ApprovalsUnderWay`), whichever of the two approvals
  has been made and whether or not the gas token is the token sent.
- `ToolInv`: a command's program counter says which of its transactions have landed
  (`CommandUnderWay`): tokens exist before the file is written, the threshold before the vault's
  account.
- `TablesInv`: an address, once it was a table's, is no other table's, and its table only gains
  accounts (`TablesGrow`), deactivated or closed as it may be, so that what one script saw of the
  accounts stays true through the steps of the others. With it, `TokenRunSound`: in
  the retry loop no table has been made yet, and the table that is polled for is the one of the
  attempt that went through; `HelperSound`: what is cached of a
  table are accounts it has for good, which is what a transaction resolves to.
- `SessionInv`, under `SessionSpec`, where the others take any step of the model: the steps of a
  script before the present one are `Through`, and so is the present one once its transaction
  was taken for done. It rests on two facts. No step of either script shrugs off the failure of a
  release other than the revert (`ScriptsInsist`), and a step is passed by only with `foundEmpty`
  set; and an `executed_sub_tx` account is never
  closed, and exists exactly for the ids that were used, once (`Accounted`). What the proof
  assumes of the constants is that a session's ids are ids (`SubTxIdAssumption`).
  `Accounted` alone gives `SessionsReleaseOnce`: that a script never draws an id the TSS has used
  is not assumed.
- `OperatorsRunTheProgram` needs no invariant: each command is one step of the program's
  administration, or hands over a role and leaves the program's state alone
  (`CommandRunsTheProgram`). With it the theorems about `SolSpec`, which let anybody administer at
  any time, hold under `OperatedSpec`, where only the holders of the roles do and the command
  line is what they use. They are not claimed under `SessionSpec`, but for `ReleasedAtMostOnce`:
  the scripts sign messages that are not in `Messages` and fund a CEA directly.
- `SizingInv`: what was found is the largest below `left`, everything above `right` is too large
  (`InAccounts`, `InData`), and the first result survives into the second search
  (`AccountsKnown`). It rests on `TxSizeGrows`: the size does not shrink with more accounts or data.
- `CodecInv`: a parcel holds what its sender wrote, then what the reader makes of it, then the
  flags. Both formats are six parts of which the reader finds each at the offset it computes from
  the ones before (`SixParts`); the accounts are blocks of one length (`FlattenedSequences`). A
  number that fits its bytes is read as it was written (`BigEndianReadsBack`): the sum of its
  digits up to any place is what is left of it below that place (`NextDigit`), by induction over
  the places. A byte of flags is the sum of its accounts' powers of two, taken up bit by bit, so
  that the bit the program looks at is its account's (`FlagOfAccount`). TLA+ does not say
  that a recursive function exists: `RecursionExists` shows it, by the induction `EveryNat` over
  sets of naturals, as the library's own theorems take operators the provers cannot instantiate.

Only model-checked:

- `QuietSessionPasses`: it is about which transactions of a session are ENABLED, of which the
  prover knows nothing. (`SuccessMeansReleased` is proved of either outcome of that choice.)
- The liveness property `TokenScriptEnds`, for the same reason: fairness is about ENABLED.
- The refinement and the sums with `UINT256` sums that do wrap: the runs have such amounts.

## 5. Findings

| Run | The code | What is said of it |
|---|---|---|
| `finding_min_value` | `getMinMaxValueForNative` rounds `minValue` down; a deposit of exactly it is rejected by `_checkUSDCaps` | `IUniversalGateway.sol:211`: the minimum native amount allowed |
| `finding_evm_epoch` | `_consumeRateLimit` compares indices of epochs without knowing their schedule; after `updateEpochDuration` an epoch can have the index of an earlier one and begins with its usage | `UniversalGateway.sol:784`: reset to 0 when a new epoch starts; `:240`: hard reset of the schedule |
| `finding_solana_epoch` | `consume_rate_limit` resets only when the epoch index is greater than the stored one; after `update_epoch_duration` has lengthened the epochs it is smaller, and usage is carried on | `rate_limit.rs:48`, `1-DEPOSIT.md:52`: resets per epoch |
| `finding_outbound_client` | `push-chain-outbound.ts` sends its request without value, which the gateway's swap refuses | `push-chain-outbound.ts:20`: the gateway burns, charges and emits |
| `finding_extend_alt` | `extend-alt.ts` takes every table whose `deactivationSlot` is not undefined for deactivated, and so every active one; `deactivate-alt.ts:72` does the same, so that only Solana's own tools deactivate a table | `extend-alt.ts:11`: extends an existing table |

Met on the way, and not run:

- EVM: a deposit is refunded although its token has been delisted since: neither refund function
  asks (`Revert_Handling.md:156` and `THREAT_MODELLING_DOC.md:145` say they do). `setVault` has no
  `whenPaused` (`THREAT_MODELLING_DOC.md:102` says it has); `msg.value` of a token-gas call stays
  in the gateway (`strandedValue`); a redeployed gateway starts with an empty `isExecuted`, so the
  once-only guarantee is per gateway.
- Solana: the gas fee of a finalization is paid out of the vault and that of a refund out of the
  fee vault (`VaultBacksEvents` accounts for both).
- `config-cli.ts`: `caps:set` refuses a minimum equal to the maximum, the program accepts it;
  `authority:set` hands the admin role over in one step.
- `token-cli.ts`: `mint` by symbol signs with the key of the mint account and not the mint
  authority's, so it fails; a 43-character mint address is taken for a symbol.
- `decode-tx.js`: a u64 of 2^53 or more is not printed exactly.
- `gateway-test.ts` never calls `set_protocol_fee`, without which there is no fee vault and no
  deposit succeeds: a fresh deployment needs `config-cli.ts fee:init` first.
  `simple-spl-test.ts` never creates the rate-limit config. The check
  "Vault should receive exact gas amount" (686) holds with a protocol fee of zero only. With that
  fee the revert step's gas fee cannot be paid and the step fails, which is printed and
  forgotten. The SPL withdrawal signs with the chain id read for the step before.
- `gateway-test.ts` initializes the TSS with an address it has hard-coded (1653-1666) and signs with
  the key of `.env` (2041): where the two differ, its first release is refused.
- A session killed between pause and unpause leaves the gateway paused, and every later session
  fails at `setCapsUsd`; a session's unpause also ends a pause an operator ordered meanwhile, and
  a session overwrites the caps.

## 6. Not modelled

- `UniversalGatewayV0` and its interfaces: the testnet predecessor, not part of the system the
  other components talk to. It shares the routing of `UniversalGateway`, whose module would have
  to be repeated for it.
- `alt-integration-test.ts`: builds transactions with and without tables and prints their sizes;
  it changes no state, and the helper it exercises is in `LookupTables`.
- `gateway-test.ts` 1389-1560: deposits with somebody else's token account. The program's module
  has no account parameters; that the account must be the depositor's is an account constraint.
- `estimateSavings` and `printSummary` of `alt-helper.ts`, `config:show`, `list`, and everything
  else that only prints; the choice of devnet or mainnet.
- Deployment and upgrade scripts, the `test-counter` program, Foundry and Anchor tests.
- Roles other than TSS and VAULT on EVM: an administrative step is one by whoever may make it.
- Deduplication of finalizations on EVM and of rescue requests on Push Chain: no contract keeps
  state a property could relate; the code leaves it to the validators. Both are listed as hazards
  with that note.

Still worth doing: a composition of Push Chain and one external chain through events in flight,
for which the validators would have to be specified first. With it `CustodyPromise` and
`OutboundPromise` would meet: the orders of the one are the requests of the other.
