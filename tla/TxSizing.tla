-------------------------------- MODULE TxSizing --------------------------------
(***************************************************************************)
(* The capacity search of app/gateway-test.ts: how many accounts, and then *)
(* how much instruction data, an execution on Solana can have, by binary   *)
(* search with the serialized transaction as the oracle.                   *)
(***************************************************************************)
EXTENDS Integers

CONSTANTS
    Overheads,          \* bytes of a transaction without target accounts and data: SOL, SPL
    LIMIT,              \* 1232
    MinAccounts, MaxAccounts,   \* 3 and 40
    MaxData,            \* 600
    UsualData           \* 70

\* The transaction with the fewest accounts fits.
ASSUME SizingAssumption ==
    /\ Overheads \subseteq Nat /\ LIMIT \in Nat
    /\ MinAccounts \in Nat /\ 2 <= MinAccounts /\ MaxAccounts \in Nat
    /\ MinAccounts <= MaxAccounts
    /\ UsualData \in Nat /\ 20 <= UsualData /\ MaxData \in Nat /\ UsualData <= MaxData
    /\ \A o \in Overheads : o + 34 * MinAccounts + UsualData <= LIMIT

VARIABLES
    phase,              \* "idle", "accounts", "data", "done"
    overhead,
    left, right,
    best,               \* maxValid
    byAccounts          \* the outcome of the first search

sizingVars == <<phase, overhead, left, right, best, byAccounts>>

Bigger(a, b) == IF a >= b THEN a ELSE b

\* What is built for a number of accounts and a size of data: the instruction has two accounts
\* and 20 bytes of its own. Every account is a key, an index, and a bit of the flags.
TxSize(o, accounts, data) == o + 33 * accounts + ((accounts + 7) \div 8) + data
BuildAndMeasureTxSize(accounts, data) ==
    LET actual == 2 + Bigger(accounts - 2, 0)
        full   == 20 + Bigger(data - 20, 0)
    IN  [accounts |-> actual, data |-> full, size |-> TxSize(overhead, actual, full)]

FitsBelow(size) == size < LIMIT
Fits(size) == size <= LIMIT

NothingFound == [accounts |-> 0, data |-> 0, size |-> 0]

SizingInit ==
    /\ phase = "idle" /\ overhead \in Overheads
    /\ left = MinAccounts /\ right = MaxAccounts
    /\ best = NothingFound /\ byAccounts = NothingFound

StartSearch ==
    /\ phase = "idle"
    /\ phase' = "accounts"
    /\ UNCHANGED <<overhead, left, right, best, byAccounts>>

\* A round of either search; each asks the chain for the fees and the TSS account.
Middle == (left + right) \div 2
Probe(measured) ==
    /\ left <= right
    /\ IF Fits(measured.size)
       THEN best' = measured /\ left' = Middle + 1 /\ UNCHANGED right
       ELSE right' = Middle - 1 /\ UNCHANGED <<left, best>>
    /\ UNCHANGED <<phase, overhead, byAccounts>>

\* findMaxTargetAccounts
FindMaxTargetAccounts ==
    phase = "accounts" /\ Probe(BuildAndMeasureTxSize(Middle, UsualData))

\* findMaxIxDataSize
FindMaxIxDataSize ==
    phase = "data" /\ Probe(BuildAndMeasureTxSize(byAccounts.accounts, Middle))

\* The second search starts from what the first has found.
ThenData ==
    /\ phase = "accounts" /\ left > right
    /\ phase' = "data" /\ byAccounts' = best
    /\ left' = 0 /\ right' = MaxData /\ best' = NothingFound
    /\ UNCHANGED overhead

\* The result: of the second search, of the first if that did not fit.
Finish ==
    /\ phase = "data" /\ left > right
    /\ phase' = "done"
    /\ best' = IF Fits(best.size) THEN best ELSE byAccounts
    /\ UNCHANGED <<overhead, left, right, byAccounts>>

SearchStep == FindMaxTargetAccounts \/ FindMaxIxDataSize \/ ThenData \/ Finish

SizingNext == StartSearch \/ SearchStep

SizingSpec == SizingInit /\ [][SizingNext]_sizingVars

--------------------------------------------------------------------------------
(* Properties. *)

\* The search reports a transaction that fits, and none larger would: not one more account with
\* the usual data, nor one more byte of data with these accounts, within the bounds searched.
ReportsTheCapacity ==
    phase = "done" =>
        /\ TxSize(overhead, best.accounts, best.data) <= LIMIT
        /\ \A n \in MinAccounts..MaxAccounts :
               n > best.accounts => TxSize(overhead, n, UsualData) > LIMIT
        /\ \A d \in 20..MaxData :
               d > best.data => TxSize(overhead, best.accounts, d) > LIMIT

================================================================================
