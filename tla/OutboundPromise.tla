---------------------------- MODULE OutboundPromise ----------------------------
(***************************************************************************)
(* What Push Chain promises the external chains, and its users: an asset   *)
(* leaves circulation together with the one request that has it released   *)
(* outside, by the amount that request names, and otherwise only as gas    *)
(* that is accounted for.                                                  *)
(***************************************************************************)
EXTENDS Naturals

CONSTANTS
    Assets, GasAssetOf      \* asset -> what the gas of its chain is paid in

VARIABLES
    supply,                 \* asset -> amount in circulation
    requested,              \* requests for a release: [id, asset, amount]
    gasPaid                 \* asset -> amount that left as gas

promiseVars == <<supply, requested, gasPaid>>

PromiseInit ==
    /\ supply \in [Assets -> Nat]
    /\ requested = {}
    /\ gasPaid = [a \in Assets |-> 0]

\* An asset leaves as gas, and another or the same by an amount.
Retire(asset, amount, gasAsset, gas) ==
    /\ supply' = [a \in Assets |->
           supply[a] - (IF a = asset THEN amount ELSE 0) - (IF a = gasAsset THEN gas ELSE 0)]
    /\ gasPaid' = [gasPaid EXCEPT ![gasAsset] = @ + gas]

\* A request for a release, unlike any before, and its gas.
Request(r, gas) ==
    /\ \A earlier \in requested : earlier.id # r.id
    /\ requested' = requested \cup {r}
    /\ Retire(r.asset, r.amount, GasAssetOf[r.asset], gas)

\* Gas alone.
PayGas(gasAsset, gas) ==
    /\ UNCHANGED requested
    /\ Retire(gasAsset, 0, gasAsset, gas)

PromiseNext ==
    \/ \E r \in requested' \ requested :
           /\ r.asset \in Assets /\ GasAssetOf[r.asset] \in Assets
           /\ \E gas \in 0 .. supply[GasAssetOf[r.asset]] : Request(r, gas)
    \/ \E gasAsset \in Assets : \E gas \in 0 .. supply[gasAsset] : PayGas(gasAsset, gas)

PromiseSpec == PromiseInit /\ [][PromiseNext]_promiseVars

================================================================================
