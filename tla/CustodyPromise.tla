----------------------------- MODULE CustodyPromise -----------------------------
(***************************************************************************)
(* What the custodian of bridged assets promises: what it took in, it      *)
(* announced, amount for amount; it gives up no more than signed orders    *)
(* name and their fees, each order's id once, for the key in force; and    *)
(* nothing moves while it is closed.                                       *)
(***************************************************************************)
EXTENDS Naturals

CONSTANTS
    Assets, NativeAsset,    \* the native asset pays the fees
    Orders                  \* the orders ever signed: [id, key, asset, amount, fee]

VARIABLES
    held,                   \* asset -> amount in custody
    announced,              \* asset -> amount taken in and announced
    carriedOut,             \* ids of orders
    key,                    \* whose orders count
    open

custodyVars == <<held, announced, carriedOut, key, open>>

CustodyInit ==
    /\ held \in [Assets -> Nat]
    /\ announced = [a \in Assets |-> 0]
    /\ carriedOut = {}

\* Announcements only grow.
Announces ==
    /\ held' \in [Assets -> Nat] /\ announced' \in [Assets -> Nat]
    /\ \A a \in Assets : announced'[a] >= announced[a]

\* Assets come in, and all of them are announced.
TakeIn ==
    /\ open
    /\ UNCHANGED <<carriedOut, key, open>>
    /\ Announces
    /\ \A a \in Assets : held'[a] + announced[a] = held[a] + announced'[a]

Cost(o, a) == (IF a = o.asset THEN o.amount ELSE 0) + (IF a = NativeAsset THEN o.fee ELSE 0)

\* An order costs no more than it names. It may bring assets in, which are announced, or name
\* the custodian itself, which then keeps them.
CarryOut(o) ==
    /\ open
    /\ o.key = key
    /\ o.id \notin carriedOut
    /\ carriedOut' = carriedOut \cup {o.id}
    /\ UNCHANGED <<key, open>>
    /\ Announces
    /\ \A a \in Assets : held'[a] + announced[a] + Cost(o, a) >= held[a] + announced'[a]

\* Opening, closing and a new key move nothing.
Govern == UNCHANGED <<held, announced, carriedOut>>

CustodyNext ==
    \/ Govern
    \/ TakeIn
    \/ \E o \in Orders : CarryOut(o)

CustodySpec == CustodyInit /\ [][CustodyNext]_custodyVars

================================================================================
