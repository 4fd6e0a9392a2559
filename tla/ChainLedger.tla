------------------------------ MODULE ChainLedger ------------------------------
(***************************************************************************)
(* The balances of one EVM chain, as the contracts see them: a ledger maps *)
(* a token to a map from accounts to balances. The native coin is the      *)
(* token NATIVE, which the contracts write address(0). Transfers are the   *)
(* external effects the contracts rely on (msg.value, call{value: x},      *)
(* SafeERC20), for tokens that move exactly the amount asked for.          *)
(***************************************************************************)
EXTENDS Integers

\* The payer holds enough: otherwise the call reverts with the whole transaction.
CanPay(b, token, from, amount) == b[token][from] >= amount

\* The ledger after a transfer.
Transfer(b, token, from, to, amount) ==
    [[b EXCEPT ![token][from] = @ - amount] EXCEPT ![token][to] = @ + amount]

Ledgers(tokens, accounts) == [tokens -> [accounts -> Nat]]

================================================================================
