-------------------------------- MODULE MCClients --------------------------------
(***************************************************************************)
(* Small instances of three clients of the Solana gateway, which have      *)
(* nothing to do with each other: a behaviour is about one of them.        *)
(***************************************************************************)
EXTENDS GatewaySession, PayloadCodecs, TxSizing

CONSTANTS
    admin, ops, user, relayer, receiver, stranger, otherRelayer, cea, otherCea, usdt,
    MaxOthers,      \* bound: steps of others
    MaxOthersAgain  \* bound: steps of others before a script is started again

VARIABLES
    question,       \* what the behaviour is about
    others          \* steps of others so far

mcVars == <<allSolVars, authority, sessionVars, parcel, sizingVars, question, others>>

--------------------------------------------------------------------------------
(* Payloads. A key has two bytes, and so has what is a u64. *)

Keys == <<<<1, 2>>, <<3, 255>>>>
Metas(flags) == [i \in DOMAIN flags |-> [pubkey |-> Keys[1 + (i % 2)], isWritable |-> flags[i]]]

\* Every pattern of writable accounts around the boundary of a byte of flags.
SomeInstructions ==
    {[target |-> <<9, 0>>, accounts |-> Metas(flags), ixData |-> data] :
        flags \in UNION {[1..n -> BOOLEAN] : n \in {0, 1, 7, 8, 9}}, data \in {<<>>, <<7, 0, 200>>}}

\* Values around the boundary of a byte and of what a JavaScript number holds.
SomeUserPayloads ==
    {[to |-> [i \in 1..20 |-> i], value |-> value, data |-> data,
      deadline |-> 1 + (value % 1027), vType |-> type] :
        value \in {0, 1, 255, 256, 300, 1023, 1024, 1025, 1027},
        data \in {<<>>, <<1>>, <<0, 255>>},
        type \in {"SignedVerification", "UniversalTxVerification"}}

\* Every size from which the search ends at few accounts to those where all fit.
AllOverheads == 560..1060

--------------------------------------------------------------------------------
(* The session and the others. *)

TssKeys == {<<"session", "devnet">>, <<"session", "mainnet">>, <<"other", "devnet">>}
OurTss == <<"session", "devnet">>
OurKeyElsewhere == <<"session", "mainnet">>
SomeEnvKeys == {"session", "other"}
SubTxIds == {<<n, i>> : n \in 1..MaxSessions, i \in 1..Len(GatewayTest)} \cup {<<"s1">>, <<"s2">>, <<"s3">>}

\* The vault has as many tokens as a script has deposited at most: a release of others leaves it
\* too few for a script's own, or none.
OthersMessage(id, token, amount) ==
    [kind |-> "withdraw", subTxId |-> id, tss |-> OurTss, pushAccount |-> otherCea,
     token |-> token, amount |-> amount, gasFee |-> 0, target |-> stranger, moved |-> 0]
OthersMessages == {OthersMessage(<<"s1">>, SOL, 1), OthersMessage(<<"s2">>, usdt, 2),
                   OthersMessage(<<"s3">>, usdt, 3)}
OthersDeposits == {[token |-> t, amount |-> 1, payload |-> FALSE, revertRecipient |-> stranger] :
                       t \in {SOL, usdt}}

Funds == [t \in SolTokens |-> [a \in SolAccounts |->
             CASE a \in SolUsers              -> 20
               [] a = VAULT_PDA /\ t = SOL    -> 3
               [] OTHER                       -> 0]]
Prices == {<<1, 0>>, <<20, 0>>}
FirstCaps == <<1, 10>>
SomeCaps == {<<3, 3>>, <<2, 3>>}

\* The first step is the operator's: no deposit is possible before the fee vault exists.
SomethingElse ==
    IF others = 0 THEN \E fee \in ProtocolFees : FeeInit(admin, fee)
    ELSE
    \/ \E key \in AdminKeys : Command(key)
    \/ \E req \in OthersDeposits :
           /\ SendSolUniversalTx(stranger, req, IF req.token = SOL THEN 1 ELSE 0)
           /\ UNCHANGED programVars
    \/ \E m \in Messages : Withdraw(m, otherRelayer) /\ UNCHANGED authority
    \/ SolChainStep /\ UNCHANGED programVars

SessionNext ==
    \/ SessionStep /\ UNCHANGED others
    \/ /\ \E script \in Scripts : StartSession(script)
       /\ session.number > 0 => others <= MaxOthersAgain
       /\ UNCHANGED others
    \/ SessionDies /\ UNCHANGED others
    \/ /\ others < MaxOthers
       /\ session.number > 1 => others < MaxOthersAgain
       /\ SomebodyElse(SomethingElse)
       /\ others' = others + 1

Init ==
    /\ question \in {"payloads", "sizing", "session"}
    /\ AuthorityInit /\ authority.admin = admin /\ SessionInit /\ others = 0
    /\ tss \in IF question = "session" THEN {OurTss, OurKeyElsewhere} ELSE {OurTss}
    /\ question = "session" \/ \A feed \in PriceFeeds : pyth[feed].price = 1
    /\ IF question = "payloads" THEN CodecInit
       ELSE parcel = [at |-> "none", sent |-> <<>>]
    /\ SizingInit /\ (question = "sizing" \/ overhead = 560)

Next ==
    /\ \/ question = "payloads" /\ CodecNext
          /\ UNCHANGED <<allSolVars, authority, sessionVars, others, sizingVars>>
       \/ question = "sizing" /\ SizingNext
          /\ UNCHANGED <<allSolVars, authority, sessionVars, others, parcel>>
       \/ question = "session" /\ SessionNext
          /\ UNCHANGED <<parcel, sizingVars>>
    /\ UNCHANGED question

MCSpec == Init /\ [][Next]_mcVars

================================================================================
