------------------------------ MODULE PayloadCodecs ------------------------------
(***************************************************************************)
(* The two byte formats of the Solana clients. An instruction for a target *)
(* program travels through Push Chain as an execute payload                *)
(* (app/execute-payload.ts), is decoded there, submitted with its accounts *)
(* and one writable bit for each, and read by the gateway program. A       *)
(* UniversalPayload goes the other way: gateway-test.ts serializes it for  *)
(* a deposit, app/decode-tx.js reads it from the event.                    *)
(***************************************************************************)
EXTENDS Naturals, Sequences, SequencesExt, FiniteSetsExt

CONSTANTS
    KEY_BYTES,          \* length of a public key, 32
    U64_BYTES,          \* length of a u64, 8
    SAFE,               \* 2^53, from which a JavaScript number skips odd integers
    Instructions,       \* [target, accounts : Seq([pubkey, isWritable]), ixData]
    UserPayloads        \* [to, value, data, deadline, vType]

Byte == 0..255
AccountMeta == [pubkey : Seq(Byte), isWritable : BOOLEAN]

\* 256^n
PlaceValue[n \in Nat] == IF n = 0 THEN 1 ELSE 256 * PlaceValue[n - 1]

\* Lengths are below 2^32. A u64 is what U64_BYTES bytes hold, an i64 that is not negative half
\* of that.
IsU32(n) == n \div PlaceValue[3] < 256
IsU64(n) == n < PlaceValue[U64_BYTES]
IsI64(n) == 2 * n < PlaceValue[U64_BYTES]

ASSUME CodecAssumption ==
    /\ KEY_BYTES \in Nat /\ U64_BYTES \in Nat /\ SAFE \in Nat
    /\ Instructions \subseteq
           [target : Seq(Byte), accounts : Seq(AccountMeta), ixData : Seq(Byte)]
    /\ \A ix \in Instructions :
           /\ Len(ix.target) = KEY_BYTES
           /\ \A i \in DOMAIN ix.accounts : Len(ix.accounts[i].pubkey) = KEY_BYTES
           /\ IsU32(Len(ix.accounts)) /\ IsU32(Len(ix.ixData))
    /\ UserPayloads \subseteq
           [to : Seq(Byte), value : Nat, data : Seq(Byte), deadline : Nat,
            vType : {"SignedVerification", "UniversalTxVerification"}]
    /\ \A p \in UserPayloads :
           Len(p.to) = 20 /\ IsU64(p.value) /\ IsU32(Len(p.data)) /\ IsI64(p.deadline)

VARIABLES parcel        \* [at, sent, bytes, decoded, flags]

Bytes(buf, offset, n) == SubSeq(buf, offset + 1, offset + n)

\* writeUInt32BE, readUInt32BE and their little-endian counterparts.
BigEndian(n, width) == [i \in 1..width |-> (n \div PlaceValue[width - i]) % 256]
LittleEndian(n, width) == Reverse(BigEndian(n, width))
ReadBigEndian(bytes) ==
    SumFunction([i \in DOMAIN bytes |-> bytes[i] * PlaceValue[Len(bytes) - i]])
ReadLittleEndian(bytes) == ReadBigEndian(Reverse(bytes))

--------------------------------------------------------------------------------
(* The execute payload. *)

\* instructionToPayloadFields: which accounts sign is dropped.
InstructionToPayloadFields(ix) ==
    [targetProgram |-> ix.target, accounts |-> ix.accounts, ixData |-> ix.ixData,
     instructionId |-> 2]

EncodedAccount(account) == Append(account.pubkey, IF account.isWritable THEN 1 ELSE 0)
EncodeExecutePayload(p) ==
    BigEndian(Len(p.accounts), 4)
    \o FlattenSeq([i \in DOMAIN p.accounts |-> EncodedAccount(p.accounts[i])])
    \o BigEndian(Len(p.ixData), 4) \o p.ixData
    \o <<p.instructionId>> \o p.targetProgram

\* Throws, here "error", unless the target program is exactly what is left.
DecodeExecutePayload(buf) ==
    LET count    == ReadBigEndian(Bytes(buf, 0, 4))
        account(i) == Bytes(buf, 4 + (i - 1) * (KEY_BYTES + 1), KEY_BYTES + 1)
        dataAt   == 4 + count * (KEY_BYTES + 1)
        dataLen  == ReadBigEndian(Bytes(buf, dataAt, 4))
        idAt     == dataAt + 4 + dataLen
    IN  IF Len(buf) - (idAt + 1) # KEY_BYTES THEN [error |-> TRUE]
        ELSE [targetProgram |-> Bytes(buf, idAt + 1, KEY_BYTES),
              accounts      |-> [i \in 1..count |->
                                    [pubkey     |-> Bytes(account(i), 0, KEY_BYTES),
                                     isWritable |-> account(i)[KEY_BYTES + 1] = 1]],
              ixData        |-> Bytes(buf, dataAt + 4, dataLen),
              instructionId |-> buf[idAt + 1]]

\* accountsToWritableFlags: a bit for each account, the most significant first.
LeastFirst(i) == i % 8
BitOf(i) == 7 - (i % 8)
FlagsLen(count) == (count + 7) \div 8
AccountsToWritableFlags(accounts) ==
    [b \in 1..FlagsLen(Len(accounts)) |->
        SumFunctionOnSet([i \in DOMAIN accounts |-> 2 ^ BitOf(i - 1)],
                         {i \in DOMAIN accounts : /\ accounts[i].isWritable
                                                  /\ (i - 1) \div 8 = b - 1})]

\* reconstruct_accounts_from_flags of the program, on the accounts in the order submitted.
ReconstructAccounts(keys, flags) ==
    [i \in DOMAIN keys |->
        [pubkey     |-> keys[i],
         isWritable |-> (flags[(i - 1) \div 8 + 1] \div 2 ^ (7 - ((i - 1) % 8))) % 2 = 1]]

--------------------------------------------------------------------------------
(* The universal payload; its four other u64 fields are like value. A deadline is an i64; the  *)
(* scripts' are times, and the bytes of one that is not negative are those of a u64.           *)

SerializePayload(p) ==
    p.to \o LittleEndian(p.value, U64_BYTES)
    \o LittleEndian(Len(p.data), 4) \o p.data
    \o LittleEndian(p.deadline, U64_BYTES)
    \o <<IF p.vType = "SignedVerification" THEN 0 ELSE 1>>

\* readU64LE: Number() of a BigInt, the nearest number JavaScript has, the even one of two.
Spacing(n) == Min({s \in {2 ^ k : k \in 0 .. 8 * U64_BYTES} : n < s * SAFE})
JsNumber(n) ==
    LET s == Spacing(n)
        below == n - (n % s)
        up == 2 * (n % s) > s \/ (2 * (n % s) = s /\ (n \div s) % 2 = 1)
    IN  IF n < SAFE THEN n ELSE IF up THEN below + s ELSE below
SkipsLength(offset, len) == offset + len
AfterVec(offset, len) == offset + 4 + len
VerificationType(byte) ==
    CASE byte = 0 -> "SignedVerification"
      [] byte = 1 -> "UniversalTxVerification"
      [] OTHER    -> "Unknown"

\* decodeUniversalPayload, which throws beyond the end of the buffer.
DecodeUniversalPayload(buf) ==
    LET vecAt  == 20 + U64_BYTES
        len    == ReadLittleEndian(Bytes(buf, vecAt, 4))
        timeAt == AfterVec(vecAt, len)
    IN  IF timeAt + U64_BYTES + 1 > Len(buf) THEN [error |-> TRUE]
        ELSE [to       |-> Bytes(buf, 0, 20),
              value    |-> JsNumber(ReadLittleEndian(Bytes(buf, 20, U64_BYTES))),
              data     |-> Bytes(buf, vecAt + 4, len),
              deadline |-> JsNumber(ReadLittleEndian(Bytes(buf, timeAt, U64_BYTES))),
              vType    |-> VerificationType(buf[timeAt + U64_BYTES + 1])]

--------------------------------------------------------------------------------
CodecInit ==
    \E sent \in Instructions \cup UserPayloads :
        parcel = [at |-> "new", sent |-> sent, bytes |-> <<>>, decoded |-> sent, flags |-> <<>>]

Encode ==
    /\ parcel.at = "new"
    /\ parcel' = [parcel EXCEPT
           !.at = "encoded",
           !.bytes = IF parcel.sent \in Instructions
                     THEN EncodeExecutePayload(InstructionToPayloadFields(parcel.sent))
                     ELSE SerializePayload(parcel.sent)]

Decode ==
    /\ parcel.at = "encoded"
    /\ parcel' = [parcel EXCEPT
           !.at = "decoded",
           !.decoded = IF parcel.sent \in Instructions THEN DecodeExecutePayload(parcel.bytes)
                       ELSE DecodeUniversalPayload(parcel.bytes)]

Submit ==
    /\ parcel.at = "decoded" /\ parcel.sent \in Instructions
    /\ parcel' = [parcel EXCEPT !.at = "submitted",
                                !.flags = AccountsToWritableFlags(parcel.decoded.accounts)]

CodecNext == Encode \/ Decode \/ Submit

CodecSpec == CodecInit /\ [][CodecNext]_parcel

--------------------------------------------------------------------------------
(* Properties. *)

\* The gateway program calls the target with the accounts, writable or not, and the data of the
\* instruction that was encoded on the other chain, and finds as many flag bytes as it expects.
ProgramSeesTheInstruction ==
    parcel.at = "submitted" =>
        LET accounts == parcel.decoded.accounts
        IN  /\ Len(parcel.flags) = FlagsLen(Len(accounts))
            /\ ReconstructAccounts([i \in DOMAIN accounts |-> accounts[i].pubkey], parcel.flags)
                   = parcel.sent.accounts
            /\ parcel.decoded.ixData = parcel.sent.ixData
            /\ parcel.decoded.targetProgram = parcel.sent.target

\* What decode-tx.js prints of a payload is what was serialized into the deposit, as long as
\* its numbers are ones JavaScript can hold.
DecodedPayloadIsExact ==
    parcel.at = "decoded" /\ parcel.sent \in UserPayloads =>
        \/ parcel.sent.value >= SAFE \/ parcel.sent.deadline >= SAFE
        \/ parcel.decoded = parcel.sent

================================================================================
