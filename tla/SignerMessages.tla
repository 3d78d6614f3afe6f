---------------------------- MODULE SignerMessages ----------------------------
(***************************************************************************)
(* Decoding the slots of a StackerDB chunk: parseStackerDbChunk and the    *)
(* formats of msg-parsing.ts over the readers of buffer-cursor.ts, and the *)
(* header bytes that getNakamotoBlockHash writes with buffer-writer.ts.    *)
(*                                                                         *)
(* A format is the sequence of reads its parse function makes; `todo` is   *)
(* what the parser of the current slot has still to read. A fixed-width    *)
(* read throws when the buffer is too short; readBytes does not, it takes  *)
(* what is left: `missing` records by how much a field was cut short,      *)
(* which the code does not notice.                                         *)
(***************************************************************************)
EXTENDS Integers, Sequences, FiniteSets

CONSTANTS
  Chunks,   \* the modified_slots of the messages the node may publish
  Encoded   \* what well-formed slots carry: see EncodedAssumption

Byte == 0..255

\* A slot: the hex data as bytes, and whether a key can be recovered from `sig`.
Slot == [data : Seq(Byte), signed : BOOLEAN]

ASSUME ChunksAssumption == Chunks \subseteq Seq(Slot)

VARIABLES
  slots,    \* chunk.modified_slots
  parsed,   \* the messages of the first slots, each the sequence of its fields
  buffer,   \* cursor.buffer
  todo,     \* reads of the current message still to be made, in order
  fields,   \* fields of the current message read so far
  status    \* "slot" between two messages, "reading", "parsed" or "threw"

vars == <<slots, parsed, buffer, todo, fields, status>>
------------------------------------------------------------------------------
(* Reads. `n` is the width a read requires, or the items left of an array. *)

Read(op, field, n) == [op |-> op, field |-> field, n |-> n, item |-> <<>>]

Enum(field)         == Read("enum", field, 1)
U8(field)           == Read("number", field, 1)
U32(field)          == Read("number", field, 4)
U64(field)          == Read("number", field, 8)
Bytes(field, n)     == Read("bytes", field, n)
BitVec(field)       == Read("bitVec", field, 6)
VecString(field)    == Read("vecString", field, 4)
U8String(field)     == Read("u8String", field, 1)
Metadata            == Read("metadata", "server_version", 0)
StacksTransaction   == Read("tx", "transaction", 1)
ArrayOf(field, item) == [op |-> "array", field |-> field, n |-> 4, item |-> item]
Items(array, n)     == [array EXCEPT !.op = "items", !.n = n]

NakamotoBlockHeader ==
  <<U8("version"), U64("chainLength"), U64("burnSpent"), Bytes("consensusHash", 20),
    Bytes("parentBlockId", 32), Bytes("txMerkleRoot", 32), Bytes("stateIndexRoot", 32),
    U64("timestamp"), Bytes("minerSignature", 65),
    ArrayOf("signerSignature", <<Bytes("signerSignature", 65)>>), BitVec("poxTreatment")>>

NakamotoBlock == NakamotoBlockHeader \o <<ArrayOf("tx", <<StacksTransaction>>)>>

BlockProposal == NakamotoBlock \o <<U64("burnHeight"), U64("rewardCycle")>>

BlockPushed == NakamotoBlock

AcceptedResponse ==
  <<Bytes("signerSignatureHash", 32), Bytes("signature", 65), Metadata>>

RejectedResponse ==
  <<VecString("reason"), Enum("rejectCode"), Bytes("signerSignatureHash", 32),
    U32("chainId"), Bytes("signature", 65), Metadata>>

MockPeerInfo ==
  <<U64("burnBlockHeight"), Bytes("stacksTipConsensusHash", 20), Bytes("stacksTip", 32),
    U64("stacksTipHeight"), U8String("serverVersion"), Bytes("poxConsensusHash", 20),
    U32("networkId")>>

MockProposal == MockPeerInfo \o <<Bytes("mockProposalSignature", 65)>>

MockSignature == <<Bytes("mockSignature", 65)>> \o MockProposal \o <<Metadata>>

MockBlock == MockProposal \o <<ArrayOf("mockSignatures", MockSignature)>>

\* A StateMachineUpdate (6) and a BlockPreCommit (7) are not read any further.
MessageFormat(type) ==
  CASE type = 0 -> BlockProposal
    [] type = 1 -> <<Enum("responseType")>>
    [] type = 2 -> BlockPushed
    [] type = 3 -> MockProposal
    [] type = 4 -> MockSignature
    [] type = 5 -> MockBlock
    [] OTHER    -> <<>>

EnumValues(field) ==
  CASE field = "messageType"  -> 0..7
    [] field = "responseType" -> 0..1
    [] field = "rejectCode"   -> 0..5
    [] OTHER                  -> 0..13 \cup {254, 255}   \* validateRejectCode

\* What is read after an enum value.
Continuation(field, value) ==
  CASE field = "messageType"  -> MessageFormat(value)
    [] field = "responseType" -> IF value = 0 THEN AcceptedResponse ELSE RejectedResponse
    [] field = "rejectCode"   -> IF value = 0 THEN <<Enum("validateRejectCode")>> ELSE <<>>
    [] OTHER                  -> <<>>
------------------------------------------------------------------------------
(* BufferCursor                                                            *)

Least(m, n) == IF m < n THEN m ELSE n

\* Buffer.subarray clamps both ends.
Subarray(bytes, from, to) == SubSeq(bytes, from + 1, Least(to, Len(bytes)))

U16At(bytes, i) == 256 * bytes[i] + bytes[i + 1]
U32At(bytes, i) == 65536 * U16At(bytes, i) + U16At(bytes, i + 2)

\* 1 << j
Mask(j) == <<1, 2, 4, 8, 16, 32, 64, 128>>[j + 1]

\* (bitVecBytes[i / 8] & (1 << i % 8)) !== 0; a byte that is not there has no bits.
Bit(bytes, i) ==
  IF i \div 8 < Len(bytes) THEN (bytes[i \div 8 + 1] \div Mask(i % 8)) % 2 ELSE 0

Bits(bytes, n) == [i \in 1..n |-> Bit(bytes, i - 1)]

current == Head(todo)

\* What is still to be read after a value, with `rest` to come behind it.
ReadsAfter(read, value, rest) ==
  CASE read.op = "enum"  -> Continuation(read.field, value[1]) \o rest
    [] read.op = "array" -> <<Items(read, U32At(value, 1))>> \o rest
    [] OTHER             -> rest

\* The same when the next item of an array is due.
ReadsOfItems(items, rest) ==
  IF items.n = 0 THEN rest ELSE items.item \o <<Items(items, items.n - 1)>> \o rest

Reads(op) == status = "reading" /\ todo # <<>> /\ current.op = op

\* Takes the n bytes a read requires, and as many of the `extra` bytes that
\* readBytes then asks for as there are.
Consume(n, extra, value, rest) ==
  /\ Len(buffer) >= n
  /\ buffer' = Subarray(buffer, n + extra, Len(buffer))
  /\ fields' = Append(fields, [field |-> current.field, value |-> value,
                               missing |-> n + extra - Least(n + extra, Len(buffer))])
  /\ todo' = rest
  /\ UNCHANGED <<slots, parsed, status>>

ReadU8Enum ==
  /\ Reads("enum")
  /\ Len(buffer) >= 1
  /\ buffer[1] \in EnumValues(current.field)
  /\ Consume(1, 0, <<buffer[1]>>, Continuation(current.field, buffer[1]) \o Tail(todo))

\* Mutant: a number is read from whatever bytes there are.
ReadNumberLeniently ==
  /\ Reads("number")
  /\ Consume(0, current.n, Subarray(buffer, 0, current.n), Tail(todo))

\* readU8, readU32BE, readU64BE.
ReadNumber ==
  /\ Reads("number")
  /\ Consume(current.n, 0, Subarray(buffer, 0, current.n), Tail(todo))

ReadBytes ==
  /\ Reads("bytes")
  /\ Consume(0, current.n, Subarray(buffer, 0, current.n), Tail(todo))

ReadBitVec ==
  /\ Reads("bitVec")
  /\ Len(buffer) >= 6
  /\ LET length == U32At(buffer, 3)
     IN  Consume(6, length, Bits(Subarray(buffer, 6, 6 + length), U16At(buffer, 1)),
                 Tail(todo))

ReadVecString ==
  /\ \/ Reads("vecString")
     \/ Reads("metadata") /\ buffer # <<>>
  /\ Len(buffer) >= 4
  /\ LET length == U32At(buffer, 1)
     IN  Consume(4, length, Subarray(buffer, 4, 4 + length), Tail(todo))

\* Mutant: metadata is taken for absent when there are few bytes left.
NoMetadataInFewBytes ==
  /\ Reads("metadata")
  /\ Len(buffer) < 8
  /\ Consume(0, 0, <<>>, Tail(todo))

\* parseSignerMessageMetadata: older signers end the message before it.
NoMetadata ==
  /\ Reads("metadata")
  /\ buffer = <<>>
  /\ Consume(0, 0, <<>>, Tail(todo))

ReadU8LengthPrefixedString ==
  /\ Reads("u8String")
  /\ Len(buffer) >= 1
  /\ Consume(1, buffer[1], Subarray(buffer, 1, 1 + buffer[1]), Tail(todo))

ReadArray ==
  /\ Reads("array")
  /\ Len(buffer) >= 4
  /\ Consume(4, 0, Subarray(buffer, 0, 4), <<Items(current, U32At(buffer, 1))>> \o Tail(todo))

NextItem ==
  /\ Reads("items")
  /\ todo' = ReadsOfItems(current, Tail(todo))
  /\ UNCHANGED <<slots, parsed, buffer, fields, status>>

\* deserializeTransaction of @stacks/transactions, which reads past the cursor's
\* position as many bytes as the transaction has: its length, for the model, is
\* its first byte.
TransactionLength(bytes) == bytes[1]

\* The bytes begin with a transaction that is all there.
IsTransaction(bytes) ==
  bytes # <<>> /\ TransactionLength(bytes) \in 1..Len(bytes)

\* The library may or may not notice that bytes at the end are not there, see
\* Unreadable: as with readBytes the transaction then has what is left.
ParseStacksTransaction ==
  /\ Reads("tx")
  /\ buffer # <<>> /\ TransactionLength(buffer) # 0
  /\ LET length == TransactionLength(buffer)
     IN  Consume(1, length - 1, Subarray(buffer, 0, length), Tail(todo))

\* Reads past the end, enum values the code does not list, and what the library
\* takes for no transaction or for one cut short.
Unreadable ==
  /\ status = "reading" /\ todo # <<>>
  /\ \/ current.op \in {"enum", "number", "bitVec", "vecString", "u8String", "array"}
        /\ Len(buffer) < current.n
     \/ current.op = "metadata" /\ Len(buffer) \in 1..3
     \/ current.op = "enum" /\ buffer # <<>> /\ buffer[1] \notin EnumValues(current.field)
     \/ current.op = "tx" /\ ~IsTransaction(buffer)
------------------------------------------------------------------------------
(* parseStackerDbChunk: one message for each slot; what throws in one of   *)
(* them fails the whole chunk.                                             *)

slot == slots[Len(parsed) + 1]

ParseSlot ==
  /\ status = "slot"
  /\ Len(parsed) < Len(slots)
  /\ slot.signed
  /\ buffer' = slot.data
  /\ todo' = <<Enum("messageType")>>
  /\ fields' = <<>>
  /\ status' = "reading"
  /\ UNCHANGED <<slots, parsed>>

\* Mutant: the cursor of the slot is used for the next one.
SlotParsedReadingOn ==
  /\ status = "reading"
  /\ todo = <<>>
  /\ parsed' = Append(parsed, fields)
  /\ todo' = <<Enum("messageType")>>
  /\ fields' = <<>>
  /\ UNCHANGED <<slots, buffer, status>>

SlotParsed ==
  /\ status = "reading"
  /\ todo = <<>>
  /\ parsed' = Append(parsed, fields)
  /\ status' = "slot"
  /\ UNCHANGED <<slots, buffer, todo, fields>>

SlotThrows ==
  /\ \/ Unreadable
     \/ status = "slot" /\ Len(parsed) < Len(slots) /\ ~slot.signed
  /\ status' = "threw"
  /\ UNCHANGED <<slots, parsed, buffer, todo, fields>>

ChunkParsed ==
  /\ status = "slot"
  /\ Len(parsed) = Len(slots)
  /\ status' = "parsed"
  /\ UNCHANGED <<slots, parsed, buffer, todo, fields>>
------------------------------------------------------------------------------
Init ==
  /\ slots \in Chunks
  /\ parsed = <<>>
  /\ buffer = <<>>
  /\ todo = <<>>
  /\ fields = <<>>
  /\ status = "slot"

Next ==
  \/ ParseSlot \/ SlotParsed \/ SlotThrows \/ ChunkParsed
  \/ ReadU8Enum \/ ReadNumber \/ ReadBytes \/ ReadBitVec \/ ReadVecString \/ NoMetadata
  \/ ReadU8LengthPrefixedString \/ ReadArray \/ NextItem \/ ParseStacksTransaction

Spec == Init /\ [][Next]_vars
------------------------------------------------------------------------------
(* getNakamotoBlockHash, up to the hash function: the bytes it hashes.     *)

U16Bytes(n) == <<n \div 256, n % 256>>
U32Bytes(n) == U16Bytes(n \div 65536) \o U16Bytes(n % 65536)

\* Mutant: Math.floor for Math.ceil.
WriteBitVecFloor(bits) ==
  LET length     == Len(bits) \div 8
      Set(k, j)  == IF 8 * k + j < Len(bits) THEN bits[8 * k + j + 1] * Mask(j) ELSE 0
      Byte8(k)   == Set(k, 0) + Set(k, 1) + Set(k, 2) + Set(k, 3)
                      + Set(k, 4) + Set(k, 5) + Set(k, 6) + Set(k, 7)
  IN  U16Bytes(Len(bits)) \o U32Bytes(length) \o [k \in 1..length |-> Byte8(k - 1)]

\* BufferWriter.writeBitVec: eight bits to the byte, the first one lowest.
WriteBitVec(bits) ==
  LET length     == (Len(bits) + 7) \div 8
      Set(k, j)  == IF 8 * k + j < Len(bits) THEN bits[8 * k + j + 1] * Mask(j) ELSE 0
      Byte8(k)   == Set(k, 0) + Set(k, 1) + Set(k, 2) + Set(k, 3)
                      + Set(k, 4) + Set(k, 5) + Set(k, 6) + Set(k, 7)
  IN  U16Bytes(Len(bits)) \o U32Bytes(length) \o [k \in 1..length |-> Byte8(k - 1)]

Value(msg, field) == msg[CHOOSE i \in DOMAIN msg : msg[i].field = field].value

HashedHeader(msg) ==
  Value(msg, "version") \o Value(msg, "chainLength") \o Value(msg, "burnSpent")
    \o Value(msg, "consensusHash") \o Value(msg, "parentBlockId")
    \o Value(msg, "txMerkleRoot") \o Value(msg, "stateIndexRoot")
    \o Value(msg, "timestamp") \o Value(msg, "minerSignature")
    \o WriteBitVec(Value(msg, "poxTreatment"))
------------------------------------------------------------------------------
(* What the senders write. Each encoding comes with the cursors of whoever *)
(* reads it as it was written: for each of them the reads to come, the     *)
(* offset in the bytes and the number of fields before it.                 *)

ScalarOps == {"enum", "number", "bytes", "bitVec", "vecString", "u8String", "metadata", "tx"}

FieldNames ==
  {"version", "chainLength", "burnSpent", "consensusHash", "parentBlockId",
   "txMerkleRoot", "stateIndexRoot", "timestamp", "minerSignature", "signerSignature",
   "poxTreatment", "tx", "burnHeight", "rewardCycle", "signerSignatureHash",
   "signature", "reason", "rejectCode", "chainId", "burnBlockHeight",
   "stacksTipConsensusHash", "stacksTip", "stacksTipHeight", "serverVersion",
   "poxConsensusHash", "networkId", "mockProposalSignature", "mockSignature",
   "mockSignatures", "responseType", "validateRejectCode", "messageType",
   "server_version", "transaction"}

Scalar == [op : ScalarOps, field : FieldNames, n : Nat, item : {<<>>}]

Array == [op : {"array", "items"}, field : FieldNames, n : Nat, item : Seq(Scalar)]

\* A bit vector: its length, the number of bytes, and the bits, the first of each
\* byte lowest and those behind the end not set.
EncodesBits(piece, bits) ==
  LET packed == Subarray(piece, 6, Len(piece))
  IN  /\ piece = U16Bytes(Len(bits)) \o U32Bytes(Len(packed)) \o packed
      /\ Len(packed) = (Len(bits) + 7) \div 8
      /\ \A i \in 0 .. 8 * Len(packed) - 1 :
           Bit(packed, i) = IF i < Len(bits) THEN bits[i + 1] ELSE 0

\* A piece of the bytes is what a sender writes of a value where `read` is to come.
Encodes(read, piece, value) ==
  /\ Len(piece) >= read.n
  /\ CASE read.op = "enum" ->
            piece = value /\ Len(value) = 1 /\ value[1] \in EnumValues(read.field)
       [] read.op \in {"number", "bytes"} -> piece = value /\ Len(value) = read.n
       [] read.op = "array" -> piece = value /\ Len(value) = 4
       [] read.op = "bitVec" -> EncodesBits(piece, value)
       [] read.op \in {"vecString", "metadata"} -> piece = U32Bytes(Len(value)) \o value
       [] read.op = "u8String" -> piece = <<Len(value)>> \o value
       [] read.op = "tx" ->
            piece = value /\ IsTransaction(piece) /\ TransactionLength(piece) = Len(piece)
       [] OTHER -> FALSE

\* The metadata may be left out only where the message ends, with nothing behind it.
LeavesOutMetadata(e, c, value) ==
  Head(c.reads).op = "metadata" /\ value = <<>> /\ c.at = Len(e.bytes) /\ ~e.open

\* From one cursor to the next: a field, or an array's next item.
FieldBetween(e, c, d) ==
  /\ d.n = c.n + 1 /\ d.n <= Len(e.fields)
  /\ c.at <= d.at /\ d.at <= Len(e.bytes)
  /\ e.fields[d.n].field = Head(c.reads).field
  /\ LET value == e.fields[d.n].value
     IN  /\ \/ Encodes(Head(c.reads), Subarray(e.bytes, c.at, d.at), value)
            \/ LeavesOutMetadata(e, c, value)
         /\ d.reads = ReadsAfter(Head(c.reads), value, Tail(c.reads))

ItemBetween(c, d) ==
  /\ Head(c.reads).op = "items"
  /\ d = [c EXCEPT !.reads = ReadsOfItems(Head(c.reads), Tail(c.reads))]

IsLastCursor(e, c) == c.at = Len(e.bytes) /\ c.n = Len(e.fields)

\* The cursors begin before the message type and lead through all of the bytes.
CursorsThrough(e) ==
  /\ e.cursors # <<>>
  /\ e.cursors[1] = [reads |-> <<Enum("messageType")>>, at |-> 0, n |-> 0]
  /\ \A k \in 1..Len(e.cursors) :
       LET c == e.cursors[k]
       IN  IF c.reads = <<>> THEN IsLastCursor(e, c)
           ELSE /\ k < Len(e.cursors)
                /\ FieldBetween(e, c, e.cursors[k + 1]) \/ ItemBetween(c, e.cursors[k + 1])

IsBlock(msg) == msg # <<>> /\ msg[1].value \in {<<0>>, <<2>>}

\* What the signers of a block sign: its header without their signatures.
SignedHeader(e) ==
  /\ Len(e.bytes) >= 207
  /\ \E k \in 1..Len(e.fields) : e.fields[k].field = "poxTreatment"
  /\ \A k \in 1..Len(e.fields) : e.fields[k].field = "poxTreatment" =>
       LET bits == Subarray(e.header, 206, Len(e.header))
       IN  /\ e.header = Subarray(e.bytes, 1, 207) \o bits
           /\ EncodesBits(bits, e.fields[k].value)

Cursor == [reads : Seq(Scalar \cup Array), at : Nat, n : Nat]

Encoding ==
  [bytes : Seq(Byte), fields : Seq([field : FieldNames, value : Seq(Byte)]),
   header : Seq(Byte), open : BOOLEAN, cursors : Seq(Cursor)]

ASSUME EncodedAssumption ==
  \A e \in Encoded : /\ e \in Encoding
                     /\ CursorsThrough(e)
                     /\ IsBlock(e.fields) => SignedHeader(e)
------------------------------------------------------------------------------
(* Properties                                                              *)

\* A number is kept as its bytes, a bit vector as its bits.
Field == [field : FieldNames, value : Seq(Byte), missing : Nat]

\* Every variable has its type.
TypeOK ==
  /\ slots \in Seq(Slot)
  /\ buffer \in Seq(Byte)
  /\ todo \in Seq(Scalar \cup Array)
  /\ fields \in Seq(Field) /\ parsed \in Seq(Seq(Field))
  /\ status \in {"slot", "reading", "parsed", "threw"}
  /\ Len(parsed) <= Len(slots)
  /\ status = "reading" => Len(parsed) < Len(slots)

\* The transaction a push ends with: nothing is read behind it.
IsLastOfPush(msg, j) ==
  msg[1].value = <<2>> /\ j = Len(msg) /\ msg[j].field = "transaction"

\* A block proposal that was parsed is all there, and so is all of a block push but
\* the end of its last transaction, whatever bytes the slot holds: readBytes takes a
\* hash or a signature that is cut short for whole, deserializeTransaction may take a
\* transaction so, and only a later read of the same message can tell. The block's
\* hash, by which everything is joined, is computed before that.
CompleteBlocks ==
  \A i \in 1..Len(parsed) : IsBlock(parsed[i]) =>
    \A j \in 1..Len(parsed[i]) : parsed[i][j].missing # 0 => IsLastOfPush(parsed[i], j)

Holds(s, e) ==
  \/ s.data = e.bytes
  \/ e.open /\ Subarray(s.data, 0, Len(e.bytes)) = e.bytes

Carries(msg, e) ==
  /\ Len(msg) = Len(e.fields)
  /\ \A i \in DOMAIN msg : /\ msg[i].field = e.fields[i].field
                           /\ msg[i].value = e.fields[i].value
                           /\ msg[i].missing = 0

\* Every slot of a chunk yields the message its sender wrote, in the order of the
\* slots: with or without metadata, for any number of signatures and bits, and
\* with fields of a later version behind it. Only a slot that is no such message,
\* or whose key cannot be recovered, makes the chunk throw.
SlotsRoundTrip ==
  /\ \A i \in 1..Len(parsed), e \in Encoded : Holds(slots[i], e) => Carries(parsed[i], e)
  /\ status = "parsed" => Len(parsed) = Len(slots)
  /\ status = "threw" =>
       \E i \in 1..Len(slots) : ~slots[i].signed \/ ~\E e \in Encoded : Holds(slots[i], e)

\* The fields of a header that have a fixed place in a slot, in order, and where each
\* ends (the first begins behind the message type).
FixedFields ==
  <<"version", "chainLength", "burnSpent", "consensusHash", "parentBlockId",
    "txMerkleRoot", "stateIndexRoot", "timestamp", "minerSignature">>

FieldEnds == <<2, 10, 18, 38, 70, 102, 134, 142, 207>>

Place(k) == [from |-> IF k = 1 THEN 1 ELSE FieldEnds[k - 1], to |-> FieldEnds[k]]

\* Whatever bytes a slot holds: what is hashed of a block's fixed fields is what its
\* sender put at their places, and nothing read later takes the place of one.
FixedFieldsAsSent ==
  \A i \in 1..Len(parsed), k \in 1..9 : IsBlock(parsed[i]) =>
    Value(parsed[i], FixedFields[k]) = Subarray(slots[i].data, Place(k).from, Place(k).to)

\* The hash that getNakamotoBlockHash takes covers exactly the header bytes the
\* signers sign: all of the header as it was sent, without their own signatures.
\* The bit vector is decoded to a string and encoded again in between.
HashCoversHeader ==
  /\ FixedFieldsAsSent
  /\ \A i \in 1..Len(parsed), e \in Encoded :
       IsBlock(parsed[i]) /\ Holds(slots[i], e) => HashedHeader(parsed[i]) = e.header
==============================================================================
