------------------------- MODULE SignerMessagesProofs -------------------------
(***************************************************************************)
(* For every chunk, whatever bytes its slots hold: the cursor's state has  *)
(* its type, a block that is parsed has all of its fields complete, and    *)
(* those of them that have a fixed place in the slot are what was sent.    *)
(* For all encodings of the senders: a slot that holds one is parsed to    *)
(* what was encoded, and what is hashed of a block is its signed header.   *)
(***************************************************************************)
EXTENDS SignerMessages, SequenceTheorems, TLAPS

AnyRead == Scalar \cup Array

Final(s) == s[Len(s)]
------------------------------------------------------------------------------
(* Sequences and bytes                                                     *)

\* The last element of a concatenation is that of its second half.
LEMMA FinalOfConcatenation ==
  ASSUME NEW S, NEW s \in Seq(S), NEW t \in Seq(S), t # <<>>
  PROVE  s \o t \in Seq(S) /\ s \o t # <<>> /\ Final(s \o t) = Final(t)
BY SMT DEF Final

\* Two sequences of one element make a pair.
LEMMA PairOf ==
  ASSUME NEW S, NEW x \in S, NEW y \in S
  PROVE  <<x>> \o <<y>> \o <<>> = <<x, y>>
<1>1. <<x>> \in Seq(S) /\ <<x, y>> \in Seq(S) OBVIOUS
<1>2. /\ Append(<<x>>, y) \in Seq(S) /\ Len(Append(<<x>>, y)) = 2
      /\ Append(<<x>>, y)[1] = x /\ Append(<<x>>, y)[2] = y
  BY <1>1, AppendProperties, SMT
<1>3. Append(<<x>>, y) = <<x, y>>
  <2> DEFINE s == Append(<<x>>, y)
             t == <<x, y>>
  <2>1. t \in Seq(S) /\ Len(t) = 2 /\ t[1] = x /\ t[2] = y BY <1>1
  <2>2. s \in Seq(S) /\ Len(s) = 2 /\ s[1] = x /\ s[2] = y BY <1>2
  <2> HIDE DEF s, t
  <2>3. \A i \in 1..Len(s) : i = 1 \/ i = 2 BY <2>2, SMT
  <2>4. \A i \in 1..Len(s) : s[i] = t[i] BY <2>1, <2>2, <2>3, Zenon
  <2>5. s = t BY <2>1, <2>2, <2>4, SeqEqual
  <2> QED BY <2>5 DEF s, t
<1>4. <<x>> \o <<y>> = <<x, y>> BY <1>1, <1>3, AppendIsConcat
<1> QED BY <1>1, <1>4, ConcatEmptySeq

\* What is left behind the head of a sequence ends like the sequence.
LEMMA FinalOfTail ==
  ASSUME NEW S, NEW s \in Seq(S), s # <<>>
  PROVE  /\ Tail(s) \in Seq(S)
         /\ Tail(s) # <<>> => Final(Tail(s)) = Final(s)
         /\ Tail(s) = <<>> => Final(s) = Head(s)
         /\ Head(s) \in S
<1>1. /\ Tail(s) \in Seq(S) /\ Len(Tail(s)) = Len(s) - 1 /\ Head(s) \in S
      /\ \A i \in 1..Len(Tail(s)) : Tail(s)[i] = s[i + 1]
  BY HeadTailProperties
<1>2. Len(s) \in Nat /\ Len(s) # 0 /\ Head(s) = s[1] BY SMT
<1>3. Tail(s) # <<>> => Len(Tail(s)) \in 1..Len(Tail(s)) BY <1>1, SMT
<1>4. Tail(s) = <<>> => Len(s) = 1 BY <1>1, <1>2, SMT
<1> QED BY <1>1, <1>2, <1>3, <1>4, SMT DEF Final

\* subarray clamps: it returns bytes, at most to - from of them, and none from
\* behind the end.
LEMMA SubarrayOfBytes ==
  ASSUME NEW b \in Seq(Byte), NEW from \in Nat, NEW to \in Nat
  PROVE  /\ Subarray(b, from, to) \in Seq(Byte)
         /\ Len(b) <= from => Subarray(b, from, to) = <<>>
<1>1. Len(b) \in Nat BY SMT
<1>2. /\ from + 1 \in Int /\ Least(to, Len(b)) \in Int /\ Least(to, Len(b)) <= Len(b)
  BY <1>1, SMT DEF Least
<1>3. \A i \in from + 1 .. Least(to, Len(b)) : b[i] \in Byte BY <1>1, <1>2, SMT
<1>4. Subarray(b, from, to) \in Seq(Byte) BY <1>2, <1>3, SubSeqProperties DEF Subarray
<1>5. Len(b) <= from => Least(to, Len(b)) < from + 1 BY <1>1, <1>2, SMT
<1> QED BY <1>2, <1>4, <1>5, SubSeqEmpty DEF Subarray

\* A byte is a number.
LEMMA BytesAreNat == \A x \in Byte : x \in Nat
BY SMT DEF Byte

\* What is read as a number of two or four bytes is one.
LEMMA NumbersAreNat ==
  ASSUME NEW b \in Seq(Byte), NEW i \in 1..Len(b)
  PROVE  /\ b[i] \in Nat
         /\ i + 1 <= Len(b) => U16At(b, i) \in Nat
         /\ i + 3 <= Len(b) => U32At(b, i) \in Nat
<1>0. \A j \in 1..Len(b) : b[j] \in Byte BY SMT
<1>1. \A j \in 1..Len(b) : b[j] \in Nat BY <1>0, BytesAreNat
<1>2. Len(b) \in Nat BY SMT
<1>3. \A j \in Nat \ {0} : j + 1 <= Len(b) => U16At(b, j) \in Nat BY <1>1, <1>2, SMT DEF U16At
<1>4. i + 3 <= Len(b) => U32At(b, i) \in Nat BY <1>2, <1>3, SMT DEF U32At
<1> QED BY <1>1, <1>2, <1>3, <1>4, SMT

\* A bit is 0 or 1.
LEMMA BitsAreBytes ==
  ASSUME NEW b \in Seq(Byte), NEW n \in Nat
  PROVE  Bits(b, n) \in Seq(Byte)
<1>1. ASSUME NEW i \in Nat PROVE Bit(b, i) \in Byte
  <2>1. CASE i \div 8 < Len(b)
    <3>1. i \div 8 \in Nat BY SMT
    <3>2. i \div 8 + 1 \in 1..Len(b) BY <2>1, <3>1, SMT
    <3>3. b[i \div 8 + 1] \in Byte BY <3>2, SMT
    <3>4. Mask(i % 8) \in {1, 2, 4, 8, 16, 32, 64, 128} BY SMT DEF Mask
    <3>5. b[i \div 8 + 1] \div Mask(i % 8) \in Nat BY <3>3, <3>4, BytesAreNat, SMT
    <3>6. (b[i \div 8 + 1] \div Mask(i % 8)) % 2 \in 0..1 BY <3>5, SMT
    <3> QED BY <2>1, <3>6, SMT DEF Bit, Byte
  <2>2. CASE ~(i \div 8 < Len(b)) BY <2>2, SMT DEF Bit, Byte
  <2> QED BY <2>1, <2>2
<1>2. \A i \in 1..n : Bit(b, i - 1) \in Byte BY <1>1, SMT
<1> QED BY <1>2, SMT DEF Bits
------------------------------------------------------------------------------
(* Formats                                                                 *)

\* The names the formats use are those of fields.
LEMMA NamesTyped ==
  /\ "version" \in FieldNames /\ "chainLength" \in FieldNames
  /\ "burnSpent" \in FieldNames /\ "consensusHash" \in FieldNames
  /\ "parentBlockId" \in FieldNames /\ "txMerkleRoot" \in FieldNames
  /\ "stateIndexRoot" \in FieldNames /\ "timestamp" \in FieldNames
  /\ "minerSignature" \in FieldNames /\ "signerSignature" \in FieldNames
  /\ "poxTreatment" \in FieldNames /\ "tx" \in FieldNames
  /\ "burnHeight" \in FieldNames /\ "rewardCycle" \in FieldNames
  /\ "signerSignatureHash" \in FieldNames /\ "signature" \in FieldNames
  /\ "reason" \in FieldNames /\ "rejectCode" \in FieldNames
  /\ "chainId" \in FieldNames /\ "burnBlockHeight" \in FieldNames
  /\ "stacksTipConsensusHash" \in FieldNames /\ "stacksTip" \in FieldNames
  /\ "stacksTipHeight" \in FieldNames /\ "serverVersion" \in FieldNames
  /\ "poxConsensusHash" \in FieldNames /\ "networkId" \in FieldNames
  /\ "mockProposalSignature" \in FieldNames /\ "mockSignature" \in FieldNames
  /\ "mockSignatures" \in FieldNames /\ "responseType" \in FieldNames
  /\ "validateRejectCode" \in FieldNames /\ "messageType" \in FieldNames
  /\ "server_version" \in FieldNames /\ "transaction" \in FieldNames
BY DEF FieldNames

\* Each single read has its type.
LEMMA ReadsTyped ==
  ASSUME NEW f \in FieldNames, NEW n \in Nat
  PROVE  /\ Enum(f) \in Scalar /\ U8(f) \in Scalar /\ U32(f) \in Scalar /\ U64(f) \in Scalar
         /\ Bytes(f, n) \in Scalar /\ BitVec(f) \in Scalar /\ VecString(f) \in Scalar
         /\ U8String(f) \in Scalar /\ Metadata \in Scalar /\ StacksTransaction \in Scalar
<1>1. \A op \in ScalarOps, g \in FieldNames, m \in Nat : Read(op, g, m) \in Scalar
  BY DEF Scalar, Read
<1>2. "enum" \in ScalarOps /\ "number" \in ScalarOps /\ "bytes" \in ScalarOps
      /\ "bitVec" \in ScalarOps /\ "vecString" \in ScalarOps /\ "u8String" \in ScalarOps
      /\ "metadata" \in ScalarOps /\ "tx" \in ScalarOps
  BY DEF ScalarOps
<1>3. Enum(f) \in Scalar /\ U8(f) \in Scalar /\ U32(f) \in Scalar /\ U64(f) \in Scalar
  BY <1>1, <1>2 DEF Enum, U8, U32, U64
<1>4. /\ Bytes(f, n) \in Scalar /\ BitVec(f) \in Scalar /\ VecString(f) \in Scalar
      /\ U8String(f) \in Scalar
  BY <1>1, <1>2 DEF Bytes, BitVec, VecString, U8String
<1>5. Metadata \in Scalar /\ StacksTransaction \in Scalar
  BY <1>1, <1>2, NamesTyped DEF Metadata, StacksTransaction
<1> QED BY <1>3, <1>4, <1>5

\* The mock messages are made of single reads.
LEMMA MockFormatsTyped ==
  MockProposal \in Seq(Scalar) /\ MockSignature \in Seq(Scalar)
<1>1. MockPeerInfo \in Seq(Scalar) BY NamesTyped, ReadsTyped DEF MockPeerInfo
<1>2. MockProposal \in Seq(Scalar) BY <1>1, NamesTyped, ReadsTyped DEF MockProposal
<1>3. MockSignature \in Seq(Scalar) BY <1>2, NamesTyped, ReadsTyped DEF MockSignature
<1> QED BY <1>2, <1>3

\* An array of single reads is one of the reads to come.
LEMMA ArraysTyped ==
  ASSUME NEW f \in FieldNames, NEW item \in Seq(Scalar)
  PROVE  ArrayOf(f, item) \in Array
BY DEF ArrayOf, Array

\* So are the items that are left of an array.
LEMMA ItemsTyped ==
  ASSUME NEW array \in Array, NEW n \in Nat
  PROVE  Items(array, n) \in Array
BY DEF Items, Array

\* A proposal ends with its reward cycle, a pushed block with its transactions.
LEMMA BlockFormatsTyped ==
  /\ BlockProposal \in Seq(AnyRead) /\ BlockProposal # <<>>
  /\ Final(BlockProposal) = U64("rewardCycle")
  /\ BlockPushed \in Seq(AnyRead) /\ BlockPushed # <<>>
  /\ Final(BlockPushed) = ArrayOf("tx", <<StacksTransaction>>)
<1>a. <<Bytes("signerSignature", 65)>> \in Seq(Scalar) /\ <<StacksTransaction>> \in Seq(Scalar)
  BY NamesTyped, ReadsTyped
<1>1. ArrayOf("signerSignature", <<Bytes("signerSignature", 65)>>) \in Array
  BY <1>a, NamesTyped, ArraysTyped
<1>2. ArrayOf("tx", <<StacksTransaction>>) \in Array BY <1>a, NamesTyped, ArraysTyped
<1>3. NakamotoBlockHeader \in Seq(AnyRead)
  BY <1>1, NamesTyped, ReadsTyped DEF NakamotoBlockHeader, AnyRead
<1>4. <<ArrayOf("tx", <<StacksTransaction>>)>> \in Seq(AnyRead) BY <1>2 DEF AnyRead
<1>5. /\ NakamotoBlock \in Seq(AnyRead) /\ NakamotoBlock # <<>>
      /\ Final(NakamotoBlock) = ArrayOf("tx", <<StacksTransaction>>)
  BY <1>3, <1>4, FinalOfConcatenation, Final(<<ArrayOf("tx", <<StacksTransaction>>)>>)
       = ArrayOf("tx", <<StacksTransaction>>) DEF NakamotoBlock, Final
<1>6. <<U64("burnHeight"), U64("rewardCycle")>> \in Seq(AnyRead)
  BY NamesTyped, ReadsTyped DEF AnyRead
<1>7. Final(<<U64("burnHeight"), U64("rewardCycle")>>) = U64("rewardCycle") BY DEF Final
<1>8. /\ BlockProposal \in Seq(AnyRead) /\ BlockProposal # <<>>
      /\ Final(BlockProposal) = U64("rewardCycle")
  BY <1>5, <1>6, <1>7, FinalOfConcatenation DEF BlockProposal
<1> QED BY <1>5, <1>8 DEF BlockPushed

\* Whatever an enum value continues with is a format.
LEMMA ContinuationTyped ==
  ASSUME NEW f, NEW v
  PROVE  Continuation(f, v) \in Seq(AnyRead)
<1>1. AcceptedResponse \in Seq(AnyRead) BY NamesTyped, ReadsTyped DEF AcceptedResponse, AnyRead
<1>2. RejectedResponse \in Seq(AnyRead) BY NamesTyped, ReadsTyped DEF RejectedResponse, AnyRead
<1>3. MockProposal \in Seq(AnyRead) /\ MockSignature \in Seq(AnyRead)
  BY MockFormatsTyped DEF AnyRead
<1>4. MockBlock \in Seq(AnyRead)
  BY <1>3, MockFormatsTyped, ArraysTyped, NamesTyped DEF MockBlock, AnyRead
<1>5. \A s \in FieldNames : <<Enum(s)>> \in Seq(AnyRead) BY NamesTyped, ReadsTyped DEF AnyRead
<1>6. <<>> \in Seq(AnyRead) OBVIOUS
<1>7. MessageFormat(v) \in Seq(AnyRead)
  <2>1. CASE v = 0 BY <2>1, BlockFormatsTyped DEF MessageFormat
  <2>2. CASE v = 1 BY <2>2, <1>5, NamesTyped DEF MessageFormat
  <2>3. CASE v = 2 BY <2>3, BlockFormatsTyped DEF MessageFormat
  <2>4. CASE v = 3 BY <2>4, <1>3 DEF MessageFormat
  <2>5. CASE v = 4 BY <2>5, <1>3 DEF MessageFormat
  <2>6. CASE v = 5 BY <2>6, <1>4 DEF MessageFormat
  <2>7. CASE v \notin 0..5
    <3>1. v # 0 /\ v # 1 /\ v # 2 /\ v # 3 /\ v # 4 /\ v # 5 BY <2>7, SMT
    <3> QED BY <3>1, <1>6 DEF MessageFormat
  <2> QED BY <2>1, <2>2, <2>3, <2>4, <2>5, <2>6, <2>7, SMT
<1>8. CASE f = "messageType" BY <1>7, <1>8 DEF Continuation
<1>9. CASE f = "responseType" BY <1>1, <1>2, <1>9 DEF Continuation
<1>10. CASE f = "rejectCode" BY <1>5, <1>6, <1>10, NamesTyped DEF Continuation
<1>11. CASE f \notin {"messageType", "responseType", "rejectCode"}
  BY <1>6, <1>11 DEF Continuation
<1> QED BY <1>8, <1>9, <1>10, <1>11
------------------------------------------------------------------------------
(* Types                                                                   *)

\* A read keeps the types if its value is a sequence of bytes and what is left to
\* read is well formed.
LEMMA ConsumeTyped ==
  ASSUME TypeOK, status = "reading", todo # <<>>,
         NEW n \in Nat, NEW extra \in Nat, NEW value \in Seq(Byte), NEW rest \in Seq(AnyRead),
         Consume(n, extra, value, rest)
  PROVE  TypeOK'
<1>1. current \in AnyRead BY HeadTailProperties DEF TypeOK, current, AnyRead
<1>2. current.field \in FieldNames BY <1>1 DEF AnyRead, Scalar, Array
<1>3. Len(buffer) \in Nat BY SMT DEF TypeOK
<1>4. n + extra - Least(n + extra, Len(buffer)) \in Nat BY <1>3, SMT DEF Least
<1>5. [field |-> current.field, value |-> value,
       missing |-> n + extra - Least(n + extra, Len(buffer))] \in Field
  BY <1>2, <1>4 DEF Field
<1>6. fields' \in Seq(Field) BY <1>5, AppendProperties DEF TypeOK, Consume
<1>7. buffer' \in Seq(Byte)
  <2>1. n + extra \in Nat BY SMT
  <2> QED BY <1>3, <2>1, SubarrayOfBytes DEF TypeOK, Consume
<1> QED BY <1>6, <1>7 DEF TypeOK, Consume, AnyRead

\* A chunk that has not been read yet has its type.
LEMMA TypeInit == Init => TypeOK
BY ChunksAssumption DEF Init, TypeOK

\* The reads whose rest is the tail of `todo`.
ReadScalar ==
  ReadNumber \/ ReadBytes \/ ReadBitVec \/ ReadVecString \/ NoMetadata
    \/ ReadU8LengthPrefixedString \/ ParseStacksTransaction

\* Each of them is a Consume of some width that leaves the rest of `todo`; a number
\* has its width, and of a transaction at least a byte must be there.
LEMMA ReadScalarConsumes ==
  ASSUME TypeOK, ReadScalar
  PROVE  /\ status = "reading" /\ todo # <<>> /\ current \in Scalar
         /\ \E n, extra \in Nat, value \in Seq(Byte) :
              /\ Consume(n, extra, value, Tail(todo))
              /\ current.op = "number" => n = current.n /\ extra = 0
              /\ current.op = "tx" => n = 1
<1>0. /\ todo \in Seq(AnyRead) /\ buffer \in Seq(Byte) /\ Len(buffer) \in Nat
      /\ \A i \in 1..Len(buffer) : buffer[i] \in Nat /\ buffer[i] \in Byte
  BY BytesAreNat, SMT DEF TypeOK, AnyRead
<1>1. status = "reading" /\ todo # <<>> /\ current.op \in ScalarOps
  BY DEF ReadScalar, ReadNumber, ReadBytes, ReadBitVec, ReadVecString, NoMetadata,
         ReadU8LengthPrefixedString, ParseStacksTransaction, Reads, ScalarOps
<1>2. current \in AnyRead BY <1>0, <1>1, HeadTailProperties DEF current
<1>3. current \in Scalar /\ current.n \in Nat
  BY <1>1, <1>2, SMT DEF AnyRead, Scalar, Array, ScalarOps
<1>4. \A from, to \in Nat : Subarray(buffer, from, to) \in Seq(Byte)
  BY <1>0, SubarrayOfBytes
<1>5. CASE ReadNumber
  <2>1. Consume(current.n, 0, Subarray(buffer, 0, current.n), Tail(todo)) /\ current.op = "number"
    BY <1>5 DEF ReadNumber, Reads
  <2> QED BY <1>1, <1>3, <1>4, <2>1
<1>6. CASE ReadBytes
  <2>1. Consume(0, current.n, Subarray(buffer, 0, current.n), Tail(todo)) /\ current.op = "bytes"
    BY <1>6 DEF ReadBytes, Reads
  <2> QED BY <1>1, <1>3, <1>4, <2>1
<1>7. CASE ReadBitVec
  <2> DEFINE length == U32At(buffer, 3)
             bits == Bits(Subarray(buffer, 6, 6 + length), U16At(buffer, 1))
  <2>1. Len(buffer) >= 6 /\ Consume(6, length, bits, Tail(todo)) /\ current.op = "bitVec"
    BY <1>7 DEF ReadBitVec, Reads
  <2>2. length \in Nat /\ U16At(buffer, 1) \in Nat BY <1>0, <2>1, NumbersAreNat, SMT
  <2>3. 6 + length \in Nat BY <2>2, SMT
  <2>4. Subarray(buffer, 6, 6 + length) \in Seq(Byte) BY <1>4, <2>3
  <2>5. bits \in Seq(Byte) BY <2>2, <2>4, BitsAreBytes
  <2> QED BY <1>1, <1>3, <2>1, <2>2, <2>5
<1>8. CASE ReadVecString
  <2> DEFINE length == U32At(buffer, 1)
  <2>1. /\ Len(buffer) >= 4 /\ Consume(4, length, Subarray(buffer, 4, 4 + length), Tail(todo))
        /\ current.op \in {"vecString", "metadata"}
    BY <1>8 DEF ReadVecString, Reads
  <2>2. length \in Nat /\ 4 + length \in Nat BY <1>0, <2>1, NumbersAreNat, SMT
  <2> QED BY <1>1, <1>3, <1>4, <2>1, <2>2
<1>9. CASE NoMetadata
  <2>1. Consume(0, 0, <<>>, Tail(todo)) /\ current.op = "metadata"
    BY <1>9 DEF NoMetadata, Reads
  <2>2. <<>> \in Seq(Byte) OBVIOUS
  <2> QED BY <1>1, <1>3, <2>1, <2>2
<1>10. CASE ReadU8LengthPrefixedString
  <2>1. /\ Len(buffer) >= 1 /\ current.op = "u8String"
        /\ Consume(1, buffer[1], Subarray(buffer, 1, 1 + buffer[1]), Tail(todo))
    BY <1>10 DEF ReadU8LengthPrefixedString, Reads
  <2>2. buffer[1] \in Nat /\ 1 + buffer[1] \in Nat BY <1>0, <2>1, SMT
  <2> QED BY <1>1, <1>3, <1>4, <2>1, <2>2
<1>11. CASE ParseStacksTransaction
  <2> DEFINE length == TransactionLength(buffer)
  <2>1. /\ buffer # <<>> /\ length # 0 /\ current.op = "tx"
        /\ Consume(1, length - 1, Subarray(buffer, 0, length), Tail(todo))
    BY <1>11 DEF ParseStacksTransaction, Reads
  <2>2. 1 \in 1..Len(buffer) BY <1>0, <2>1, EmptySeq, SMT
  <2>3. length \in Nat BY <1>0, <2>2 DEF TransactionLength
  <2> HIDE DEF length
  <2>4. length - 1 \in Nat /\ 1 \in Nat BY <2>1, <2>3, SMT
  <2> QED BY <1>1, <1>3, <1>4, <2>1, <2>3, <2>4
<1> QED BY <1>5, <1>6, <1>7, <1>8, <1>9, <1>10, <1>11 DEF ReadScalar

\* Every step keeps the types.
LEMMA TypeStep == TypeOK /\ [Next]_vars => TypeOK'
<1> SUFFICES ASSUME TypeOK, [Next]_vars PROVE TypeOK' OBVIOUS
<1>0. /\ todo \in Seq(AnyRead) /\ buffer \in Seq(Byte) /\ parsed \in Seq(Seq(Field))
      /\ Len(parsed) \in Nat /\ Len(slots) \in Nat
  BY SMT DEF TypeOK, AnyRead
<1>1. CASE ParseSlot
  <2>1. Len(parsed) + 1 \in 1..Len(slots) BY <1>0, <1>1, SMT DEF ParseSlot
  <2>2. slot \in Slot BY <2>1, ElementOfSeq DEF TypeOK, slot
  <2>3. slot.data \in Seq(Byte) BY <2>2 DEF Slot
  <2>4. <<Enum("messageType")>> \in Seq(AnyRead) BY NamesTyped, ReadsTyped DEF AnyRead
  <2> QED BY <1>1, <2>3, <2>4 DEF ParseSlot, TypeOK, AnyRead
<1>2. CASE SlotParsed
  <2>1. fields \in Seq(Field) /\ Len(parsed) < Len(slots) BY <1>2 DEF SlotParsed, TypeOK
  <2>2. parsed' \in Seq(Seq(Field)) /\ Len(parsed') = Len(parsed) + 1
    BY <1>0, <1>2, <2>1, AppendProperties DEF SlotParsed
  <2>3. Len(parsed') <= Len(slots) BY <1>0, <2>1, <2>2, SMT
  <2> QED BY <1>2, <2>2, <2>3 DEF SlotParsed, TypeOK
<1>3. CASE SlotThrows BY <1>3 DEF SlotThrows, TypeOK
<1>4. CASE ChunkParsed BY <1>4 DEF ChunkParsed, TypeOK
<1>5. CASE ReadScalar
  <2>1. PICK n \in Nat, extra \in Nat, value \in Seq(Byte) : Consume(n, extra, value, Tail(todo))
    BY <1>5, ReadScalarConsumes
  <2>2. status = "reading" /\ todo # <<>> BY <1>5, ReadScalarConsumes
  <2>3. Tail(todo) \in Seq(AnyRead) BY <1>0, <2>2, HeadTailProperties
  <2> QED BY <2>1, <2>2, <2>3, ConsumeTyped
<1>6. CASE ReadU8Enum
  <2>1. /\ status = "reading" /\ todo # <<>> /\ Len(buffer) >= 1
        /\ Consume(1, 0, <<buffer[1]>>, Continuation(current.field, buffer[1]) \o Tail(todo))
    BY <1>6 DEF ReadU8Enum, Reads
  <2>2. <<buffer[1]>> \in Seq(Byte) BY <1>0, <2>1, SMT
  <2>3. Tail(todo) \in Seq(AnyRead) BY <1>0, <2>1, HeadTailProperties
  <2>4. Continuation(current.field, buffer[1]) \in Seq(AnyRead) BY ContinuationTyped
  <2>5. Continuation(current.field, buffer[1]) \o Tail(todo) \in Seq(AnyRead)
    BY <2>3, <2>4, ConcatProperties
  <2> QED BY <2>1, <2>2, <2>5, ConsumeTyped
<1>7. CASE ReadArray
  <2> DEFINE count == U32At(buffer, 1)
  <2>1. /\ status = "reading" /\ todo # <<>> /\ current.op = "array" /\ Len(buffer) >= 4
        /\ Consume(4, 0, Subarray(buffer, 0, 4), <<Items(current, count)>> \o Tail(todo))
    BY <1>7 DEF ReadArray, Reads
  <2>2. Subarray(buffer, 0, 4) \in Seq(Byte) BY <1>0, SubarrayOfBytes
  <2>3. Tail(todo) \in Seq(AnyRead) /\ current \in AnyRead
    BY <1>0, <2>1, HeadTailProperties DEF current
  <2>4. count \in Nat BY <1>0, <2>1, NumbersAreNat, SMT
  <2>5. current \in Array BY <2>1, <2>3, SMT DEF AnyRead, Scalar, ScalarOps
  <2>6. <<Items(current, count)>> \in Seq(AnyRead) BY <2>4, <2>5, ItemsTyped DEF AnyRead
  <2>7. <<Items(current, count)>> \o Tail(todo) \in Seq(AnyRead)
    BY <2>3, <2>6, ConcatProperties
  <2> QED BY <2>1, <2>2, <2>7, ConsumeTyped
<1>8. CASE NextItem
  <2>1. /\ status = "reading" /\ todo # <<>> /\ current.op = "items" /\ current \in AnyRead
        /\ Tail(todo) \in Seq(AnyRead)
    BY <1>0, <1>8, HeadTailProperties DEF NextItem, Reads, current
  <2>2. current \in Array /\ current.n \in Nat /\ current.item \in Seq(Scalar)
    BY <2>1, SMT DEF AnyRead, Scalar, ScalarOps, Array
  <2>3. CASE current.n = 0 BY <1>8, <2>1, <2>3 DEF NextItem, ReadsOfItems, TypeOK, AnyRead
  <2>4. CASE current.n # 0
    <3>1. current.n - 1 \in Nat BY <2>2, <2>4, SMT
    <3>2. <<Items(current, current.n - 1)>> \in Seq(AnyRead)
      BY <2>2, <3>1, ItemsTyped DEF AnyRead
    <3>3. current.item \in Seq(AnyRead) BY <2>2, SeqMonotonic DEF AnyRead
    <3>4. todo' \in Seq(AnyRead)
      BY <1>8, <2>1, <2>4, <3>2, <3>3, ConcatProperties DEF NextItem, ReadsOfItems
    <3> QED BY <1>8, <3>4 DEF NextItem, TypeOK, AnyRead
  <2> QED BY <2>3, <2>4
<1>9. CASE UNCHANGED vars BY <1>9 DEF vars, TypeOK
<1> QED BY <1>1, <1>2, <1>3, <1>4, <1>5, <1>6, <1>7, <1>8, <1>9 DEF Next, ReadScalar

\* Whatever bytes the slots of a chunk hold, the parser's state has its type.
THEOREM TypeCorrect == Spec => []TypeOK
<1>1. TypeOK /\ [Next]_vars => TypeOK' BY TypeStep
<1> QED BY TypeInit, <1>1, PTL DEF Spec
------------------------------------------------------------------------------
(* Blocks are complete. A field that is cut short leaves the buffer empty, *)
(* and the format of a block still has a read to come that needs bytes:    *)
(* the reward cycle of a proposal, the transaction count of a push. Only   *)
(* behind a push's last transaction there is none.                         *)

IsShort(msg) == \E i \in 1..Len(msg) : msg[i].missing # 0

IsDamaged(msg) == \E i \in 1..Len(msg) : msg[i].missing # 0 /\ ~IsLastOfPush(msg, i)

Transactions == ArrayOf("tx", <<StacksTransaction>>)

EndsAsProposal == Final(todo) = U64("rewardCycle")

InTransactions ==
  \E n \in Nat : \/ todo = <<Items(Transactions, n)>>
                 \/ todo = <<StacksTransaction, Items(Transactions, n)>>

EndsAsPush == Final(todo) = Transactions \/ InTransactions

\* What is left of a message whose type is known ends as its format does, and is
\* not over once a field was short that may not be.
EndsAsFormat ==
  /\ todo # <<>> /\ fields[1].value = <<0>> => EndsAsProposal
  /\ todo # <<>> /\ fields[1].value = <<2>> => EndsAsPush
  /\ IsShort(fields) => buffer = <<>>
  /\ IsDamaged(fields) /\ IsBlock(fields) => todo # <<>> /\ ~InTransactions

CursorInv ==
  status = "reading" =>
    \/ fields = <<>> /\ todo = <<Enum("messageType")>>
    \/ fields # <<>> /\ EndsAsFormat

IInv == TypeOK /\ CursorInv /\ CompleteBlocks

\* A read appends one field; it is short only when the buffer ran out. A short field
\* does damage unless it is a push's transaction with nothing behind it.
LEMMA ConsumeAppends ==
  ASSUME TypeOK, status = "reading", todo # <<>>,
         NEW n \in Nat, NEW extra \in Nat, NEW value \in Seq(Byte), NEW rest \in Seq(AnyRead),
         Consume(n, extra, value, rest)
  PROVE  /\ fields' # <<>>
         /\ fields # <<>> => fields'[1] = fields[1]
         /\ fields = <<>> => fields'[1].value = value
         /\ IsShort(fields') => IsShort(fields) \/ n + extra > Len(buffer)
         /\ IsDamaged(fields') =>
              \/ IsShort(fields)
              \/ /\ n + extra > Len(buffer)
                 /\ ~(fields'[1].value = <<2>> /\ current.field = "transaction")
         /\ n + extra > Len(buffer) => buffer' = <<>>
         /\ buffer = <<>> => n = 0 /\ buffer' = <<>>
         /\ extra = 0 => ~(n + extra > Len(buffer))
<1> DEFINE f == [field |-> current.field, value |-> value,
                 missing |-> n + extra - Least(n + extra, Len(buffer))]
<1>0. Len(buffer) \in Nat /\ Len(buffer) >= n /\ fields \in Seq(Field) /\ Len(fields) \in Nat
      /\ n + extra \in Nat /\ buffer \in Seq(Byte)
  BY SMT DEF TypeOK, Consume
<1>1. current \in AnyRead BY HeadTailProperties DEF TypeOK, current, AnyRead
<1>2. current.field \in FieldNames BY <1>1 DEF AnyRead, Scalar, Array
<1>3. /\ n + extra - Least(n + extra, Len(buffer)) \in Nat
      /\ n + extra - Least(n + extra, Len(buffer)) # 0 => n + extra > Len(buffer)
  <2>1. Len(buffer) \in Nat BY <1>0
  <2>2. n + extra - Least(n + extra, Len(buffer)) \in Nat BY <2>1, SMT DEF Least
  <2>3. n + extra - Least(n + extra, Len(buffer)) # 0 => n + extra > Len(buffer)
    BY <2>1, SMT DEF Least
  <2> QED BY <2>2, <2>3
<1>4. f \in Field BY <1>2, <1>3 DEF Field
<1>5. f.missing # 0 => n + extra > Len(buffer)
  <2>1. f.missing = n + extra - Least(n + extra, Len(buffer)) OBVIOUS
  <2> HIDE DEF f
  <2> QED BY <1>3, <2>1
<1>6. fields' = Append(fields, f) BY DEF Consume
<1>v. f.value = value /\ f.field = current.field OBVIOUS
<1> HIDE DEF f
<1>7. /\ Len(fields') = Len(fields) + 1
      /\ \A i \in 1..Len(fields) : fields'[i] = fields[i]
      /\ fields'[Len(fields) + 1] = f
  BY <1>0, <1>4, <1>6, AppendProperties
<1>8. fields' # <<>> /\ (fields # <<>> => 1 \in 1..Len(fields))
  <2>1. Len(fields') # 0 BY <1>0, <1>7, SMT
  <2>2. fields # <<>> => 1 \in 1..Len(fields) BY <1>0, SMT
  <2> QED BY <2>1, <2>2
<1>9. fields = <<>> => fields'[1].value = value
  <2>1. fields = <<>> => Len(fields) = 0 OBVIOUS
  <2> QED BY <1>7, <1>v, <2>1, SMT
<1>10. IsShort(fields') => IsShort(fields) \/ n + extra > Len(buffer)
  <2> SUFFICES ASSUME NEW i \in 1..Len(fields'), fields'[i].missing # 0
               PROVE  IsShort(fields) \/ n + extra > Len(buffer)
    BY DEF IsShort
  <2>1. i \in 1..Len(fields) \/ i = Len(fields) + 1 BY <1>0, <1>7, SMT
  <2> QED BY <1>5, <1>7, <2>1 DEF IsShort
<1>11. n + extra >= Len(buffer) => buffer' = <<>>
  BY <1>0, SubarrayOfBytes DEF Consume
<1>12. buffer = <<>> => Len(buffer) = 0 OBVIOUS
<1>13. buffer = <<>> => n = 0 /\ buffer' = <<>> BY <1>0, <1>11, <1>12, SMT
<1>14. n + extra > Len(buffer) => buffer' = <<>> BY <1>0, <1>11, SMT
<1>15. extra = 0 => ~(n + extra > Len(buffer)) BY <1>0, SMT
<1>16. ASSUME IsDamaged(fields'), ~IsShort(fields)
       PROVE  /\ n + extra > Len(buffer)
              /\ ~(fields'[1].value = <<2>> /\ current.field = "transaction")
  <2>1. PICK i \in 1..Len(fields') : fields'[i].missing # 0 /\ ~IsLastOfPush(fields', i)
    BY <1>16 DEF IsDamaged
  <2>2. i \in 1..Len(fields) \/ i = Len(fields) + 1 BY <1>0, <1>7, SMT
  <2>3. i = Len(fields) + 1 BY <1>7, <1>16, <2>1, <2>2 DEF IsShort
  <2>4. fields'[i] = f /\ i = Len(fields') BY <1>7, <2>3
  <2> QED BY <1>5, <1>v, <2>1, <2>4 DEF IsLastOfPush
<1> QED BY <1>7, <1>8, <1>9, <1>10, <1>13, <1>14, <1>15, <1>16

\* The kinds of the reads a block ends with.
LEMMA EndsOfBlocks ==
  /\ U64("rewardCycle").op = "number" /\ U64("rewardCycle").n = 8
  /\ Transactions.op = "array" /\ Transactions.item = <<StacksTransaction>>
  /\ StacksTransaction.op = "tx" /\ Enum("messageType").op = "enum"
  /\ \A n : Items(Transactions, n).op = "items"
  /\ \A n, k : Items(Items(Transactions, n), k) = Items(Transactions, k)
  /\ InTransactions => Final(todo).op = "items" /\ Head(todo).op \in {"tx", "items"}
  /\ InTransactions' => Final(todo').op = "items"
<1>1. U64("rewardCycle").op = "number" /\ U64("rewardCycle").n = 8 /\ StacksTransaction.op = "tx"
      /\ Enum("messageType").op = "enum"
  BY DEF U64, StacksTransaction, Enum, Read
<1>2. /\ Transactions.op = "array" /\ Transactions.item = <<StacksTransaction>>
      /\ \A n : Items(Transactions, n).op = "items"
      /\ \A n, k : Items(Items(Transactions, n), k) = Items(Transactions, k)
  BY DEF Transactions, ArrayOf, Items
<1>3. InTransactions => Final(todo).op = "items" /\ Head(todo).op \in {"tx", "items"}
  <2> SUFFICES ASSUME NEW n \in Nat, \/ todo = <<Items(Transactions, n)>>
                                     \/ todo = <<StacksTransaction, Items(Transactions, n)>>
               PROVE  Final(todo).op = "items" /\ Head(todo).op \in {"tx", "items"}
    BY DEF InTransactions
  <2>1. Final(todo) = Items(Transactions, n) /\ Head(todo) \in {StacksTransaction, Items(Transactions, n)}
    BY DEF Final
  <2> QED BY <1>1, <1>2, <2>1
<1>4. InTransactions' => Final(todo').op = "items"
  <2> SUFFICES ASSUME NEW n \in Nat, \/ todo' = <<Items(Transactions, n)>>
                                     \/ todo' = <<StacksTransaction, Items(Transactions, n)>>
               PROVE  Final(todo').op = "items"
    BY DEF InTransactions, Transactions
  <2>1. Final(todo') = Items(Transactions, n) BY DEF Final
  <2> QED BY <1>2, <2>1
<1> QED BY <1>1, <1>2, <1>3, <1>4

\* What a read leaves ends as the format does; the last read of a block must have
\* its bytes.
KeepsFormat(rest) ==
  /\ rest # <<>> /\ fields[1].value = <<0>> => EndsAsProposal'
  /\ rest # <<>> /\ fields[1].value = <<2>> => EndsAsPush'

EndNeedsBytes(n, extra, rest) ==
  IsBlock(fields) /\ (rest = <<>> \/ InTransactions') =>
    /\ n # 0
    /\ extra = 0 \/ (fields[1].value = <<2>> /\ current.field = "transaction")

\* A read behind the message type keeps the invariant if what it leaves to read ends
\* as the format does, and if the last read of a block is one that must have its bytes.
LEMMA ConsumeKeeps ==
  ASSUME TypeOK, CursorInv, status = "reading", todo # <<>>, fields # <<>>,
         NEW n \in Nat, NEW extra \in Nat, NEW value \in Seq(Byte), NEW rest \in Seq(AnyRead),
         Consume(n, extra, value, rest),
         KeepsFormat(rest), EndNeedsBytes(n, extra, rest)
  PROVE  CursorInv'
<1>1. EndsAsFormat BY DEF CursorInv
<1>2. /\ fields' # <<>> /\ fields'[1] = fields[1]
      /\ IsShort(fields') => IsShort(fields) \/ n + extra > Len(buffer)
      /\ IsDamaged(fields') =>
           \/ IsShort(fields)
           \/ /\ n + extra > Len(buffer)
              /\ ~(fields'[1].value = <<2>> /\ current.field = "transaction")
      /\ n + extra > Len(buffer) => buffer' = <<>>
      /\ buffer = <<>> => n = 0 /\ buffer' = <<>>
      /\ extra = 0 => ~(n + extra > Len(buffer))
  BY ConsumeAppends
<1>3. todo' = rest BY DEF Consume
<1>4. IsBlock(fields') = IsBlock(fields) BY <1>2 DEF IsBlock
<1>5. IsShort(fields') => buffer' = <<>> BY <1>1, <1>2 DEF EndsAsFormat
<1>6. IsDamaged(fields') /\ IsBlock(fields') => todo' # <<>> /\ ~InTransactions'
  BY <1>1, <1>2, <1>3, <1>4 DEF EndsAsFormat, EndNeedsBytes
<1>7. /\ IsShort(fields)' = IsShort(fields') /\ IsBlock(fields)' = IsBlock(fields')
      /\ IsDamaged(fields)' = IsDamaged(fields')
  BY DEF IsShort, IsBlock, IsDamaged, IsLastOfPush
<1> QED BY <1>2, <1>3, <1>5, <1>6, <1>7 DEF CursorInv, EndsAsFormat, KeepsFormat

\* A read of one value keeps what is known of the cursor and the fields.
LEMMA CursorScalar == TypeOK /\ CursorInv /\ ReadScalar => CursorInv'
<1> SUFFICES ASSUME TypeOK, CursorInv, ReadScalar PROVE CursorInv' OBVIOUS
<1>1. status = "reading" /\ todo # <<>> /\ current \in Scalar BY ReadScalarConsumes
<1>2. PICK n \in Nat, extra \in Nat, value \in Seq(Byte) :
        /\ Consume(n, extra, value, Tail(todo))
        /\ current.op = "number" => n = current.n /\ extra = 0
        /\ current.op = "tx" => n = 1
  BY ReadScalarConsumes
<1>3. current.op # "enum" /\ current.op # "items" /\ current.op # "array"
  BY DEF ReadScalar, ReadNumber, ReadBytes, ReadBitVec, ReadVecString, NoMetadata,
         ReadU8LengthPrefixedString, ParseStacksTransaction, Reads
<1>4. fields # <<>> /\ EndsAsFormat
  <2>1. Head(<<Enum("messageType")>>) = Enum("messageType") OBVIOUS
  <2> QED BY <1>1, <1>3, <2>1, EndsOfBlocks DEF CursorInv, current
<1>5. todo \in Seq(AnyRead) BY DEF TypeOK, AnyRead
<1>6. /\ Tail(todo) \in Seq(AnyRead)
      /\ Tail(todo) # <<>> => Final(Tail(todo)) = Final(todo)
      /\ Tail(todo) = <<>> => Final(todo) = current
  BY <1>1, <1>5, FinalOfTail DEF current
<1>7. todo' = Tail(todo) BY <1>2 DEF Consume
<1>8. Tail(todo) # <<>> /\ fields[1].value = <<0>> => EndsAsProposal'
  BY <1>1, <1>4, <1>6, <1>7 DEF EndsAsFormat, EndsAsProposal
<1>9. InTransactions => InTransactions' /\ Tail(todo) # <<>> /\ current = StacksTransaction
  <2> SUFFICES ASSUME InTransactions
               PROVE  InTransactions' /\ Tail(todo) # <<>> /\ current = StacksTransaction
    OBVIOUS
  <2>1. PICK k \in Nat : \/ todo = <<Items(Transactions, k)>>
                         \/ todo = <<StacksTransaction, Items(Transactions, k)>>
    BY DEF InTransactions
  <2>2. CASE todo = <<Items(Transactions, k)>>
    BY <1>3, <2>2, EndsOfBlocks DEF current
  <2>3. CASE todo = <<StacksTransaction, Items(Transactions, k)>>
    <3>1. Tail(todo) = <<Items(Transactions, k)>> /\ Head(todo) = StacksTransaction BY <2>3
    <3>2. todo' = <<Items(Transactions, k)>> /\ current = StacksTransaction
      BY <1>7, <3>1 DEF current
    <3>3. InTransactions' BY <3>2 DEF InTransactions, Transactions
    <3> QED BY <3>1, <3>2, <3>3
  <2> QED BY <2>1, <2>2, <2>3
<1>10. Tail(todo) # <<>> /\ fields[1].value = <<2>> => EndsAsPush'
  <2>1. ASSUME Tail(todo) # <<>>, Final(todo) = Transactions PROVE Final(todo') = Transactions
    BY <1>6, <1>7, <2>1
  <2>2. (Final(todo) = Transactions)' <=> Final(todo') = Transactions BY DEF Final, Transactions
  <2> QED BY <1>1, <1>4, <1>9, <2>1, <2>2 DEF EndsAsFormat, EndsAsPush
<1>11. IsBlock(fields) /\ (Tail(todo) = <<>> \/ InTransactions')
         => /\ n # 0
            /\ extra = 0 \/ (fields[1].value = <<2>> /\ current.field = "transaction")
  <2>1. CASE fields[1].value = <<0>> /\ Tail(todo) = <<>>
    <3>1. current = U64("rewardCycle") BY <1>1, <1>4, <1>6, <2>1 DEF EndsAsFormat, EndsAsProposal
    <3>2. extra = 0 /\ n = 8 BY <1>2, <3>1, EndsOfBlocks
    <3> QED BY <3>2
  <2>2. CASE fields[1].value = <<0>> /\ InTransactions' /\ Tail(todo) # <<>>
    <3>1. Final(todo') = U64("rewardCycle")
      BY <1>1, <1>4, <1>6, <1>7, <2>2 DEF EndsAsFormat, EndsAsProposal
    <3> QED BY <2>2, <3>1, EndsOfBlocks
  <2>3. CASE fields[1].value = <<2>> /\ InTransactions
    <3>1. current.op = "tx" /\ current.field = "transaction"
      BY <1>9, <2>3 DEF StacksTransaction, Read
    <3> QED BY <1>2, <2>3, <3>1
  <2>4. CASE fields[1].value = <<2>> /\ ~InTransactions
    <3>1. Final(todo) = Transactions BY <1>1, <1>4, <2>4 DEF EndsAsFormat, EndsAsPush
    <3>2. Tail(todo) # <<>> BY <1>3, <1>6, <3>1, EndsOfBlocks
    <3>3. Final(todo') = Transactions BY <1>6, <1>7, <3>1, <3>2
    <3>4. ~InTransactions' BY <3>3, EndsOfBlocks
    <3> QED BY <3>2, <3>4
  <2> QED BY <1>4, <2>1, <2>2, <2>3, <2>4 DEF IsBlock
<1> QED BY <1>1, <1>2, <1>4, <1>6, <1>8, <1>10, <1>11, ConsumeKeeps DEF KeepsFormat, EndNeedsBytes

\* So does the read of an enum, which puts the rest of the format in its place.
LEMMA CursorEnum == TypeOK /\ CursorInv /\ ReadU8Enum => CursorInv'
<1> SUFFICES ASSUME TypeOK, CursorInv, ReadU8Enum PROVE CursorInv' OBVIOUS
<1> DEFINE rest == Continuation(current.field, buffer[1]) \o Tail(todo)
<1>1. /\ status = "reading" /\ todo # <<>> /\ current.op = "enum" /\ Len(buffer) >= 1
      /\ Consume(1, 0, <<buffer[1]>>, rest)
  BY DEF ReadU8Enum, Reads
<1>2. <<buffer[1]>> \in Seq(Byte) /\ todo \in Seq(AnyRead)
  BY <1>1, SMT DEF TypeOK, AnyRead
<1>3. Continuation(current.field, buffer[1]) \in Seq(AnyRead) BY ContinuationTyped
<1>4. /\ Tail(todo) \in Seq(AnyRead)
      /\ Tail(todo) # <<>> => Final(Tail(todo)) = Final(todo)
      /\ Tail(todo) = <<>> => Final(todo) = current
  BY <1>1, <1>2, FinalOfTail DEF current
<1>5. /\ rest \in Seq(AnyRead)
      /\ Tail(todo) # <<>> => rest # <<>> /\ Final(rest) = Final(Tail(todo))
  <2>1. CASE Tail(todo) # <<>> BY <1>3, <1>4, <2>1, FinalOfConcatenation
  <2>2. CASE Tail(todo) = <<>> BY <1>3, <1>4, <2>2, ConcatProperties
  <2> QED BY <2>1, <2>2
<1> HIDE DEF rest
<1>6. todo' = rest BY <1>1 DEF Consume
<1>7. CASE fields = <<>>
  <2>1. /\ fields' # <<>> /\ fields'[1].value = <<buffer[1]>>
        /\ IsShort(fields') => IsShort(fields)
    <3>1. 1 \in Nat /\ 0 \in Nat OBVIOUS
    <3> QED BY <1>1, <1>2, <1>5, <1>7, <3>1, ConsumeAppends
  <2>2. ~IsShort(fields)
    <3>1. Len(fields) = 0 BY <1>7
    <3> QED BY <3>1, SMT DEF IsShort
  <2>3. todo = <<Enum("messageType")>> BY <1>1, <1>7 DEF CursorInv
  <2>4. Tail(todo) = <<>> /\ current = Enum("messageType") BY <2>3 DEF current
  <2>5. current.field = "messageType" BY <2>4 DEF Enum, Read
  <2>6. todo' = MessageFormat(buffer[1])
    BY <1>3, <1>6, <2>4, <2>5, ConcatEmptySeq DEF rest, Continuation
  <2>7. ASSUME fields'[1].value = << 0 >> PROVE Final(todo') = U64("rewardCycle")
    <3>1. buffer[1] = 0 BY <2>1, <2>7
    <3> QED BY <2>6, <3>1, BlockFormatsTyped DEF MessageFormat
  <2>8. ASSUME fields'[1].value = << 2 >> PROVE Final(todo') = Transactions
    <3>1. buffer[1] = 2 BY <2>1, <2>8
    <3> QED BY <2>6, <3>1, BlockFormatsTyped DEF MessageFormat, Transactions
  <2>9. ~IsShort(fields)' /\ ~IsDamaged(fields)'
    BY <2>1, <2>2 DEF IsShort, IsDamaged
  <2>10. fields'[1].value = <<0>> => EndsAsProposal' BY <2>7 DEF EndsAsProposal
  <2>11. fields'[1].value = <<2>> => EndsAsPush' BY <2>8 DEF EndsAsPush, Transactions
  <2> QED BY <2>1, <2>2, <2>9, <2>10, <2>11 DEF CursorInv, EndsAsFormat
<1>8. CASE fields # <<>>
  <2>1. EndsAsFormat BY <1>1, <1>8 DEF CursorInv
  <2>2. ASSUME fields[1].value = << 0 >> PROVE EndsAsProposal'
    <3>1. Final(todo) = U64("rewardCycle") BY <1>1, <2>1, <2>2 DEF EndsAsFormat, EndsAsProposal
    <3>2. Tail(todo) # <<>> BY <1>1, <1>4, <3>1, EndsOfBlocks
    <3> QED BY <1>4, <1>5, <1>6, <3>1, <3>2 DEF EndsAsProposal
  <2>3. ASSUME fields[1].value = << 2 >> PROVE EndsAsPush'
    <3>1. ~InTransactions BY <1>1, EndsOfBlocks DEF current
    <3>2. Final(todo) = Transactions BY <1>1, <2>1, <2>3, <3>1 DEF EndsAsFormat, EndsAsPush
    <3>3. Tail(todo) # <<>> BY <1>1, <1>4, <3>2, EndsOfBlocks
    <3>4. Final(todo') = Transactions BY <1>4, <1>5, <1>6, <3>2, <3>3
    <3> QED BY <3>4 DEF EndsAsPush, Transactions
  <2>4. 1 \in Nat /\ 0 \in Nat /\ 1 # 0 OBVIOUS
  <2> QED BY <1>1, <1>2, <1>5, <1>8, <2>2, <2>3, <2>4, ConsumeKeeps DEF KeepsFormat, EndNeedsBytes
<1> QED BY <1>7, <1>8

\* So does the read of an array's length.
LEMMA CursorArray == TypeOK /\ CursorInv /\ ReadArray => CursorInv'
<1> SUFFICES ASSUME TypeOK, CursorInv, ReadArray PROVE CursorInv' OBVIOUS
<1> DEFINE count == U32At(buffer, 1)
           rest == <<Items(current, count)>> \o Tail(todo)
<1>1. /\ status = "reading" /\ todo # <<>> /\ current.op = "array" /\ Len(buffer) >= 4
      /\ Consume(4, 0, Subarray(buffer, 0, 4), rest)
  BY DEF ReadArray, Reads
<1>2. todo \in Seq(AnyRead) /\ buffer \in Seq(Byte) /\ Subarray(buffer, 0, 4) \in Seq(Byte)
  BY SubarrayOfBytes DEF TypeOK, AnyRead
<1>3. /\ Tail(todo) \in Seq(AnyRead)
      /\ Tail(todo) # <<>> => Final(Tail(todo)) = Final(todo)
      /\ Tail(todo) = <<>> => Final(todo) = current
      /\ current \in AnyRead
  BY <1>1, <1>2, FinalOfTail DEF current
<1>4. count \in Nat
  <2>1. Len(buffer) \in Nat BY <1>2, SMT
  <2> QED BY <1>1, <1>2, <2>1, NumbersAreNat, SMT
<1>5. current \in Array BY <1>1, <1>3, SMT DEF AnyRead, Scalar, ScalarOps
<1>6. <<Items(current, count)>> \in Seq(AnyRead) BY <1>4, <1>5, ItemsTyped DEF AnyRead
<1>7. /\ rest \in Seq(AnyRead)
      /\ Tail(todo) # <<>> => rest # <<>> /\ Final(rest) = Final(Tail(todo))
      /\ Tail(todo) = <<>> => rest = <<Items(current, count)>>
  <2>1. CASE Tail(todo) # <<>> BY <1>3, <1>6, <2>1, FinalOfConcatenation
  <2>2. CASE Tail(todo) = <<>> BY <1>3, <1>6, <2>2, ConcatEmptySeq
  <2> QED BY <2>1, <2>2
<1> HIDE DEF rest, count
<1>8. todo' = rest BY <1>1 DEF Consume
<1>9. fields # <<>> /\ EndsAsFormat
  <2>1. Head(<<Enum("messageType")>>) = Enum("messageType") OBVIOUS
  <2> QED BY <1>1, <2>1, EndsOfBlocks DEF CursorInv, current
<1>10. ASSUME fields[1].value = << 0 >> PROVE EndsAsProposal'
  <2>1. Final(todo) = U64("rewardCycle") BY <1>1, <1>9, <1>10 DEF EndsAsFormat, EndsAsProposal
  <2>2. Tail(todo) # <<>> BY <1>1, <1>3, <2>1, EndsOfBlocks
  <2> QED BY <1>3, <1>7, <1>8, <2>1, <2>2 DEF EndsAsProposal
<1>11. ASSUME fields[1].value = << 2 >> PROVE EndsAsPush'
  <2>1. ~InTransactions BY <1>1, EndsOfBlocks DEF current
  <2>2. Final(todo) = Transactions BY <1>1, <1>9, <1>11, <2>1 DEF EndsAsFormat, EndsAsPush
  <2>3. CASE Tail(todo) # <<>>
    <3>1. Final(todo') = Transactions BY <1>3, <1>7, <1>8, <2>2, <2>3
    <3> QED BY <3>1 DEF EndsAsPush, Transactions
  <2>4. CASE Tail(todo) = <<>>
    <3>1. todo' = <<Items(Transactions, count)>> BY <1>3, <1>7, <1>8, <2>2, <2>4
    <3> QED BY <1>4, <3>1 DEF EndsAsPush, InTransactions, Transactions
  <2> QED BY <2>3, <2>4
<1>12. 4 \in Nat /\ 0 \in Nat /\ 4 # 0 OBVIOUS
<1> QED BY <1>1, <1>2, <1>7, <1>9, <1>10, <1>11, <1>12, ConsumeKeeps DEF KeepsFormat, EndNeedsBytes

\* So does the step to an array's next item.
LEMMA CursorItem == TypeOK /\ CursorInv /\ NextItem => CursorInv'
<1> SUFFICES ASSUME TypeOK, CursorInv, NextItem PROVE CursorInv' OBVIOUS
<1>1. /\ status = "reading" /\ todo # <<>> /\ current.op = "items"
      /\ fields' = fields /\ buffer' = buffer
      /\ todo' = IF current.n = 0 THEN Tail(todo)
                 ELSE current.item \o <<Items(current, current.n - 1)>> \o Tail(todo)
  BY DEF NextItem, ReadsOfItems, Reads
<1>2. todo \in Seq(AnyRead) BY DEF TypeOK, AnyRead
<1>3. /\ Tail(todo) \in Seq(AnyRead)
      /\ Tail(todo) # <<>> => Final(Tail(todo)) = Final(todo)
      /\ Tail(todo) = <<>> => Final(todo) = current
      /\ current \in AnyRead
  BY <1>1, <1>2, FinalOfTail DEF current
<1>4. fields # <<>> /\ EndsAsFormat
  <2>1. Head(<<Enum("messageType")>>) = Enum("messageType") OBVIOUS
  <2> QED BY <1>1, <2>1, EndsOfBlocks DEF CursorInv, current
<1>5. current \in Array /\ current.n \in Nat /\ current.item \in Seq(AnyRead)
  <2>1. current \in Array BY <1>1, <1>3, SMT DEF AnyRead, Scalar, ScalarOps
  <2>2. current.n \in Nat /\ current.item \in Seq(Scalar) BY <2>1 DEF Array
  <2> QED BY <2>1, <2>2, SeqMonotonic DEF AnyRead
<1>6. Tail(todo) # <<>> => todo' # <<>> /\ Final(todo') = Final(todo)
  <2> SUFFICES ASSUME Tail(todo) # <<>> PROVE todo' # <<>> /\ Final(todo') = Final(todo)
    OBVIOUS
  <2>1. CASE current.n = 0 BY <1>1, <1>3, <2>1
  <2>2. CASE current.n # 0
    <3>1. current.n - 1 \in Nat BY <1>5, <2>2, SMT
    <3>2. <<Items(current, current.n - 1)>> \in Seq(AnyRead)
      BY <1>5, <3>1, ItemsTyped DEF AnyRead
    <3>3. current.item \o <<Items(current, current.n - 1)>> \in Seq(AnyRead)
      BY <1>5, <3>2, ConcatProperties
    <3> QED BY <1>1, <1>3, <2>2, <3>3, FinalOfConcatenation
  <2> QED BY <2>1, <2>2
<1>7. InTransactions => todo' = <<>> \/ InTransactions'
  <2> SUFFICES ASSUME InTransactions PROVE todo' = <<>> \/ InTransactions' OBVIOUS
  <2>1. PICK k \in Nat : \/ todo = <<Items(Transactions, k)>>
                         \/ todo = <<StacksTransaction, Items(Transactions, k)>>
    BY DEF InTransactions
  <2>2. CASE todo = <<StacksTransaction, Items(Transactions, k)>>
    <3>1. current = StacksTransaction BY <2>2 DEF current
    <3> QED BY <1>1, <3>1, EndsOfBlocks
  <2>3. CASE todo = <<Items(Transactions, k)>>
    <3>1. current = Items(Transactions, k) /\ Tail(todo) = <<>> BY <2>3 DEF current
    <3>2. current.n = k /\ current.item = <<StacksTransaction>>
      BY <3>1 DEF Items, Transactions, ArrayOf
    <3>3. CASE k = 0 BY <1>1, <3>1, <3>2, <3>3
    <3>4. CASE k # 0
      <4>1. k - 1 \in Nat BY <3>4, SMT
      <4>2. Items(current, k - 1) = Items(Transactions, k - 1) BY <3>1, EndsOfBlocks
      <4>3. todo' = <<StacksTransaction>> \o <<Items(Transactions, k - 1)>> \o <<>>
        BY <1>1, <3>1, <3>2, <3>4, <4>2
      <4>4. StacksTransaction \in AnyRead /\ Items(Transactions, k - 1) \in AnyRead
        <5>1. Items(current, k - 1) \in AnyRead BY <1>5, <4>1, ItemsTyped DEF AnyRead
        <5>2. StacksTransaction \in Scalar BY NamesTyped, ReadsTyped
        <5> QED BY <4>2, <5>1, <5>2 DEF AnyRead
      <4>5. todo' = <<StacksTransaction, Items(Transactions, k - 1)>> BY <4>3, <4>4, PairOf
      <4> QED BY <4>1, <4>5 DEF InTransactions, Transactions
    <3> QED BY <3>3, <3>4
  <2> QED BY <2>1, <2>2, <2>3
<1>8. fields[1].value = <<0>> => EndsAsProposal' /\ todo' # <<>> /\ ~InTransactions'
  <2> SUFFICES ASSUME fields[1].value = << 0 >>
               PROVE  EndsAsProposal' /\ todo' # <<>> /\ ~InTransactions'
    OBVIOUS
  <2>1. Final(todo) = U64("rewardCycle") BY <1>1, <1>4 DEF EndsAsFormat, EndsAsProposal
  <2>2. Tail(todo) # <<>> BY <1>1, <1>3, <2>1, EndsOfBlocks
  <2>3. Final(todo') = U64("rewardCycle") /\ todo' # <<>> BY <1>6, <2>1, <2>2
  <2> QED BY <2>3, EndsOfBlocks DEF EndsAsProposal
<1>9. ~InTransactions /\ fields[1].value = <<2>> => EndsAsPush' /\ todo' # <<>> /\ ~InTransactions'
  <2> SUFFICES ASSUME ~InTransactions, fields[1].value = << 2 >>
               PROVE  EndsAsPush' /\ todo' # <<>> /\ ~InTransactions'
    OBVIOUS
  <2>1. Final(todo) = Transactions BY <1>1, <1>4 DEF EndsAsFormat, EndsAsPush
  <2>2. Tail(todo) # <<>> BY <1>1, <1>3, <2>1, EndsOfBlocks
  <2>3. Final(todo') = Transactions /\ todo' # <<>> BY <1>6, <2>1, <2>2
  <2> QED BY <2>3, EndsOfBlocks DEF EndsAsPush, Transactions
<1>10. todo' # <<>> /\ InTransactions => EndsAsPush' BY <1>7 DEF EndsAsPush
<1>11. /\ IsShort(fields)' = IsShort(fields) /\ IsBlock(fields)' = IsBlock(fields)
       /\ IsDamaged(fields)' = IsDamaged(fields)
  BY <1>1 DEF IsShort, IsBlock, IsDamaged, IsLastOfPush
<1>12. IsShort(fields) => buffer' = <<>> BY <1>1, <1>4 DEF EndsAsFormat
<1>13. IsDamaged(fields) /\ IsBlock(fields) => todo' # <<>> /\ ~InTransactions'
  BY <1>4, <1>8, <1>9 DEF EndsAsFormat, IsBlock
<1> QED BY <1>1, <1>4, <1>8, <1>9, <1>10, <1>11, <1>12, <1>13 DEF CursorInv, EndsAsFormat

\* The steps that are not reads.
LEMMA CursorOther ==
  /\ TypeOK /\ ParseSlot => CursorInv'
  /\ TypeOK /\ CursorInv /\ (SlotParsed \/ SlotThrows \/ ChunkParsed) => CursorInv'
<1>1. ParseSlot => CursorInv' BY DEF ParseSlot, CursorInv
<1>2. SlotParsed \/ SlotThrows \/ ChunkParsed => status' # "reading"
  BY DEF SlotParsed, SlotThrows, ChunkParsed
<1> QED BY <1>1, <1>2 DEF CursorInv

\* Every step keeps a block's end readable and the parsed blocks complete.
LEMMA BlockStep == IInv /\ [Next]_vars => IInv'
<1> SUFFICES ASSUME IInv, [Next]_vars PROVE IInv' OBVIOUS
<1>1. TypeOK' BY TypeStep DEF IInv
<1>2. CursorInv'
  <2>1. CASE ReadScalar BY <2>1, CursorScalar DEF IInv
  <2>2. CASE UNCHANGED vars
    BY <2>2 DEF IInv, CursorInv, vars, EndsAsFormat, EndsAsProposal, EndsAsPush, InTransactions,
                IsShort, IsDamaged, IsLastOfPush, IsBlock, Transactions
  <2> QED BY <2>1, <2>2, CursorEnum, CursorArray, CursorItem, CursorOther
        DEF IInv, Next, ReadScalar
<1>3. CompleteBlocks'
  <2>1. CASE SlotParsed
    <3>1. /\ status = "reading" /\ todo = <<>> /\ parsed' = Append(parsed, fields)
          /\ fields \in Seq(Field) /\ parsed \in Seq(Seq(Field))
      BY <2>1 DEF SlotParsed, IInv, TypeOK
    <3>2. fields # <<>> /\ EndsAsFormat
      <4>1. <<Enum("messageType")>> # <<>> OBVIOUS
      <4> QED BY <3>1, <4>1 DEF IInv, CursorInv
    <3>3. IsBlock(fields) => ~IsDamaged(fields) BY <3>1, <3>2 DEF EndsAsFormat
    <3>4. /\ Len(parsed) \in Nat /\ Len(parsed') = Len(parsed) + 1
          /\ \A i \in 1..Len(parsed) : parsed'[i] = parsed[i]
          /\ parsed'[Len(parsed) + 1] = fields
      <4>1. Len(parsed) \in Nat BY <3>1, SMT
      <4> QED BY <3>1, <4>1, AppendProperties
    <3>5. \A i \in 1..Len(parsed) : IsBlock(parsed[i]) => ~IsDamaged(parsed[i])
      BY DEF IInv, CompleteBlocks, IsDamaged
    <3>6. \A i \in 1..Len(parsed') : IsBlock(parsed'[i]) => ~IsDamaged(parsed'[i])
      <4> SUFFICES ASSUME NEW i \in 1..Len(parsed')
                   PROVE  IsBlock(parsed'[i]) => ~IsDamaged(parsed'[i])
        OBVIOUS
      <4>1. i \in 1..Len(parsed) \/ i = Len(parsed) + 1 BY <3>4, SMT
      <4> QED BY <3>3, <3>4, <3>5, <4>1
    <3> QED BY <3>6 DEF CompleteBlocks, IsBlock, IsDamaged, IsLastOfPush
  <2>2. CASE ~SlotParsed
    <3>1. parsed' = parsed
      BY <2>2 DEF Next, vars, ParseSlot, SlotThrows, ChunkParsed, ReadU8Enum, ReadNumber, ReadBytes,
                  ReadBitVec, ReadVecString, NoMetadata, ReadU8LengthPrefixedString, ReadArray,
                  NextItem, ParseStacksTransaction, Consume
    <3> QED BY <3>1 DEF IInv, CompleteBlocks, IsBlock, IsLastOfPush
  <2> QED BY <2>1, <2>2
<1> QED BY <1>1, <1>2, <1>3 DEF IInv

\* No block proposal is parsed with a field that was cut short, and no push but
\* with its last transaction cut short.
THEOREM BlocksAreComplete == Spec => []CompleteBlocks
<1>1. Init => IInv
  <2>1. Init => CursorInv BY DEF Init, CursorInv
  <2>2. Init => CompleteBlocks
    <3>1. Len(<<>>) = 0 OBVIOUS
    <3> QED BY <3>1, SMT DEF Init, CompleteBlocks
  <2> QED BY <2>1, <2>2, TypeInit DEF IInv
<1>2. IInv /\ [Next]_vars => IInv' BY BlockStep
<1>3. IInv => CompleteBlocks BY DEF IInv
<1> QED BY <1>1, <1>2, <1>3, PTL DEF Spec
------------------------------------------------------------------------------
(* The fixed fields are as sent. While a header is read the buffer is the  *)
(* slot's data behind the places of the fields read, and the reads to come *)
(* are those of the rest of the header; what is read behind it has other   *)
(* names, so that `Value` finds the field itself.                          *)

FixedNames == {FixedFields[k] : k \in 1..9}

IsOther(field) == field \notin FixedNames

\* A read, an array's items included, of no fixed field.
OtherRead(read) ==
  /\ read.op # "enum" /\ IsOther(read.field)
  /\ \A u \in 1..Len(read.item) : read.item[u].op # "enum" /\ IsOther(read.item[u].field)

\* The type and the fixed fields come first.
FixedSoFar(msg, data) ==
  /\ msg[1].field = "messageType"
  /\ \A j \in 2..Len(msg) :
       IF j <= 10
       THEN /\ msg[j].field = FixedFields[j - 1]
            /\ msg[j].value = Subarray(data, Place(j - 1).from, Place(j - 1).to)
       ELSE IsOther(msg[j].field)

\* What is to be read of a block of which n fields are read.
BlockReads(reads, n) ==
  /\ Len(reads) >= 10 - n
  /\ \A t \in 1..Len(reads) :
       IF t <= 10 - n THEN reads[t] = NakamotoBlockHeader[n - 1 + t] ELSE OtherRead(reads[t])

Behind(data, n) == Subarray(data, Place(n).from, Len(data))

LayoutOf(msg, reads, bytes, data) ==
  IsBlock(msg) => /\ FixedSoFar(msg, data)
                  /\ BlockReads(reads, Len(msg))
                  /\ Len(msg) < 10 => bytes = Behind(data, Len(msg))

\* The layout of the parsed messages, which only SlotParsed changes.
ParsedLayout ==
  \A i \in 1..Len(parsed) : IsBlock(parsed[i]) =>
    Len(parsed[i]) >= 10 /\ FixedSoFar(parsed[i], slots[i].data)

ReadingLayout ==
  /\ status = "reading" /\ fields = <<>> => todo = <<Enum("messageType")>> /\ buffer = slot.data
  /\ status = "reading" => LayoutOf(fields, todo, buffer, slot.data)

LInv == TypeOK /\ ParsedLayout /\ ReadingLayout

\* How many bytes subarray returns, and which.
LEMMA SubarrayElements ==
  ASSUME NEW b \in Seq(Byte), NEW from \in Nat, NEW to \in Nat
  PROVE  /\ Subarray(b, from, to) \in Seq(Byte)
         /\ Len(Subarray(b, from, to))
              = IF from < Least(to, Len(b)) THEN Least(to, Len(b)) - from ELSE 0
         /\ \A i \in 1..Len(Subarray(b, from, to)) : Subarray(b, from, to)[i] = b[from + i]
<1> DEFINE m == from + 1
           n == Least(to, Len(b))
           s == Subarray(b, from, to)
<1>1. Len(b) \in Nat /\ \A i \in 1..Len(b) : b[i] \in Byte BY SMT
<1>2. m \in Int /\ n \in Int /\ m >= 1 /\ n <= Len(b) /\ m = from + 1 BY <1>1, SMT DEF Least
<1>3. s = SubSeq(b, m, n) BY DEF Subarray
<1>n. n = Least(to, Len(b)) OBVIOUS
<1> HIDE DEF m, n, s
<1>4. \A i \in m..n : b[i] \in Byte BY <1>1, <1>2, SMT
<1>5. /\ SubSeq(b, m, n) \in Seq(Byte)
      /\ Len(SubSeq(b, m, n)) = IF m <= n THEN n - m + 1 ELSE 0
      /\ \A i \in 1 .. n - m + 1 : SubSeq(b, m, n)[i] = b[m + i - 1]
  BY <1>2, <1>4, SubSeqProperties
<1>6. Len(s) = IF from < n THEN n - from ELSE 0 BY <1>2, <1>3, <1>5, SMT
<1>7. ASSUME NEW i \in 1..Len(s) PROVE s[i] = b[from + i]
  <2>1. i \in 1 .. n - m + 1 /\ m + i - 1 = from + i BY <1>2, <1>6, SMT
  <2> QED BY <1>3, <1>5, <2>1
<1>8. s \in Seq(Byte) BY <1>3, <1>5
<1> QED BY <1>n, <1>6, <1>7, <1>8 DEF s

\* What is taken of what is left of some data has its place in the data.
LEMMA SubarrayTwice ==
  ASSUME NEW d \in Seq(Byte), NEW a \in Nat, NEW w \in Nat
  PROVE  LET rest == Subarray(d, a, Len(d))
         IN  /\ Subarray(rest, 0, w) = Subarray(d, a, a + w)
             /\ Subarray(rest, w, Len(rest)) = Subarray(d, a + w, Len(d))
<1> DEFINE rest == Subarray(d, a, Len(d))
<1>1. Len(d) \in Nat /\ a + w \in Nat /\ 0 \in Nat BY SMT
<1>2. /\ rest \in Seq(Byte)
      /\ Len(rest) = IF a < Least(Len(d), Len(d)) THEN Least(Len(d), Len(d)) - a ELSE 0
      /\ \A i \in 1..Len(rest) : rest[i] = d[a + i]
  BY <1>1, SubarrayElements
<1> HIDE DEF rest
<1>3. Len(rest) \in Nat /\ Len(rest) = IF a < Len(d) THEN Len(d) - a ELSE 0
  BY <1>1, <1>2, SMT DEF Least
<1>4. Subarray(rest, 0, w) = Subarray(d, a, a + w)
  <2> DEFINE s == Subarray(rest, 0, w)
             t == Subarray(d, a, a + w)
  <2>1. /\ s \in Seq(Byte)
        /\ Len(s) = IF 0 < Least(w, Len(rest)) THEN Least(w, Len(rest)) - 0 ELSE 0
        /\ \A i \in 1..Len(s) : s[i] = rest[0 + i]
    BY <1>1, <1>2, SubarrayElements
  <2>2. /\ t \in Seq(Byte)
        /\ Len(t) = IF a < Least(a + w, Len(d)) THEN Least(a + w, Len(d)) - a ELSE 0
        /\ \A i \in 1..Len(t) : t[i] = d[a + i]
    BY <1>1, SubarrayElements
  <2> HIDE DEF s, t
  <2>3. Len(s) = Len(t) /\ Len(s) <= Len(rest) BY <1>1, <1>3, <2>1, <2>2, SMT DEF Least
  <2>4. ASSUME NEW i \in 1..Len(s) PROVE s[i] = t[i]
    <3>1. 0 + i = i /\ i \in 1..Len(rest) /\ i \in 1..Len(t) BY <1>3, <2>3, SMT
    <3> QED BY <1>2, <2>1, <2>2, <3>1
  <2>5. s = t BY <2>1, <2>2, <2>3, <2>4, SeqEqual
  <2> QED BY <2>5 DEF s, t
<1>5. Subarray(rest, w, Len(rest)) = Subarray(d, a + w, Len(d))
  <2> DEFINE s == Subarray(rest, w, Len(rest))
             t == Subarray(d, a + w, Len(d))
  <2>1. /\ s \in Seq(Byte)
        /\ Len(s) = IF w < Least(Len(rest), Len(rest)) THEN Least(Len(rest), Len(rest)) - w ELSE 0
        /\ \A i \in 1..Len(s) : s[i] = rest[w + i]
    BY <1>2, <1>3, SubarrayElements
  <2>2. /\ t \in Seq(Byte)
        /\ Len(t) = IF a + w < Least(Len(d), Len(d)) THEN Least(Len(d), Len(d)) - (a + w) ELSE 0
        /\ \A i \in 1..Len(t) : t[i] = d[a + w + i]
    BY <1>1, SubarrayElements
  <2> HIDE DEF s, t
  <2>3. Len(s) = Len(t) /\ Len(s) = IF w < Len(rest) THEN Len(rest) - w ELSE 0
    BY <1>1, <1>3, <2>1, <2>2, SMT DEF Least
  <2>4. ASSUME NEW i \in 1..Len(s) PROVE s[i] = t[i]
    <3>1. w + i \in 1..Len(rest) /\ i \in 1..Len(t) /\ a + w + i = a + (w + i)
      BY <1>3, <2>3, SMT
    <3> QED BY <1>2, <2>1, <2>2, <3>1
  <2>5. s = t BY <2>1, <2>2, <2>3, <2>4, SeqEqual
  <2> QED BY <2>5 DEF s, t
<1> QED BY <1>4, <1>5 DEF rest

\* The reads of the fixed fields: their names and widths, and that they are adjacent.
LEMMA HeaderReads ==
  ASSUME NEW n \in 1..9
  PROVE  /\ NakamotoBlockHeader[n].op \in {"number", "bytes"}
         /\ NakamotoBlockHeader[n].field = FixedFields[n]
         /\ NakamotoBlockHeader[n].n \in Nat
         /\ Place(n).from \in Nat
         /\ Place(n).to = Place(n).from + NakamotoBlockHeader[n].n
         /\ Place(n + 1).from = Place(n).to
<1>1. /\ NakamotoBlockHeader[1] = U8("version") /\ NakamotoBlockHeader[2] = U64("chainLength")
      /\ NakamotoBlockHeader[3] = U64("burnSpent")
      /\ NakamotoBlockHeader[4] = Bytes("consensusHash", 20)
      /\ NakamotoBlockHeader[5] = Bytes("parentBlockId", 32)
      /\ NakamotoBlockHeader[6] = Bytes("txMerkleRoot", 32)
      /\ NakamotoBlockHeader[7] = Bytes("stateIndexRoot", 32)
      /\ NakamotoBlockHeader[8] = U64("timestamp")
      /\ NakamotoBlockHeader[9] = Bytes("minerSignature", 65)
  BY DEF NakamotoBlockHeader
<1>2. \A f, k : /\ U8(f).op = "number" /\ U8(f).field = f /\ U8(f).n = 1
                /\ U64(f).op = "number" /\ U64(f).field = f /\ U64(f).n = 8
                /\ Bytes(f, k).op = "bytes" /\ Bytes(f, k).field = f /\ Bytes(f, k).n = k
  BY DEF U8, U64, Bytes, Read
<1>3. /\ FixedFields[1] = "version" /\ FixedFields[2] = "chainLength"
      /\ FixedFields[3] = "burnSpent" /\ FixedFields[4] = "consensusHash"
      /\ FixedFields[5] = "parentBlockId" /\ FixedFields[6] = "txMerkleRoot"
      /\ FixedFields[7] = "stateIndexRoot" /\ FixedFields[8] = "timestamp"
      /\ FixedFields[9] = "minerSignature"
  BY DEF FixedFields
<1>4. \A k \in 1..10 : /\ Place(k).from = IF k = 1 THEN 1 ELSE FieldEnds[k - 1]
                       /\ Place(k).to = FieldEnds[k]
  BY DEF Place
<1>5. /\ FieldEnds[1] = 2 /\ FieldEnds[2] = 10 /\ FieldEnds[3] = 18 /\ FieldEnds[4] = 38
      /\ FieldEnds[5] = 70 /\ FieldEnds[6] = 102 /\ FieldEnds[7] = 134 /\ FieldEnds[8] = 142
      /\ FieldEnds[9] = 207
  BY DEF FieldEnds
<1>6. n = 1 \/ n = 2 \/ n = 3 \/ n = 4 \/ n = 5 \/ n = 6 \/ n = 7 \/ n = 8 \/ n = 9 BY SMT
<1>7. /\ NakamotoBlockHeader[n].op \in {"number", "bytes"}
      /\ NakamotoBlockHeader[n].field = FixedFields[n]
  <2>1. CASE n \in 1..3
    <3>1. n = 1 \/ n = 2 \/ n = 3 BY <2>1, SMT
    <3> QED BY <1>1, <1>2, <1>3, <3>1
  <2>2. CASE n \in 4..7
    <3>1. n = 4 \/ n = 5 \/ n = 6 \/ n = 7 BY <2>2, SMT
    <3> QED BY <1>1, <1>2, <1>3, <3>1
  <2>3. CASE n \in 8..9
    <3>1. n = 8 \/ n = 9 BY <2>3, SMT
    <3> QED BY <1>1, <1>2, <1>3, <3>1
  <2> QED BY <2>1, <2>2, <2>3, SMT
<1>8. n \in 1..10 /\ n + 1 \in 1..10 /\ n + 1 # 1 /\ n + 1 - 1 = n BY SMT
<1>9. Place(n + 1).from = Place(n).to BY <1>4, <1>8
<1>10. /\ Place(n).from = IF n = 1 THEN 1 ELSE FieldEnds[n - 1]
       /\ Place(n).to = FieldEnds[n]
  BY <1>4, <1>8
<1>11. CASE n = 1 BY <1>1, <1>2, <1>5, <1>7, <1>9, <1>10, <1>11
<1>12. CASE n = 2 BY <1>1, <1>2, <1>5, <1>7, <1>9, <1>10, <1>12
<1>13. CASE n = 3 BY <1>1, <1>2, <1>5, <1>7, <1>9, <1>10, <1>13
<1>14. CASE n = 4 BY <1>1, <1>2, <1>5, <1>7, <1>9, <1>10, <1>14
<1>15. CASE n = 5 BY <1>1, <1>2, <1>5, <1>7, <1>9, <1>10, <1>15
<1>16. CASE n = 6 BY <1>1, <1>2, <1>5, <1>7, <1>9, <1>10, <1>16
<1>17. CASE n = 7 BY <1>1, <1>2, <1>5, <1>7, <1>9, <1>10, <1>17
<1>18. CASE n = 8 BY <1>1, <1>2, <1>5, <1>7, <1>9, <1>10, <1>18
<1>19. CASE n = 9 BY <1>1, <1>2, <1>5, <1>7, <1>9, <1>10, <1>19
<1> QED BY <1>6, <1>11, <1>12, <1>13, <1>14, <1>15, <1>16, <1>17, <1>18, <1>19

\* No two fixed fields have one name, and none is the message type.
LEMMA FixedNamesDiffer ==
  /\ \A j, k \in 1..9 : FixedFields[j] = FixedFields[k] => j = k
  /\ \A k \in 1..9 : FixedFields[k] # "messageType" /\ FixedFields[k] \in FixedNames
<1>1. FixedNames = {"version", "chainLength", "burnSpent", "consensusHash", "parentBlockId",
                    "txMerkleRoot", "stateIndexRoot", "timestamp", "minerSignature"}
  BY SMT DEF FixedNames, FixedFields
<1>2. \A k \in 1..9 : FixedFields[k] \in FixedNames BY DEF FixedNames
<1>3. \A k \in 1..9 : FixedFields[k] # "messageType" BY <1>1, <1>2, Zenon
<1>4. \A j, k \in 1..9 : FixedFields[j] = FixedFields[k] => j = k BY SMT DEF FixedFields
<1> QED BY <1>2, <1>3, <1>4

\* Reads of other fields that are no enums.
LEMMA ScalarsAreOther ==
  ASSUME NEW r, r.op # "enum", IsOther(r.field), r.item = <<>>
  PROVE  OtherRead(r)
<1>1. Len(r.item) = 0 BY Len(<<>>) = 0
<1>2. \A u \in 1..Len(r.item) : FALSE BY <1>1, SMT
<1> QED BY <1>2 DEF OtherRead

\* An array of reads behind the header is itself one of them.
LEMMA ArraysAreOther ==
  ASSUME NEW field, IsOther(field), NEW r, r.op # "enum", IsOther(r.field)
  PROVE  OtherRead(ArrayOf(field, <<r>>))
<1>1. ArrayOf(field, <<r>>).item = <<r>> /\ ArrayOf(field, <<r>>).op = "array"
      /\ ArrayOf(field, <<r>>).field = field
  BY DEF ArrayOf
<1>2. Len(<<r>>) = 1 /\ <<r>>[1] = r OBVIOUS
<1>3. \A u \in 1..1 : u = 1 BY SMT
<1> QED BY <1>1, <1>2, <1>3 DEF OtherRead

\* A proposal and a push begin with the header, and have no other field of the
\* fixed fields' names.
LEMMA BlocksBeginWithHeader == BlockReads(BlockProposal, 1) /\ BlockReads(BlockPushed, 1)
<1> DEFINE signatures == ArrayOf("signerSignature", <<Bytes("signerSignature", 65)>>)
           transactions == ArrayOf("tx", <<StacksTransaction>>)
<1>1. /\ IsOther("signerSignature") /\ IsOther("poxTreatment") /\ IsOther("tx")
      /\ IsOther("transaction") /\ IsOther("burnHeight") /\ IsOther("rewardCycle")
  BY SMT DEF IsOther, FixedNames, FixedFields
<1>2. /\ Bytes("signerSignature", 65).op # "enum"
      /\ Bytes("signerSignature", 65).field = "signerSignature"
      /\ StacksTransaction.op # "enum" /\ StacksTransaction.field = "transaction"
  BY DEF Bytes, StacksTransaction, Read
<1>3. OtherRead(signatures) /\ OtherRead(transactions) BY <1>1, <1>2, ArraysAreOther
<1>4. OtherRead(BitVec("poxTreatment"))
  <2>1. /\ BitVec("poxTreatment").op # "enum" /\ BitVec("poxTreatment").field = "poxTreatment"
        /\ BitVec("poxTreatment").item = <<>>
    BY DEF BitVec, Read
  <2> QED BY <1>1, <2>1, ScalarsAreOther
<1>5. OtherRead(U64("burnHeight")) /\ OtherRead(U64("rewardCycle"))
  <2>1. \A f : U64(f).op # "enum" /\ U64(f).field = f /\ U64(f).item = <<>> BY DEF U64, Read
  <2> QED BY <1>1, <2>1, ScalarsAreOther
<1>a. <<Bytes("signerSignature", 65)>> \in Seq(Scalar) /\ <<StacksTransaction>> \in Seq(Scalar)
  BY NamesTyped, ReadsTyped
<1>6. signatures \in AnyRead /\ transactions \in AnyRead
  BY <1>a, NamesTyped, ArraysTyped DEF AnyRead
<1> HIDE DEF transactions, signatures
<1>7. /\ NakamotoBlockHeader \in Seq(AnyRead) /\ Len(NakamotoBlockHeader) = 11
      /\ NakamotoBlockHeader[10] = signatures
      /\ NakamotoBlockHeader[11] = BitVec("poxTreatment")
  <2>1. NakamotoBlockHeader \in Seq(AnyRead)
    BY <1>6, NamesTyped, ReadsTyped DEF NakamotoBlockHeader, AnyRead, signatures
  <2> QED BY <2>1 DEF NakamotoBlockHeader, signatures
<1>8. <<transactions>> \in Seq(AnyRead) /\ Len(<<transactions>>) = 1
      /\ <<transactions>>[1] = transactions
  BY <1>6
<1>9. /\ NakamotoBlock \in Seq(AnyRead) /\ Len(NakamotoBlock) = 12
      /\ \A i \in 1..12 : NakamotoBlock[i] = IF i <= 11 THEN NakamotoBlockHeader[i]
                                                        ELSE <<transactions>>[i - 11]
  <2>1. NakamotoBlock = NakamotoBlockHeader \o <<transactions>> BY DEF NakamotoBlock, transactions
  <2>2. Len(NakamotoBlockHeader) + Len(<<transactions>>) = 12 BY <1>7, <1>8
  <2> DEFINE s == NakamotoBlockHeader
             t == <<transactions>>
  <2>3. /\ s \in Seq(AnyRead) /\ t \in Seq(AnyRead) /\ Len(s) = 11 /\ Len(s) + Len(t) = 12
        /\ NakamotoBlock = s \o t
    BY <1>7, <1>8, <2>1, <2>2
  <2> HIDE DEF s, t
  <2>4. /\ s \o t \in Seq(AnyRead) /\ Len(s \o t) = 12
        /\ \A i \in 1..12 : (s \o t)[i] = IF i <= 11 THEN s[i] ELSE t[i - 11]
    <3>1. /\ s \o t \in Seq(AnyRead) /\ Len(s \o t) = Len(s) + Len(t)
          /\ \A i \in 1 .. Len(s) + Len(t) :
               (s \o t)[i] = IF i <= Len(s) THEN s[i] ELSE t[i - Len(s)]
      BY <2>3, ConcatProperties
    <3> QED BY <2>3, <3>1
  <2> QED BY <2>3, <2>4 DEF s, t
<1>10. NakamotoBlock[12] = transactions
  <2>1. 12 \in 1..12 /\ ~(12 <= 11) /\ 12 - 11 = 1 BY SMT
  <2> QED BY <1>8, <1>9, <2>1
<1>11. ASSUME NEW t \in 1..12
       PROVE  IF t <= 9 THEN NakamotoBlock[t] = NakamotoBlockHeader[t]
                        ELSE OtherRead(NakamotoBlock[t])
  <2>1. CASE t <= 9
    <3>1. t <= 11 BY <2>1, SMT
    <3> QED BY <1>9, <2>1, <3>1
  <2>2. CASE ~(t <= 9)
    <3>1. t = 10 \/ t = 11 \/ t = 12 BY <2>2, SMT
    <3>2. 10 \in 1..12 /\ 10 <= 11 /\ 11 \in 1..12 /\ 11 <= 11 BY SMT
    <3>3. NakamotoBlock[10] = signatures /\ NakamotoBlock[11] = BitVec("poxTreatment")
      BY <1>7, <1>9, <3>2
    <3> QED BY <1>3, <1>4, <1>10, <2>2, <3>1, <3>3
  <2> QED BY <2>1, <2>2
<1>12. BlockReads(BlockPushed, 1)
  <2>1. 10 - 1 = 9 /\ 12 >= 9 /\ \A t \in 1..12 : 1 - 1 + t = t BY SMT
  <2> QED BY <1>9, <1>11, <2>1 DEF BlockReads, BlockPushed
<1>13. BlockReads(BlockProposal, 1)
  <2> DEFINE burn == <<U64("burnHeight"), U64("rewardCycle")>>
  <2>1. /\ burn \in Seq(AnyRead) /\ Len(burn) = 2
        /\ burn[1] = U64("burnHeight") /\ burn[2] = U64("rewardCycle")
    BY NamesTyped, ReadsTyped DEF AnyRead
  <2>2. BlockProposal = NakamotoBlock \o burn BY DEF BlockProposal
  <2> HIDE DEF burn
  <2>3. NakamotoBlock \in Seq(AnyRead) /\ Len(NakamotoBlock) = 12 BY <1>9
  <2>a. Len(NakamotoBlock) + Len(burn) = 14 BY <2>1, <2>3
  <2>b. burn \in Seq(AnyRead) BY <2>1
  <2>c. /\ Len(NakamotoBlock \o burn) = 14
        /\ \A i \in 1..14 : (NakamotoBlock \o burn)[i]
                               = IF i <= 12 THEN NakamotoBlock[i] ELSE burn[i - 12]
    <3>1. /\ Len(NakamotoBlock \o burn) = Len(NakamotoBlock) + Len(burn)
          /\ \A i \in 1 .. Len(NakamotoBlock) + Len(burn) :
               (NakamotoBlock \o burn)[i]
                 = IF i <= Len(NakamotoBlock) THEN NakamotoBlock[i] ELSE burn[i - Len(NakamotoBlock)]
      BY <2>3, <2>b, ConcatProperties
    <3> QED BY <2>3, <2>a, <3>1
  <2>4. /\ Len(BlockProposal) = 14
        /\ \A i \in 1..14 : BlockProposal[i] = IF i <= 12 THEN NakamotoBlock[i] ELSE burn[i - 12]
    BY <2>2, <2>c
  <2>5. ASSUME NEW t \in 1..14
        PROVE  IF t <= 9 THEN BlockProposal[t] = NakamotoBlockHeader[t]
                         ELSE OtherRead(BlockProposal[t])
    <3>1. CASE t <= 12
      <4>1. t \in 1..12 BY <3>1, SMT
      <4> QED BY <1>11, <2>4, <3>1, <4>1
    <3>2. CASE ~(t <= 12)
      <4>1. t - 12 = 1 \/ t - 12 = 2 BY <3>2, SMT
      <4>2. ~(t <= 9) BY <3>2, SMT
      <4>3. BlockProposal[t] = burn[t - 12] BY <2>4, <3>2
      <4> QED BY <1>5, <2>1, <4>1, <4>2, <4>3
    <3> QED BY <3>1, <3>2
  <2>6. 10 - 1 = 9 /\ 14 >= 9 /\ \A t \in 1..14 : 1 - 1 + t = t BY SMT
  <2> QED BY <2>4, <2>5, <2>6 DEF BlockReads
<1> QED BY <1>12, <1>13

\* With the fixed fields in their places, `Value` finds each of them.
LEMMA ValueOfFixed ==
  ASSUME NEW msg \in Seq(Field), NEW data, Len(msg) >= 10, FixedSoFar(msg, data), NEW k \in 1..9
  PROVE  Value(msg, FixedFields[k]) = Subarray(data, Place(k).from, Place(k).to)
<1>1. Len(msg) \in Nat /\ DOMAIN msg = 1..Len(msg) BY LenProperties
<1>2. /\ k + 1 \in 2..Len(msg) /\ k + 1 \in 1..Len(msg) /\ k + 1 <= 10 /\ k + 1 - 1 = k
  BY <1>1, SMT
<1>3. /\ msg[k + 1].field = FixedFields[k]
      /\ msg[k + 1].value = Subarray(data, Place(k).from, Place(k).to)
  BY <1>2 DEF FixedSoFar
<1>4. ASSUME NEW i \in DOMAIN msg, msg[i].field = FixedFields[k]
      PROVE  i = k + 1
  <2>1. i \in 1..Len(msg) BY <1>1
  <2>2. i # 1 BY <1>4, FixedNamesDiffer DEF FixedSoFar
  <2>3. i \in 2..Len(msg) BY <1>1, <2>1, <2>2, SMT
  <2>4. i <= 10
    <3>1. ~IsOther(msg[i].field) BY <1>4, FixedNamesDiffer DEF IsOther
    <3> QED BY <2>3, <3>1 DEF FixedSoFar
  <2>5. msg[i].field = FixedFields[i - 1] BY <2>3, <2>4 DEF FixedSoFar
  <2>6. i - 1 \in 1..9 BY <2>3, <2>4, SMT
  <2>7. i - 1 = k BY <1>4, <2>5, <2>6, FixedNamesDiffer
  <2> QED BY <2>3, <2>7, SMT
<1> DEFINE found == CHOOSE i \in DOMAIN msg : msg[i].field = FixedFields[k]
<1>5. found \in DOMAIN msg /\ msg[found].field = FixedFields[k] BY <1>1, <1>2, <1>3
<1>6. Value(msg, FixedFields[k]) = msg[found].value BY DEF Value
<1> HIDE DEF found
<1>7. found = k + 1 BY <1>4, <1>5
<1> QED BY <1>3, <1>6, <1>7

\* What a read does to the fields.
LEMMA ConsumeAddsField ==
  ASSUME TypeOK, status = "reading", todo # <<>>,
         NEW n \in Nat, NEW extra \in Nat, NEW value \in Seq(Byte), NEW rest \in Seq(AnyRead),
         Consume(n, extra, value, rest)
  PROVE  /\ todo' = rest /\ slots' = slots /\ parsed' = parsed /\ status' = "reading"
         /\ Len(fields) \in Nat /\ Len(fields') = Len(fields) + 1
         /\ \A i \in 1..Len(fields) : fields'[i] = fields[i]
         /\ fields'[Len(fields) + 1].field = current.field
         /\ fields'[Len(fields) + 1].value = value
<1> DEFINE f == [field |-> current.field, value |-> value,
                 missing |-> n + extra - Least(n + extra, Len(buffer))]
<1>1. fields \in Seq(Field) /\ Len(buffer) \in Nat BY SMT DEF TypeOK
<1>2. current.field \in FieldNames
  <2>1. current \in AnyRead BY HeadTailProperties DEF TypeOK, current, AnyRead
  <2> QED BY <2>1 DEF AnyRead, Scalar, Array
<1>3. n + extra - Least(n + extra, Len(buffer)) \in Nat BY <1>1, SMT DEF Least
<1>4. f \in Field BY <1>2, <1>3 DEF Field
<1>5. f.field = current.field /\ f.value = value OBVIOUS
<1>6. fields' = Append(fields, f) BY DEF Consume
<1>7. todo' = rest /\ slots' = slots /\ parsed' = parsed /\ status' = "reading" BY DEF Consume
<1> HIDE DEF f
<1>8. /\ Len(fields') = Len(fields) + 1
      /\ \A i \in 1..Len(fields) : fields'[i] = fields[i]
      /\ fields'[Len(fields) + 1] = f
  BY <1>1, <1>4, <1>6, AppendProperties
<1> QED BY <1>1, <1>5, <1>7, <1>8, LenProperties

\* A field that is appended to a message that is not empty keeps its kind.
LEMMA SameKind ==
  ASSUME NEW msg, msg # <<>>, NEW longer, longer[1] = msg[1], longer # <<>>
  PROVE  IsBlock(longer) = IsBlock(msg)
BY DEF IsBlock

\* One more field of a block: in its place if it is a fixed one, else of another name.
LEMMA OneMoreField ==
  ASSUME NEW msg, NEW longer, NEW data, FixedSoFar(msg, data),
         Len(msg) \in Nat \ {0}, Len(longer) = Len(msg) + 1,
         \A i \in 1..Len(msg) : longer[i] = msg[i],
         IF Len(msg) <= 9
         THEN /\ longer[Len(msg) + 1].field = FixedFields[Len(msg)]
              /\ longer[Len(msg) + 1].value
                   = Subarray(data, Place(Len(msg)).from, Place(Len(msg)).to)
         ELSE IsOther(longer[Len(msg) + 1].field)
  PROVE  FixedSoFar(longer, data)
<1>1. longer[1].field = "messageType"
  <2>1. 1 \in 1..Len(msg) BY SMT
  <2> QED BY <2>1 DEF FixedSoFar
<1>2. ASSUME NEW j \in 2..Len(longer)
      PROVE  IF j <= 10
             THEN /\ longer[j].field = FixedFields[j - 1]
                  /\ longer[j].value = Subarray(data, Place(j - 1).from, Place(j - 1).to)
             ELSE IsOther(longer[j].field)
  <2>1. CASE j \in 2..Len(msg)
    <3>1. j \in 1..Len(msg) BY <2>1, SMT
    <3>2. longer[j] = msg[j] BY <3>1
    <3> QED BY <2>1, <3>2 DEF FixedSoFar
  <2>2. CASE j = Len(msg) + 1
    <3>1. j - 1 = Len(msg) /\ (j <= 10 <=> Len(msg) <= 9) BY <2>2, SMT
    <3> QED BY <2>2, <3>1
  <2> QED BY <2>1, <2>2, SMT
<1> QED BY <1>1, <1>2 DEF FixedSoFar

\* Without its first, the reads to come of a block are those after one more field.
LEMMA OneReadLess ==
  ASSUME NEW reads \in Seq(AnyRead), NEW n \in Nat \ {0}, BlockReads(reads, n), reads # <<>>
  PROVE  BlockReads(Tail(reads), n + 1)
<1>1. /\ Len(Tail(reads)) = Len(reads) - 1 /\ Len(reads) \in Nat \ {0}
      /\ \A i \in 1..Len(Tail(reads)) : Tail(reads)[i] = reads[i + 1]
  BY HeadTailProperties, EmptySeq
<1>2. Len(Tail(reads)) >= 10 - (n + 1)
  <2>1. Len(reads) >= 10 - n BY DEF BlockReads
  <2> QED BY <1>1, <2>1, SMT
<1>3. ASSUME NEW t \in 1..Len(Tail(reads))
      PROVE  IF t <= 10 - (n + 1) THEN Tail(reads)[t] = NakamotoBlockHeader[n + 1 - 1 + t]
                                  ELSE OtherRead(Tail(reads)[t])
  <2>1. /\ t + 1 \in 1..Len(reads) /\ n - 1 + (t + 1) = n + 1 - 1 + t
        /\ t <= 10 - (n + 1) <=> t + 1 <= 10 - n
    BY <1>1, SMT
  <2>2. IF t + 1 <= 10 - n THEN reads[t + 1] = NakamotoBlockHeader[n - 1 + (t + 1)]
                           ELSE OtherRead(reads[t + 1])
    BY <2>1 DEF BlockReads
  <2> QED BY <1>1, <2>1, <2>2
<1> QED BY <1>2, <1>3 DEF BlockReads

\* The first read to come of a block: the next of the header, or another one.
LEMMA FirstRead ==
  ASSUME NEW reads \in Seq(AnyRead), NEW n \in Nat \ {0}, BlockReads(reads, n), reads # <<>>
  PROVE  IF n <= 9 THEN Head(reads) = NakamotoBlockHeader[n] ELSE OtherRead(Head(reads))
<1>1. Len(reads) \in Nat \ {0} BY EmptySeq
<1>2. Head(reads) = reads[1] /\ 1 \in 1..Len(reads) BY <1>1, SMT
<1>3. (1 <= 10 - n <=> n <= 9) /\ n - 1 + 1 = n BY SMT
<1> QED BY <1>2, <1>3 DEF BlockReads


\* While a message is read there is a slot it is read from.
LEMMA ReadingSlot ==
  ASSUME TypeOK, status = "reading"
  PROVE  slot \in Slot /\ slot.data \in Seq(Byte)
<1>1. Len(parsed) \in Nat /\ Len(slots) \in Nat /\ Len(parsed) < Len(slots)
  BY LenProperties DEF TypeOK
<1>2. Len(parsed) + 1 \in 1..Len(slots) BY <1>1, SMT
<1>3. slot \in Slot BY <1>2, ElementOfSeq DEF TypeOK, slot
<1> QED BY <1>3 DEF Slot

\* What a read must leave true of the message it reads.
LEMMA ReadKeepsLayout ==
  ASSUME fields' # <<>>, slots' = slots, parsed' = parsed,
         LayoutOf(fields', todo', buffer', slot.data)
  PROVE  ReadingLayout'
<1>1. slot' = slot BY DEF slot
<1>2. LayoutOf(fields, todo, buffer, slot.data)' = LayoutOf(fields', todo', buffer', slot'.data)
  BY DEF LayoutOf, IsBlock, FixedSoFar, BlockReads, Behind
<1> QED BY <1>1, <1>2 DEF ReadingLayout

\* A number or a number of bytes is taken from the front of the buffer.
LEMMA PlainRead ==
  ASSUME TypeOK, ReadScalar, current.op \in {"number", "bytes"}
  PROVE  \E n, extra \in Nat :
           /\ n + extra = current.n
           /\ Consume(n, extra, Subarray(buffer, 0, current.n), Tail(todo))
<1>1. current.n \in Nat
  <2>1. current \in Scalar BY ReadScalarConsumes
  <2> QED BY <2>1 DEF Scalar
<1>2. current.n + 0 = current.n /\ 0 + current.n = current.n /\ 0 \in Nat BY <1>1, SMT
<1>3. ReadNumber \/ ReadBytes
  BY DEF ReadScalar, ReadNumber, ReadBytes, ReadBitVec, ReadVecString, NoMetadata,
         ReadU8LengthPrefixedString, ParseStacksTransaction, Reads
<1>4. CASE ReadNumber BY <1>1, <1>2, <1>4 DEF ReadNumber
<1>5. CASE ReadBytes BY <1>1, <1>2, <1>5 DEF ReadBytes
<1> QED BY <1>3, <1>4, <1>5

\* A message is empty only before its type is read.
LEMMA TypeIsRead ==
  ASSUME TypeOK, ReadingLayout, status = "reading", current.op # "enum"
  PROVE  fields # <<>> /\ Len(fields) \in Nat \ {0}
<1>1. fields # <<>>
  <2> SUFFICES ASSUME fields = <<>> PROVE FALSE OBVIOUS
  <2>1. todo = <<Enum("messageType")>> BY DEF ReadingLayout
  <2>2. current = Enum("messageType") BY <2>1 DEF current
  <2> QED BY <2>2 DEF Enum, Read
<1> QED BY <1>1, EmptySeq DEF TypeOK

\* A read of one value leaves each fixed field in its place.
LEMMA LayoutScalar ==
  ASSUME TypeOK, ReadingLayout, ReadScalar
  PROVE  ReadingLayout'
<1>1. status = "reading" /\ todo # <<>> BY ReadScalarConsumes
<1>2. current.op # "enum"
  BY DEF ReadScalar, ReadNumber, ReadBytes, ReadBitVec, ReadVecString, NoMetadata,
         ReadU8LengthPrefixedString, ParseStacksTransaction, Reads
<1>3. fields # <<>> /\ Len(fields) \in Nat \ {0} BY <1>1, <1>2, TypeIsRead
<1>4. /\ todo \in Seq(AnyRead) /\ Tail(todo) \in Seq(AnyRead)
      /\ \A from, to \in Nat : Subarray(buffer, from, to) \in Seq(Byte)
  <2>1. todo \in Seq(AnyRead) /\ buffer \in Seq(Byte) BY DEF TypeOK, AnyRead
  <2> QED BY <1>1, <2>1, HeadTailProperties, SubarrayOfBytes
<1>5. PICK n \in Nat, extra \in Nat, value \in Seq(Byte) :
        /\ Consume(n, extra, value, Tail(todo))
        /\ current.op \in {"number", "bytes"}
             => n + extra = current.n /\ value = Subarray(buffer, 0, current.n)
  <2>1. CASE current.op \in {"number", "bytes"}
    <3>1. PICK n, extra \in Nat : /\ n + extra = current.n
                                  /\ Consume(n, extra, Subarray(buffer, 0, current.n), Tail(todo))
      BY <2>1, PlainRead
    <3>2. current.n \in Nat /\ 0 \in Nat BY <3>1, SMT
    <3>3. Subarray(buffer, 0, current.n) \in Seq(Byte) BY <1>4, <3>2
    <3> QED BY <3>1, <3>3
  <2>2. CASE current.op \notin {"number", "bytes"}
    <3>1. \E n, extra \in Nat, value \in Seq(Byte) : Consume(n, extra, value, Tail(todo))
      BY ReadScalarConsumes
    <3> QED BY <2>2, <3>1
  <2> QED BY <2>1, <2>2
<1>6. /\ todo' = Tail(todo) /\ slots' = slots /\ parsed' = parsed
      /\ Len(fields') = Len(fields) + 1
      /\ \A i \in 1..Len(fields) : fields'[i] = fields[i]
      /\ fields'[Len(fields) + 1].field = current.field
      /\ fields'[Len(fields) + 1].value = value
  BY <1>1, <1>4, <1>5, ConsumeAddsField
<1>7. fields' # <<>> /\ fields'[1] = fields[1]
  <2>1. Len(fields') # 0 /\ 1 \in 1..Len(fields) BY <1>3, <1>6, SMT
  <2>2. fields' # <<>>
    <3>1. Len(<<>>) = 0 OBVIOUS
    <3> QED BY <2>1, <3>1
  <2> QED BY <1>6, <2>1, <2>2
<1>8. IsBlock(fields') = IsBlock(fields) BY <1>3, <1>7, SameKind
<1> SUFFICES ASSUME IsBlock(fields) PROVE LayoutOf(fields', todo', buffer', slot.data)
  BY <1>6, <1>7, <1>8, ReadKeepsLayout DEF LayoutOf
<1>9. /\ FixedSoFar(fields, slot.data) /\ BlockReads(todo, Len(fields))
      /\ Len(fields) < 10 => buffer = Behind(slot.data, Len(fields))
  BY <1>1 DEF ReadingLayout, LayoutOf
<1>10. BlockReads(todo', Len(fields')) BY <1>1, <1>3, <1>4, <1>6, <1>9, OneReadLess
<1>11. IF Len(fields) <= 9 THEN current = NakamotoBlockHeader[Len(fields)]
                           ELSE OtherRead(current)
  BY <1>1, <1>3, <1>4, <1>9, FirstRead DEF current
<1>12. CASE Len(fields) <= 9
  <2>0. \A m \in Nat \ {0} : m <= 9 => m \in 1..9 /\ m < 10 BY SMT
  <2>a. Len(fields) \in 1..9 /\ Len(fields) < 10 BY <1>3, <1>12, <2>0
  <2>1. PICK k \in 1..9 : k = Len(fields) BY <2>a
  <2>k. k = Len(fields) /\ Len(fields) < 10 BY <2>a, <2>1
  <2>2. current = NakamotoBlockHeader[k] BY <1>11, <1>12, <2>k
  <2>3. /\ current.op \in {"number", "bytes"} /\ current.field = FixedFields[k]
        /\ current.n \in Nat /\ Place(k).from \in Nat
        /\ Place(k).to = Place(k).from + current.n
        /\ Place(k + 1).from = Place(k).to
    BY <2>1, <2>2, HeaderReads
  <2>4. n + extra = current.n /\ value = Subarray(buffer, 0, current.n) BY <1>5, <2>3
  <2>5. buffer' = Subarray(buffer, current.n, Len(buffer)) BY <1>5, <2>4 DEF Consume
  <2>6. buffer = Subarray(slot.data, Place(k).from, Len(slot.data))
    BY <1>9, <2>k DEF Behind
  <2>7. slot.data \in Seq(Byte) BY <1>1, ReadingSlot
  <2>8. /\ value = Subarray(slot.data, Place(k).from, Place(k).to)
        /\ buffer' = Subarray(slot.data, Place(k).to, Len(slot.data))
    <3>1. /\ Subarray(buffer, 0, current.n)
               = Subarray(slot.data, Place(k).from, Place(k).from + current.n)
          /\ Subarray(buffer, current.n, Len(buffer))
               = Subarray(slot.data, Place(k).from + current.n, Len(slot.data))
      BY <2>3, <2>6, <2>7, SubarrayTwice
    <3> QED BY <2>3, <2>4, <2>5, <3>1
  <2>9. buffer' = Behind(slot.data, Len(fields'))
    BY <1>6, <2>3, <2>8, <2>k DEF Behind
  <2>10. /\ fields'[Len(fields) + 1].field = FixedFields[Len(fields)]
         /\ fields'[Len(fields) + 1].value
              = Subarray(slot.data, Place(Len(fields)).from, Place(Len(fields)).to)
    BY <1>6, <2>3, <2>8, <2>k
  <2>11. FixedSoFar(fields', slot.data) BY <1>3, <1>6, <1>9, <1>12, <2>10, OneMoreField
  <2> QED BY <1>10, <2>9, <2>11 DEF LayoutOf
<1>13. CASE ~(Len(fields) <= 9)
  <2>1. IsOther(fields'[Len(fields) + 1].field) BY <1>6, <1>11, <1>13 DEF OtherRead
  <2>2. FixedSoFar(fields', slot.data) BY <1>3, <1>6, <1>9, <1>13, <2>1, OneMoreField
  <2>3. ~(Len(fields') < 10) BY <1>3, <1>6, <1>13, SMT
  <2> QED BY <1>10, <2>2, <2>3 DEF LayoutOf
<1> QED BY <1>12, <1>13

\* So does the read of an enum, which for a block's type brings the whole header.
LEMMA LayoutEnum ==
  ASSUME TypeOK, ReadingLayout, ReadU8Enum
  PROVE  ReadingLayout'
<1> DEFINE rest == Continuation(current.field, buffer[1]) \o Tail(todo)
<1>1. /\ status = "reading" /\ todo # <<>> /\ current.op = "enum" /\ Len(buffer) >= 1
      /\ Consume(1, 0, <<buffer[1]>>, rest)
  BY DEF ReadU8Enum, Reads
<1>2. <<buffer[1]>> \in Seq(Byte) /\ todo \in Seq(AnyRead) /\ fields \in Seq(Field)
  BY <1>1, SMT DEF TypeOK, AnyRead
<1>3. Continuation(current.field, buffer[1]) \in Seq(AnyRead) BY ContinuationTyped
<1>4. rest \in Seq(AnyRead) BY <1>1, <1>2, <1>3, HeadTailProperties, ConcatProperties
<1>5. 1 \in Nat /\ 0 \in Nat /\ 1 + 0 = 1 OBVIOUS
<1> HIDE DEF rest
<1>6. /\ todo' = rest /\ slots' = slots /\ parsed' = parsed
      /\ Len(fields) \in Nat /\ Len(fields') = Len(fields) + 1
      /\ \A i \in 1..Len(fields) : fields'[i] = fields[i]
      /\ fields'[Len(fields) + 1].field = current.field
      /\ fields'[Len(fields) + 1].value = <<buffer[1]>>
  BY <1>1, <1>2, <1>4, <1>5, ConsumeAddsField
<1>7. fields' # <<>>
  <2>1. Len(<<>>) = 0 OBVIOUS
  <2>2. Len(fields') # 0 BY <1>6, SMT
  <2> QED BY <2>1, <2>2
<1> SUFFICES ASSUME IsBlock(fields') PROVE LayoutOf(fields', todo', buffer', slot.data)
  BY <1>6, <1>7, ReadKeepsLayout DEF LayoutOf
<1>8. CASE fields = <<>>
  <2>1. todo = <<Enum("messageType")>> /\ buffer = slot.data BY <1>1, <1>8 DEF ReadingLayout
  <2>2. Tail(todo) = <<>> /\ current = Enum("messageType") BY <2>1 DEF current
  <2>3. current.field = "messageType" BY <2>2 DEF Enum, Read
  <2>4. /\ Len(fields') = 1 /\ fields'[1].field = "messageType"
        /\ fields'[1].value = <<buffer[1]>>
    <3>1. Len(fields) = 0 BY <1>8
    <3> QED BY <1>6, <2>3, <3>1
  <2>5. buffer[1] = 0 \/ buffer[1] = 2
    <3>1. <<buffer[1]>> = << 0 >> \/ <<buffer[1]>> = << 2 >> BY <2>4 DEF IsBlock
    <3> QED BY <3>1
  <2>6. todo' = MessageFormat(buffer[1])
    BY <1>3, <1>6, <2>2, <2>3, ConcatEmptySeq DEF rest, Continuation
  <2>7. todo' = BlockProposal \/ todo' = BlockPushed
    <3>1. CASE buffer[1] = 0 BY <2>6, <3>1 DEF MessageFormat
    <3>2. CASE buffer[1] = 2 BY <2>6, <3>2 DEF MessageFormat
    <3> QED BY <2>5, <3>1, <3>2
  <2>8. BlockReads(todo', Len(fields')) BY <2>4, <2>7, BlocksBeginWithHeader
  <2>9. FixedSoFar(fields', slot.data)
    <3>1. \A j \in 2..1 : FALSE BY SMT
    <3> QED BY <2>4, <3>1 DEF FixedSoFar
  <2>10. buffer' = Behind(slot.data, Len(fields'))
    <3>1. buffer' = Subarray(slot.data, 1, Len(slot.data)) BY <1>1, <1>5, <2>1 DEF Consume
    <3>2. Place(1).from = 1 BY DEF Place
    <3> QED BY <2>4, <3>1, <3>2 DEF Behind
  <2> QED BY <2>8, <2>9, <2>10 DEF LayoutOf
<1>9. CASE fields # <<>>
  <2>1. Len(fields) \in Nat \ {0} BY <1>2, <1>9, EmptySeq
  <2>2. fields'[1] = fields[1]
    <3>1. 1 \in 1..Len(fields) BY <2>1, SMT
    <3> QED BY <1>6, <3>1
  <2>3. IsBlock(fields) BY <1>7, <1>9, <2>2, SameKind
  <2>4. BlockReads(todo, Len(fields)) BY <1>1, <2>3 DEF ReadingLayout, LayoutOf
  <2>5. IF Len(fields) <= 9 THEN current = NakamotoBlockHeader[Len(fields)]
                            ELSE OtherRead(current)
    BY <1>1, <1>2, <2>1, <2>4, FirstRead DEF current
  <2>6. CASE Len(fields) <= 9
    <3>1. \A m \in Nat \ {0} : m <= 9 => m \in 1..9 BY SMT
    <3>2. Len(fields) \in 1..9 BY <2>1, <2>6, <3>1
    <3> QED BY <1>1, <2>5, <2>6, <3>2, HeaderReads
  <2>7. CASE ~(Len(fields) <= 9) BY <1>1, <2>5, <2>7 DEF OtherRead
  <2> QED BY <2>6, <2>7
<1> QED BY <1>8, <1>9

\* Behind the fixed fields only others are read.
AllOther(reads) == \A t \in 1..Len(reads) : OtherRead(reads[t])

\* Behind the nine fixed fields all that is to come are reads of other ones.
LEMMA RestOfBlock ==
  ASSUME NEW reads \in Seq(AnyRead), NEW n \in Nat, ~(n <= 9)
  PROVE  BlockReads(reads, n) <=> AllOther(reads)
<1>1. Len(reads) \in Nat BY LenProperties
<1>2. Len(reads) >= 10 - n /\ \A t \in 1..Len(reads) : ~(t <= 10 - n) BY <1>1, SMT
<1> QED BY <1>2 DEF BlockReads, AllOther

\* Two sequences of reads behind the header make one.
LEMMA OthersTogether ==
  ASSUME NEW s \in Seq(AnyRead), NEW t \in Seq(AnyRead), AllOther(s), AllOther(t)
  PROVE  s \o t \in Seq(AnyRead) /\ AllOther(s \o t)
<1>1. /\ s \o t \in Seq(AnyRead) /\ Len(s \o t) = Len(s) + Len(t)
      /\ \A i \in 1 .. Len(s) + Len(t) : (s \o t)[i] = IF i <= Len(s) THEN s[i] ELSE t[i - Len(s)]
  BY ConcatProperties
<1>2. Len(s) \in Nat /\ Len(t) \in Nat BY LenProperties
<1>3. ASSUME NEW i \in 1..Len(s \o t) PROVE OtherRead((s \o t)[i])
  <2>1. i \in 1 .. Len(s) + Len(t) BY <1>1
  <2>2. CASE i <= Len(s)
    <3>1. i \in 1..Len(s) BY <1>2, <2>1, <2>2, SMT
    <3> QED BY <1>1, <2>1, <2>2, <3>1 DEF AllOther
  <2>3. CASE ~(i <= Len(s))
    <3>1. i - Len(s) \in 1..Len(t) BY <1>2, <2>1, <2>3, SMT
    <3> QED BY <1>1, <2>1, <2>3, <3>1 DEF AllOther
  <2> QED BY <2>2, <2>3
<1> QED BY <1>1, <1>3 DEF AllOther

\* The first of such reads is behind the header, and so are the rest.
LEMMA OthersLess ==
  ASSUME NEW s \in Seq(AnyRead), s # <<>>, AllOther(s)
  PROVE  OtherRead(Head(s)) /\ Tail(s) \in Seq(AnyRead) /\ AllOther(Tail(s))
<1>1. /\ Tail(s) \in Seq(AnyRead) /\ Len(Tail(s)) = Len(s) - 1 /\ Len(s) \in Nat \ {0}
      /\ \A i \in 1..Len(Tail(s)) : Tail(s)[i] = s[i + 1]
  BY HeadTailProperties, EmptySeq
<1>2. Head(s) = s[1] /\ 1 \in 1..Len(s) BY <1>1, SMT
<1>3. \A i \in 1..Len(Tail(s)) : i + 1 \in 1..Len(s) BY <1>1, SMT
<1> QED BY <1>1, <1>2, <1>3 DEF AllOther

\* A read behind the header is a sequence of them.
LEMMA OneOther ==
  ASSUME NEW r, OtherRead(r)
  PROVE  AllOther(<<r>>)
<1>1. Len(<<r>>) = 1 /\ <<r>>[1] = r OBVIOUS
<1>2. \A t \in 1..1 : t = 1 BY SMT
<1> QED BY <1>1, <1>2 DEF AllOther

\* The items of an array behind the header are behind it too.
LEMMA ItemsAreOther ==
  ASSUME NEW array \in Array, OtherRead(array), NEW n \in Nat
  PROVE  OtherRead(Items(array, n))
<1> DEFINE i == Items(array, n)
<1>1. i.op = "items" /\ i.field = array.field /\ i.item = array.item BY DEF Items, Array
<1> QED BY <1>1 DEF OtherRead

\* An array is read behind the fixed fields.
LEMMA ArraysComeLater ==
  ASSUME TypeOK, ReadingLayout, status = "reading", todo # <<>>, IsBlock(fields),
         current.op \in {"array", "items"}
  PROVE  /\ Len(fields) \in Nat /\ ~(Len(fields) <= 9) /\ FixedSoFar(fields, slot.data)
         /\ AllOther(todo)
<1>1. todo \in Seq(AnyRead) BY DEF TypeOK, AnyRead
<1>2. Len(fields) \in Nat \ {0} BY TypeIsRead
<1>3. FixedSoFar(fields, slot.data) /\ BlockReads(todo, Len(fields))
  BY DEF ReadingLayout, LayoutOf
<1>4. ~(Len(fields) <= 9)
  <2> SUFFICES ASSUME Len(fields) <= 9 PROVE FALSE OBVIOUS
  <2>1. \A m \in Nat \ {0} : m <= 9 => m \in 1..9 BY SMT
  <2>2. Len(fields) \in 1..9 BY <1>2, <2>1
  <2>3. current = NakamotoBlockHeader[Len(fields)] BY <1>1, <1>2, <1>3, FirstRead DEF current
  <2> QED BY <2>2, <2>3, HeaderReads
<1> QED BY <1>1, <1>2, <1>3, <1>4, RestOfBlock

\* The read of an array's length leaves each fixed field in its place.
LEMMA LayoutArray ==
  ASSUME TypeOK, ReadingLayout, ReadArray
  PROVE  ReadingLayout'
<1> DEFINE count == U32At(buffer, 1)
           rest == <<Items(current, count)>> \o Tail(todo)
           value == Subarray(buffer, 0, 4)
<1>1. /\ status = "reading" /\ todo # <<>> /\ current.op = "array" /\ Len(buffer) >= 4
      /\ Consume(4, 0, value, rest)
  BY DEF ReadArray, Reads
<1>2. todo \in Seq(AnyRead) /\ buffer \in Seq(Byte) /\ value \in Seq(Byte)
  BY SubarrayOfBytes DEF TypeOK, AnyRead
<1>3. Tail(todo) \in Seq(AnyRead) /\ current \in AnyRead
  BY <1>1, <1>2, HeadTailProperties DEF current
<1>4. count \in Nat
  <2>1. Len(buffer) \in Nat BY <1>2, SMT
  <2> QED BY <1>1, <1>2, <2>1, NumbersAreNat, SMT
<1>5. current \in Array BY <1>1, <1>3, SMT DEF AnyRead, Scalar, ScalarOps
<1>6. <<Items(current, count)>> \in Seq(AnyRead) BY <1>4, <1>5, ItemsTyped DEF AnyRead
<1>7. rest \in Seq(AnyRead) BY <1>3, <1>6, ConcatProperties
<1>8. 4 \in Nat /\ 0 \in Nat OBVIOUS
<1>r. rest = <<Items(current, count)>> \o Tail(todo) OBVIOUS
<1> HIDE DEF rest, count, value
<1>9. /\ todo' = rest /\ slots' = slots /\ parsed' = parsed
      /\ Len(fields') = Len(fields) + 1
      /\ \A i \in 1..Len(fields) : fields'[i] = fields[i]
      /\ fields'[Len(fields) + 1].field = current.field
  BY <1>1, <1>2, <1>7, <1>8, ConsumeAddsField
<1>10. fields # <<>> /\ Len(fields) \in Nat \ {0} BY <1>1, TypeIsRead
<1>11. fields' # <<>> /\ fields'[1] = fields[1]
  <2>1. Len(fields') # 0 /\ 1 \in 1..Len(fields) BY <1>9, <1>10, SMT
  <2>2. Len(<<>>) = 0 OBVIOUS
  <2> QED BY <1>9, <2>1, <2>2
<1>12. IsBlock(fields') = IsBlock(fields) BY <1>10, <1>11, SameKind
<1> SUFFICES ASSUME IsBlock(fields) PROVE LayoutOf(fields', todo', buffer', slot.data)
  BY <1>9, <1>11, <1>12, ReadKeepsLayout DEF LayoutOf
<1>13. ~(Len(fields) <= 9) /\ FixedSoFar(fields, slot.data) /\ AllOther(todo)
  BY <1>1, ArraysComeLater
<1>14. OtherRead(current) /\ AllOther(Tail(todo))
  BY <1>1, <1>2, <1>13, OthersLess DEF current
<1>15. AllOther(<<Items(current, count)>>) BY <1>4, <1>5, <1>14, ItemsAreOther, OneOther
<1>16. AllOther(todo') BY <1>3, <1>6, <1>9, <1>14, <1>15, <1>r, OthersTogether
<1>17. Len(fields') \in Nat /\ ~(Len(fields') <= 9) /\ ~(Len(fields') < 10)
  BY <1>9, <1>10, <1>13, SMT
<1>18. BlockReads(todo', Len(fields')) BY <1>7, <1>9, <1>16, <1>17, RestOfBlock
<1>19. IsOther(fields'[Len(fields) + 1].field) BY <1>9, <1>14 DEF OtherRead
<1>20. FixedSoFar(fields', slot.data) BY <1>9, <1>10, <1>13, <1>19, OneMoreField
<1> QED BY <1>17, <1>18, <1>20 DEF LayoutOf

\* So does the step to an array's next item.
LEMMA LayoutItem ==
  ASSUME TypeOK, ReadingLayout, NextItem
  PROVE  ReadingLayout'
<1>1. /\ status = "reading" /\ todo # <<>> /\ current.op = "items"
      /\ fields' = fields /\ buffer' = buffer /\ slots' = slots /\ parsed' = parsed
      /\ todo' = IF current.n = 0 THEN Tail(todo)
                 ELSE current.item \o <<Items(current, current.n - 1)>> \o Tail(todo)
  BY DEF NextItem, ReadsOfItems, Reads
<1>2. todo \in Seq(AnyRead) BY DEF TypeOK, AnyRead
<1>3. Tail(todo) \in Seq(AnyRead) /\ current \in AnyRead
  BY <1>1, <1>2, HeadTailProperties DEF current
<1>4. /\ current \in Array /\ current.n \in Nat
      /\ current.item \in Seq(Scalar) /\ current.item \in Seq(AnyRead)
  <2>1. current \in Array BY <1>1, <1>3, SMT DEF AnyRead, Scalar, ScalarOps
  <2>2. current.n \in Nat /\ current.item \in Seq(Scalar) BY <2>1 DEF Array
  <2> QED BY <2>1, <2>2, SeqMonotonic DEF AnyRead
<1>5. fields # <<>> BY <1>1, TypeIsRead
<1>6. fields' # <<>> /\ IsBlock(fields') = IsBlock(fields) BY <1>1, <1>5
<1> SUFFICES ASSUME IsBlock(fields) PROVE LayoutOf(fields', todo', buffer', slot.data)
  BY <1>1, <1>6, ReadKeepsLayout DEF LayoutOf
<1>7. /\ Len(fields) \in Nat /\ ~(Len(fields) <= 9) /\ FixedSoFar(fields, slot.data)
      /\ AllOther(todo)
  BY <1>1, ArraysComeLater
<1>8. OtherRead(current) /\ AllOther(Tail(todo))
  BY <1>1, <1>2, <1>7, OthersLess DEF current
<1>9. todo' \in Seq(AnyRead) /\ AllOther(todo')
  <2>1. CASE current.n = 0 BY <1>1, <1>3, <1>8, <2>1
  <2>2. CASE current.n # 0
    <3>1. current.n - 1 \in Nat BY <1>4, <2>2, SMT
    <3> DEFINE left == <<Items(current, current.n - 1)>>
    <3>2. left \in Seq(AnyRead) BY <1>4, <3>1, ItemsTyped DEF AnyRead
    <3>3. AllOther(left) BY <1>4, <1>8, <3>1, ItemsAreOther, OneOther
    <3>4. AllOther(current.item)
      <4> SUFFICES ASSUME NEW u \in 1..Len(current.item) PROVE OtherRead(current.item[u])
        BY DEF AllOther
      <4>1. current.item[u].op # "enum" /\ IsOther(current.item[u].field)
        BY <1>8 DEF OtherRead
      <4>2. current.item[u] \in Scalar BY <1>4, ElementOfSeq
      <4>3. current.item[u].item = <<>> BY <4>2 DEF Scalar
      <4> QED BY <4>1, <4>3, ScalarsAreOther
    <3>5. todo' = current.item \o left \o Tail(todo) BY <1>1, <2>2
    <3> HIDE DEF left
    <3>6. current.item \o left \in Seq(AnyRead) /\ AllOther(current.item \o left)
      BY <1>4, <3>2, <3>3, <3>4, OthersTogether
    <3> QED BY <1>3, <1>8, <3>5, <3>6, OthersTogether
  <2> QED BY <2>1, <2>2
<1>10. BlockReads(todo', Len(fields)) BY <1>7, <1>9, RestOfBlock
<1>11. ~(Len(fields) < 10) BY <1>7, SMT
<1> QED BY <1>1, <1>7, <1>10, <1>11 DEF LayoutOf

\* A slot that is begun has no field in a wrong place.
LEMMA LayoutParseSlot ==
  ASSUME TypeOK, ParseSlot
  PROVE  ReadingLayout'
<1>1. slot' = slot BY DEF ParseSlot, slot
<1>2. /\ todo' = <<Enum("messageType")>> /\ buffer' = slot.data /\ fields' = <<>>
  BY DEF ParseSlot
<1>3. ~IsBlock(fields)' BY <1>2 DEF IsBlock
<1> QED BY <1>1, <1>2, <1>3 DEF ReadingLayout, LayoutOf

\* A message is parsed when nothing of it is left to read.
LEMMA LayoutSlotParsed ==
  ASSUME TypeOK, ParsedLayout, ReadingLayout, SlotParsed
  PROVE  ParsedLayout'
<1>1. /\ status = "reading" /\ todo = <<>> /\ parsed' = Append(parsed, fields) /\ slots' = slots
      /\ fields \in Seq(Field) /\ parsed \in Seq(Seq(Field))
  BY DEF SlotParsed, TypeOK
<1>2. /\ Len(parsed) \in Nat /\ Len(parsed') = Len(parsed) + 1
      /\ \A i \in 1..Len(parsed) : parsed'[i] = parsed[i]
      /\ parsed'[Len(parsed) + 1] = fields
  BY <1>1, AppendProperties, LenProperties
<1>3. IsBlock(fields) => Len(fields) >= 10 /\ FixedSoFar(fields, slot.data)
  <2> SUFFICES ASSUME IsBlock(fields) PROVE Len(fields) >= 10 /\ FixedSoFar(fields, slot.data)
    OBVIOUS
  <2>1. FixedSoFar(fields, slot.data) /\ BlockReads(todo, Len(fields))
    BY <1>1 DEF ReadingLayout, LayoutOf
  <2>2. Len(fields) \in Nat BY <1>1, LenProperties
  <2>3. Len(todo) = 0 BY <1>1
  <2>4. 0 >= 10 - Len(fields) BY <2>1, <2>3 DEF BlockReads
  <2> QED BY <2>1, <2>2, <2>4, SMT
<1>4. ASSUME NEW i \in 1..Len(parsed'), IsBlock(parsed'[i])
      PROVE  Len(parsed'[i]) >= 10 /\ FixedSoFar(parsed'[i], slots'[i].data)
  <2>1. i \in 1..Len(parsed) \/ i = Len(parsed) + 1 BY <1>2, SMT
  <2>2. CASE i \in 1..Len(parsed) BY <1>1, <1>2, <1>4, <2>2 DEF ParsedLayout
  <2>3. CASE i = Len(parsed) + 1 BY <1>1, <1>2, <1>3, <1>4, <2>3 DEF slot
  <2> QED BY <2>1, <2>2, <2>3
<1>5. ParsedLayout' <=> \A i \in 1..Len(parsed') : IsBlock(parsed'[i]) =>
        Len(parsed'[i]) >= 10 /\ FixedSoFar(parsed'[i], slots'[i].data)
  BY DEF ParsedLayout, IsBlock, FixedSoFar
<1> QED BY <1>4, <1>5

\* Every step leaves the fixed fields of the blocks in their places.
LEMMA LayoutStep == LInv /\ [Next]_vars => LInv'
<1> SUFFICES ASSUME TypeOK, ParsedLayout, ReadingLayout, [Next]_vars PROVE LInv'
  BY DEF LInv
<1>1. TypeOK' BY TypeStep
<1>2. ReadingLayout'
  <2>1. CASE ReadScalar BY <2>1, LayoutScalar
  <2>2. CASE SlotParsed \/ SlotThrows \/ ChunkParsed
    <3>1. status' # "reading" BY <2>2 DEF SlotParsed, SlotThrows, ChunkParsed
    <3> QED BY <3>1 DEF ReadingLayout
  <2>3. CASE UNCHANGED vars
    BY <2>3 DEF vars, ReadingLayout, LayoutOf, slot, IsBlock, FixedSoFar, BlockReads, Behind
  <2> QED BY <2>1, <2>2, <2>3, LayoutEnum, LayoutArray, LayoutItem, LayoutParseSlot
        DEF Next, ReadScalar
<1>3. ParsedLayout'
  <2>1. CASE SlotParsed BY <2>1, LayoutSlotParsed
  <2>2. CASE ~SlotParsed
    <3>1. parsed' = parsed /\ slots' = slots
      BY <2>2 DEF Next, vars, ParseSlot, SlotThrows, ChunkParsed, ReadU8Enum, ReadNumber, ReadBytes,
                  ReadBitVec, ReadVecString, NoMetadata, ReadU8LengthPrefixedString, ReadArray,
                  NextItem, ParseStacksTransaction, Consume
    <3> QED BY <3>1 DEF ParsedLayout, IsBlock, FixedSoFar
  <2> QED BY <2>1, <2>2
<1> QED BY <1>1, <1>2, <1>3 DEF LInv

\* Whatever bytes the slots of a chunk hold: each of the nine fixed fields that are
\* hashed of a block is what its sender put at the field's place in the slot.
THEOREM FixedFieldsAreAsSent == Spec => []FixedFieldsAsSent
<1>1. Init => LInv
  <2>1. Len(<<>>) = 0 OBVIOUS
  <2>2. Init => ParsedLayout BY <2>1, SMT DEF Init, ParsedLayout
  <2>3. Init => ReadingLayout BY DEF Init, ReadingLayout
  <2> QED BY <2>2, <2>3, TypeInit DEF LInv
<1>2. LInv /\ [Next]_vars => LInv' BY LayoutStep
<1>3. LInv => FixedFieldsAsSent
  <2> SUFFICES ASSUME LInv, NEW i \in 1..Len(parsed), NEW k \in 1..9, IsBlock(parsed[i])
               PROVE  Value(parsed[i], FixedFields[k])
                        = Subarray(slots[i].data, Place(k).from, Place(k).to)
    BY DEF FixedFieldsAsSent
  <2>1. parsed[i] \in Seq(Field) BY ElementOfSeq DEF LInv, TypeOK
  <2>2. Len(parsed[i]) >= 10 /\ FixedSoFar(parsed[i], slots[i].data) BY DEF LInv, ParsedLayout
  <2> QED BY <2>1, <2>2, ValueOfFixed
<1> QED BY <1>1, <1>2, <1>3, PTL DEF Spec

\* Adjacent pieces of some data make one piece.
LEMMA SubarraysJoin ==
  ASSUME NEW d \in Seq(Byte), NEW a \in Nat, NEW b \in Nat, NEW c \in Nat, a <= b, b <= c
  PROVE  Subarray(d, a, b) \o Subarray(d, b, c) = Subarray(d, a, c)
<1> DEFINE s == Subarray(d, a, b)
           t == Subarray(d, b, c)
           u == Subarray(d, a, c)
<1>1. Len(d) \in Nat BY LenProperties
<1>2. /\ s \in Seq(Byte)
      /\ Len(s) = IF a < Least(b, Len(d)) THEN Least(b, Len(d)) - a ELSE 0
      /\ \A i \in 1..Len(s) : s[i] = d[a + i]
  BY SubarrayElements
<1>3. /\ t \in Seq(Byte)
      /\ Len(t) = IF b < Least(c, Len(d)) THEN Least(c, Len(d)) - b ELSE 0
      /\ \A i \in 1..Len(t) : t[i] = d[b + i]
  BY SubarrayElements
<1>4. /\ u \in Seq(Byte)
      /\ Len(u) = IF a < Least(c, Len(d)) THEN Least(c, Len(d)) - a ELSE 0
      /\ \A i \in 1..Len(u) : u[i] = d[a + i]
  BY SubarrayElements
<1> HIDE DEF s, t, u
<1>5. /\ s \o t \in Seq(Byte) /\ Len(s \o t) = Len(s) + Len(t)
      /\ \A i \in 1 .. Len(s) + Len(t) : (s \o t)[i] = IF i <= Len(s) THEN s[i] ELSE t[i - Len(s)]
  BY <1>2, <1>3, ConcatProperties
<1>6. /\ Len(s) \in Nat /\ Len(t) \in Nat /\ Len(s) + Len(t) = Len(u)
      /\ Len(t) # 0 => Len(s) = b - a
  <2>0. /\ Len(s) = IF a < Least(b, Len(d)) THEN Least(b, Len(d)) - a ELSE 0
        /\ Len(t) = IF b < Least(c, Len(d)) THEN Least(c, Len(d)) - b ELSE 0
        /\ Len(u) = IF a < Least(c, Len(d)) THEN Least(c, Len(d)) - a ELSE 0
    BY <1>2, <1>3, <1>4
  <2>1. Len(s) \in Nat /\ Len(t) \in Nat BY <1>2, <1>3, LenProperties
  <2>2. CASE b < Len(d)
    <3>1. Least(b, Len(d)) = b BY <2>2 DEF Least
    <3>2. Least(c, Len(d)) >= b BY <1>1, <2>2, SMT DEF Least
    <3>3. Least(c, Len(d)) \in Nat BY <1>1, SMT DEF Least
    <3>4. Len(s) = IF a < b THEN b - a ELSE 0 BY <2>0, <3>1
    <3>5. Len(s) = b - a BY <3>4, SMT
    <3>6. Len(s) + Len(t) = Len(u) BY <2>0, <3>2, <3>3, <3>5, SMT
    <3> QED BY <2>1, <3>5, <3>6
  <2>3. CASE ~(b < Len(d))
    <3>1. Least(b, Len(d)) = Len(d) BY <2>3 DEF Least
    <3>2. Least(c, Len(d)) = Len(d) BY <1>1, <2>3, SMT DEF Least
    <3>3. Len(t) = 0 BY <1>1, <2>0, <2>3, <3>2, SMT
    <3>4. Len(s) = Len(u) BY <2>0, <3>1, <3>2
    <3> QED BY <2>1, <3>3, <3>4, SMT
  <2> QED BY <2>2, <2>3
<1>7. ASSUME NEW i \in 1..Len(s \o t) PROVE (s \o t)[i] = u[i]
  <2>1. i \in 1 .. Len(s) + Len(t) /\ i \in 1..Len(u) BY <1>5, <1>6
  <2>2. CASE i <= Len(s)
    <3>1. i \in 1..Len(s) BY <1>6, <2>1, <2>2, SMT
    <3> QED BY <1>2, <1>4, <1>5, <2>1, <2>2, <3>1
  <2>3. CASE ~(i <= Len(s))
    <3>1. i - Len(s) \in 1..Len(t) BY <1>6, <2>1, <2>3, SMT
    <3>2. b + (i - Len(s)) = a + i BY <1>6, <2>1, <3>1, SMT
    <3>3. (s \o t)[i] = d[b + (i - Len(s))] BY <1>3, <1>5, <2>1, <2>3, <3>1
    <3> QED BY <1>4, <2>1, <3>2, <3>3
  <2> QED BY <2>2, <2>3
<1>8. s \o t = u BY <1>4, <1>5, <1>6, <1>7, SeqEqual
<1> QED BY <1>8 DEF s, t, u

\* Each fixed field joins the piece before it.
LEMMA HeaderPieces ==
  ASSUME NEW d \in Seq(Byte)
  PROVE  /\ Subarray(d, 1, 2) \o Subarray(d, 2, 10) = Subarray(d, 1, 10)
         /\ Subarray(d, 1, 10) \o Subarray(d, 10, 18) = Subarray(d, 1, 18)
         /\ Subarray(d, 1, 18) \o Subarray(d, 18, 38) = Subarray(d, 1, 38)
         /\ Subarray(d, 1, 38) \o Subarray(d, 38, 70) = Subarray(d, 1, 70)
         /\ Subarray(d, 1, 70) \o Subarray(d, 70, 102) = Subarray(d, 1, 102)
         /\ Subarray(d, 1, 102) \o Subarray(d, 102, 134) = Subarray(d, 1, 134)
         /\ Subarray(d, 1, 134) \o Subarray(d, 134, 142) = Subarray(d, 1, 142)
         /\ Subarray(d, 1, 142) \o Subarray(d, 142, 207) = Subarray(d, 1, 207)
<1>1. Subarray(d, 1, 2) \o Subarray(d, 2, 10) = Subarray(d, 1, 10) BY SubarraysJoin
<1>2. Subarray(d, 1, 10) \o Subarray(d, 10, 18) = Subarray(d, 1, 18) BY SubarraysJoin
<1>3. Subarray(d, 1, 18) \o Subarray(d, 18, 38) = Subarray(d, 1, 38) BY SubarraysJoin
<1>4. Subarray(d, 1, 38) \o Subarray(d, 38, 70) = Subarray(d, 1, 70) BY SubarraysJoin
<1>5. Subarray(d, 1, 70) \o Subarray(d, 70, 102) = Subarray(d, 1, 102) BY SubarraysJoin
<1>6. Subarray(d, 1, 102) \o Subarray(d, 102, 134) = Subarray(d, 1, 134) BY SubarraysJoin
<1>7. Subarray(d, 1, 134) \o Subarray(d, 134, 142) = Subarray(d, 1, 142) BY SubarraysJoin
<1>8. Subarray(d, 1, 142) \o Subarray(d, 142, 207) = Subarray(d, 1, 207) BY SubarraysJoin
<1> QED BY <1>1, <1>2, <1>3, <1>4, <1>5, <1>6, <1>7, <1>8

\* The fixed fields in their order, each of which ends where the next begins, are one
\* piece.
LEMMA HashOfPieces ==
  ASSUME NEW d \in Seq(Byte), NEW msg,
         \A k \in 1..9 : Value(msg, FixedFields[k]) = Subarray(d, Place(k).from, Place(k).to)
  PROVE  HashedHeader(msg) = Subarray(d, 1, 207) \o WriteBitVec(Value(msg, "poxTreatment"))
<1> DEFINE V(field) == Value(msg, field)
           v1 == V("version")
           v2 == V("chainLength")
           v3 == V("burnSpent")
           v4 == V("consensusHash")
           v5 == V("parentBlockId")
           v6 == V("txMerkleRoot")
           v7 == V("stateIndexRoot")
           v8 == V("timestamp")
           v9 == V("minerSignature")
<1>1. /\ FixedFields[1] = "version"
      /\ FixedFields[2] = "chainLength"
      /\ FixedFields[3] = "burnSpent"
      /\ FixedFields[4] = "consensusHash"
      /\ FixedFields[5] = "parentBlockId"
      /\ FixedFields[6] = "txMerkleRoot"
      /\ FixedFields[7] = "stateIndexRoot"
      /\ FixedFields[8] = "timestamp"
      /\ FixedFields[9] = "minerSignature"
  BY DEF FixedFields
<1>2. /\ Place(1).from = 1 /\ Place(1).to = 2
      /\ Place(2).from = 2 /\ Place(2).to = 10
      /\ Place(3).from = 10 /\ Place(3).to = 18
      /\ Place(4).from = 18 /\ Place(4).to = 38
      /\ Place(5).from = 38 /\ Place(5).to = 70
      /\ Place(6).from = 70 /\ Place(6).to = 102
      /\ Place(7).from = 102 /\ Place(7).to = 134
      /\ Place(8).from = 134 /\ Place(8).to = 142
      /\ Place(9).from = 142 /\ Place(9).to = 207
  BY DEF Place, FieldEnds
<1>3. \A k \in {1, 2, 3, 4, 5, 6, 7, 8, 9} : k \in 1..9 BY SMT
<1>4. \A k \in 1..9 : V(FixedFields[k]) = Subarray(d, Place(k).from, Place(k).to) OBVIOUS
<1>5. HashedHeader(msg)
        = v1 \o v2 \o v3 \o v4 \o v5 \o v6 \o v7 \o v8 \o v9 \o WriteBitVec(V("poxTreatment"))
  BY Zenon DEF HashedHeader
<1> HIDE DEF V
<1>6. /\ v1 = Subarray(d, 1, 2)
      /\ v2 = Subarray(d, 2, 10)
      /\ v3 = Subarray(d, 10, 18)
      /\ v4 = Subarray(d, 18, 38)
      /\ v5 = Subarray(d, 38, 70)
      /\ v6 = Subarray(d, 70, 102)
      /\ v7 = Subarray(d, 102, 134)
      /\ v8 = Subarray(d, 134, 142)
      /\ v9 = Subarray(d, 142, 207)
  BY <1>1, <1>2, <1>3, <1>4
<1> HIDE DEF v1, v2, v3, v4, v5, v6, v7, v8, v9
<1>7. v1 \o v2 = Subarray(d, 1, 10)
  <2>1. Subarray(d, 1, 2) \o Subarray(d, 2, 10) = Subarray(d, 1, 10) BY HeaderPieces
  <2>2. v1 = Subarray(d, 1, 2) /\ v2 = Subarray(d, 2, 10) BY <1>6
  <2> QED BY <2>1, <2>2, Zenon
<1>8. v1 \o v2 \o v3 = Subarray(d, 1, 18)
  <2>1. Subarray(d, 1, 10) \o Subarray(d, 10, 18) = Subarray(d, 1, 18) BY HeaderPieces
  <2>2. v3 = Subarray(d, 10, 18) BY <1>6
  <2> QED BY <1>7, <2>1, <2>2, Zenon
<1>9. v1 \o v2 \o v3 \o v4 = Subarray(d, 1, 38)
  <2>1. Subarray(d, 1, 18) \o Subarray(d, 18, 38) = Subarray(d, 1, 38) BY HeaderPieces
  <2>2. v4 = Subarray(d, 18, 38) BY <1>6
  <2> QED BY <1>8, <2>1, <2>2, Zenon
<1>10. v1 \o v2 \o v3 \o v4 \o v5 = Subarray(d, 1, 70)
  <2>1. Subarray(d, 1, 38) \o Subarray(d, 38, 70) = Subarray(d, 1, 70) BY HeaderPieces
  <2>2. v5 = Subarray(d, 38, 70) BY <1>6
  <2> QED BY <1>9, <2>1, <2>2, Zenon
<1>11. v1 \o v2 \o v3 \o v4 \o v5 \o v6 = Subarray(d, 1, 102)
  <2>1. Subarray(d, 1, 70) \o Subarray(d, 70, 102) = Subarray(d, 1, 102) BY HeaderPieces
  <2>2. v6 = Subarray(d, 70, 102) BY <1>6
  <2> QED BY <1>10, <2>1, <2>2, Zenon
<1>12. v1 \o v2 \o v3 \o v4 \o v5 \o v6 \o v7 = Subarray(d, 1, 134)
  <2>1. Subarray(d, 1, 102) \o Subarray(d, 102, 134) = Subarray(d, 1, 134) BY HeaderPieces
  <2>2. v7 = Subarray(d, 102, 134) BY <1>6
  <2> QED BY <1>11, <2>1, <2>2, Zenon
<1>13. v1 \o v2 \o v3 \o v4 \o v5 \o v6 \o v7 \o v8 = Subarray(d, 1, 142)
  <2>1. Subarray(d, 1, 134) \o Subarray(d, 134, 142) = Subarray(d, 1, 142) BY HeaderPieces
  <2>2. v8 = Subarray(d, 134, 142) BY <1>6
  <2> QED BY <1>12, <2>1, <2>2, Zenon
<1>14. v1 \o v2 \o v3 \o v4 \o v5 \o v6 \o v7 \o v8 \o v9 = Subarray(d, 1, 207)
  <2>1. Subarray(d, 1, 142) \o Subarray(d, 142, 207) = Subarray(d, 1, 207) BY HeaderPieces
  <2>2. v9 = Subarray(d, 142, 207) BY <1>6
  <2> QED BY <1>13, <2>1, <2>2, Zenon
<1> QED BY <1>5, <1>14, Zenon DEF V

\* Of a block, whatever bytes its slot holds, what is hashed begins with the slot's
\* bytes from the message type to the signers' signatures, in one piece; only the
\* bit vector follows.
THEOREM HashBeginsAsSent ==
  Spec => [](\A i \in 1..Len(parsed) : IsBlock(parsed[i]) =>
               HashedHeader(parsed[i])
                 = Subarray(slots[i].data, 1, 207)
                     \o WriteBitVec(Value(parsed[i], "poxTreatment")))
<1> DEFINE Begins ==
             \A i \in 1..Len(parsed) : IsBlock(parsed[i]) =>
               HashedHeader(parsed[i])
                 = Subarray(slots[i].data, 1, 207)
                     \o WriteBitVec(Value(parsed[i], "poxTreatment"))
<1>1. TypeOK /\ FixedFieldsAsSent => Begins
  <2> SUFFICES ASSUME TypeOK, FixedFieldsAsSent, NEW i \in 1..Len(parsed), IsBlock(parsed[i])
               PROVE  HashedHeader(parsed[i])
                        = Subarray(slots[i].data, 1, 207)
                            \o WriteBitVec(Value(parsed[i], "poxTreatment"))
    OBVIOUS
  <2>1. Len(parsed) \in Nat /\ Len(slots) \in Nat /\ Len(parsed) <= Len(slots)
    BY LenProperties DEF TypeOK
  <2>2. i \in 1..Len(slots) BY <2>1, SMT
  <2>3. slots[i].data \in Seq(Byte)
    <3>1. slots[i] \in Slot BY <2>2, ElementOfSeq DEF TypeOK
    <3> QED BY <3>1 DEF Slot
  <2>4. \A k \in 1..9 : Value(parsed[i], FixedFields[k])
                          = Subarray(slots[i].data, Place(k).from, Place(k).to)
    BY DEF FixedFieldsAsSent
  <2> QED BY <2>3, <2>4, HashOfPieces
<1> QED BY <1>1, TypeCorrect, FixedFieldsAreAsSent, PTL
------------------------------------------------------------------------------
(* Round trips. A slot that holds an encoding is read from one of its      *)
(* cursors to the next: what is to come, what is left of the bytes and the *)
(* fields read so far are those of a cursor, whichever read is made.       *)

Begins(bytes, piece) ==
  Len(piece) <= Len(bytes) /\ \A i \in 1..Len(piece) : bytes[i] = piece[i]

\* What is taken from the front of some bytes is taken from what they begin with.
LEMMA SubarrayOfBeginning ==
  ASSUME NEW d \in Seq(Byte), NEW p \in Seq(Byte), Begins(d, p),
         NEW a \in Nat, NEW b \in Nat, b <= Len(p)
  PROVE  Subarray(d, a, b) = Subarray(p, a, b)
<1> DEFINE s == Subarray(d, a, b)
           t == Subarray(p, a, b)
<1>1. Len(d) \in Nat /\ Len(p) \in Nat /\ Len(p) <= Len(d) BY LenProperties DEF Begins
<1>2. /\ s \in Seq(Byte)
      /\ Len(s) = IF a < Least(b, Len(d)) THEN Least(b, Len(d)) - a ELSE 0
      /\ \A i \in 1..Len(s) : s[i] = d[a + i]
  BY SubarrayElements
<1>3. /\ t \in Seq(Byte)
      /\ Len(t) = IF a < Least(b, Len(p)) THEN Least(b, Len(p)) - a ELSE 0
      /\ \A i \in 1..Len(t) : t[i] = p[a + i]
  BY SubarrayElements
<1> HIDE DEF s, t
<1>4. Least(b, Len(d)) = b /\ Least(b, Len(p)) = b BY <1>1, SMT DEF Least
<1>5. Len(s) = Len(t) /\ Len(s) = IF a < b THEN b - a ELSE 0 BY <1>2, <1>3, <1>4
<1>6. ASSUME NEW i \in 1..Len(s) PROVE s[i] = t[i]
  <2>1. i \in 1..Len(t) /\ a + i \in 1..Len(p) BY <1>1, <1>5, SMT
  <2>2. d[a + i] = p[a + i] BY <2>1 DEF Begins
  <2> QED BY <1>2, <1>3, <2>1, <2>2
<1>7. s = t BY <1>2, <1>3, <1>5, <1>6, SeqEqual
<1> QED BY <1>7 DEF s, t

\* All of some bytes, taken from their front, are those bytes.
LEMMA SubarrayOfAll ==
  ASSUME NEW p \in Seq(Byte)
  PROVE  Subarray(p, 0, Len(p)) = p
<1> DEFINE s == Subarray(p, 0, Len(p))
<1>1. Len(p) \in Nat BY LenProperties
<1>2. /\ s \in Seq(Byte)
      /\ Len(s) = IF 0 < Least(Len(p), Len(p)) THEN Least(Len(p), Len(p)) - 0 ELSE 0
      /\ \A i \in 1..Len(s) : s[i] = p[0 + i]
  BY <1>1, SubarrayElements
<1> HIDE DEF s
<1>3. Len(s) = Len(p) BY <1>1, <1>2, SMT DEF Least
<1>4. \A i \in 1..Len(s) : s[i] = p[i] BY <1>1, <1>2, SMT
<1>5. s = p BY <1>2, <1>3, <1>4, SeqEqual
<1> QED BY <1>5 DEF s

\* A slot that holds an encoding begins with its bytes, and with nothing behind them
\* if the encoding is not open.
LEMMA HeldBytes ==
  ASSUME NEW s \in Slot, NEW e \in Encoding, Holds(s, e)
  PROVE  Begins(s.data, e.bytes) /\ (~e.open => Len(s.data) = Len(e.bytes))
<1>1. s.data \in Seq(Byte) /\ e.bytes \in Seq(Byte) BY DEF Slot, Encoding
<1>2. Len(s.data) \in Nat /\ Len(e.bytes) \in Nat /\ 0 \in Nat BY <1>1, LenProperties, SMT
<1>3. CASE s.data = e.bytes BY <1>2, <1>3, SMT DEF Begins
<1>4. CASE e.open /\ Subarray(s.data, 0, Len(e.bytes)) = e.bytes
  <2> DEFINE t == Subarray(s.data, 0, Len(e.bytes))
  <2>1. /\ Len(t) = IF 0 < Least(Len(e.bytes), Len(s.data))
                    THEN Least(Len(e.bytes), Len(s.data)) - 0 ELSE 0
        /\ \A i \in 1..Len(t) : t[i] = s.data[0 + i]
    BY <1>1, <1>2, SubarrayElements
  <2>2. t = e.bytes BY <1>4
  <2> HIDE DEF t
  <2>3. Len(e.bytes) <= Len(s.data)
    <3>1. Len(e.bytes) = IF 0 < Least(Len(e.bytes), Len(s.data))
                         THEN Least(Len(e.bytes), Len(s.data)) - 0 ELSE 0
      BY <2>1, <2>2
    <3> QED BY <1>2, <3>1, SMT DEF Least
  <2>4. ASSUME NEW i \in 1..Len(e.bytes) PROVE s.data[i] = e.bytes[i]
    <3>1. 0 + i = i BY <1>2, SMT
    <3> QED BY <2>1, <2>2, <3>1
  <2> QED BY <1>4, <2>3, <2>4 DEF Begins
<1> QED BY <1>3, <1>4 DEF Holds

\* What is left of such bytes behind some offset begins with the next piece of the
\* encoding, and then goes on behind it.
LEMMA NextPiece ==
  ASSUME NEW d \in Seq(Byte), NEW p \in Seq(Byte), Begins(d, p),
         NEW a \in Nat, NEW b \in Nat, a <= b, b <= Len(p)
  PROVE  LET rest == Subarray(d, a, Len(d))
             piece == Subarray(p, a, b)
         IN  /\ piece \in Seq(Byte) /\ Len(piece) = b - a
             /\ Begins(rest, piece)
             /\ Subarray(rest, b - a, Len(rest)) = Subarray(d, b, Len(d))
<1> DEFINE rest == Subarray(d, a, Len(d))
           piece == Subarray(p, a, b)
<1>1. Len(d) \in Nat /\ Len(p) \in Nat /\ Len(p) <= Len(d) BY LenProperties DEF Begins
<1>2. b - a \in Nat /\ a + (b - a) = b BY SMT
<1>3. /\ Len(rest) = IF a < Least(Len(d), Len(d)) THEN Least(Len(d), Len(d)) - a ELSE 0
      /\ \A i \in 1..Len(rest) : rest[i] = d[a + i]
  BY <1>1, SubarrayElements
<1>4. /\ piece \in Seq(Byte)
      /\ Len(piece) = IF a < Least(b, Len(p)) THEN Least(b, Len(p)) - a ELSE 0
      /\ \A i \in 1..Len(piece) : piece[i] = p[a + i]
  BY SubarrayElements
<1>5. Subarray(rest, b - a, Len(rest)) = Subarray(d, b, Len(d))
  <2>1. Subarray(rest, b - a, Len(rest)) = Subarray(d, a + (b - a), Len(d))
    BY <1>2, SubarrayTwice
  <2> QED BY <1>2, <2>1
<1> HIDE DEF rest, piece
<1>6. Len(piece) = b - a BY <1>1, <1>4, SMT DEF Least
<1>7. Len(rest) = Len(d) - a BY <1>1, <1>3, SMT DEF Least
<1>8. Begins(rest, piece)
  <2>1. Len(piece) <= Len(rest) BY <1>1, <1>6, <1>7, SMT
  <2>2. ASSUME NEW i \in 1..Len(piece) PROVE rest[i] = piece[i]
    <3>1. i \in 1..Len(rest) /\ a + i \in 1..Len(p) BY <1>1, <1>6, <1>7, SMT
    <3>2. d[a + i] = p[a + i] BY <3>1 DEF Begins
    <3> QED BY <1>3, <1>4, <3>1, <3>2
  <2> QED BY <2>1, <2>2 DEF Begins
<1> QED BY <1>4, <1>5, <1>6, <1>8 DEF rest, piece

\* The bytes of a number, and the number they are read as.
LEMMA BytesOfU16 ==
  ASSUME NEW n \in Nat
  PROVE  /\ U16Bytes(n) \in Seq(Nat) /\ Len(U16Bytes(n)) = 2
         /\ 256 * U16Bytes(n)[1] + U16Bytes(n)[2] = n
<1>1. n \div 256 \in Nat /\ n % 256 \in Nat BY SMT
<1>2. 256 * (n \div 256) + (n % 256) = n BY SMT
<1> DEFINE h == n \div 256
           l == n % 256
<1>3. U16Bytes(n) = <<h, l>> BY DEF U16Bytes
<1>4. h \in Nat /\ l \in Nat BY <1>1
<1>c. 256 * h + l = n BY <1>2
<1> HIDE DEF h, l
<1>5. <<h, l>> \in Seq(Nat) /\ Len(<<h, l>>) = 2 /\ <<h, l>>[1] = h /\ <<h, l>>[2] = l
  BY <1>4
<1>6. U16Bytes(n) \in Seq(Nat) /\ Len(U16Bytes(n)) = 2 /\ U16Bytes(n)[1] = h /\ U16Bytes(n)[2] = l
  BY <1>3, <1>5
<1> QED BY <1>c, <1>6

\* Two pairs of bytes make four.
LEMMA PairsJoin ==
  ASSUME NEW s \in Seq(Nat), NEW t \in Seq(Nat), Len(s) = 2, Len(t) = 2
  PROVE  /\ s \o t \in Seq(Nat) /\ Len(s \o t) = 4
         /\ (s \o t)[1] = s[1] /\ (s \o t)[2] = s[2]
         /\ (s \o t)[3] = t[1] /\ (s \o t)[4] = t[2]
<1>1. /\ s \o t \in Seq(Nat) /\ Len(s \o t) = Len(s) + Len(t)
      /\ \A i \in 1 .. Len(s) + Len(t) : (s \o t)[i] = IF i <= Len(s) THEN s[i] ELSE t[i - Len(s)]
  BY ConcatProperties
<1> QED BY <1>1, SMT

\* A number of four bytes is written as four.
LEMMA BytesOfU32 ==
  ASSUME NEW n \in Nat
  PROVE  U32Bytes(n) \in Seq(Nat) /\ Len(U32Bytes(n)) = 4
<1> DEFINE s == U16Bytes(n \div 65536)
           t == U16Bytes(n % 65536)
<1>1. n \div 65536 \in Nat /\ n % 65536 \in Nat BY SMT
<1>2. s \in Seq(Nat) /\ Len(s) = 2 BY <1>1, BytesOfU16
<1>3. t \in Seq(Nat) /\ Len(t) = 2 BY <1>1, BytesOfU16
<1>4. U32Bytes(n) = s \o t BY DEF U32Bytes
<1> HIDE DEF s, t
<1> QED BY <1>2, <1>3, <1>4, PairsJoin

\* They are read as the number that was written.
LEMMA NumberOfU32 ==
  ASSUME NEW n \in Nat
  PROVE  65536 * (256 * U32Bytes(n)[1] + U32Bytes(n)[2])
           + (256 * U32Bytes(n)[3] + U32Bytes(n)[4]) = n
<1> DEFINE high == n \div 65536
           low == n % 65536
           s == U16Bytes(high)
           t == U16Bytes(low)
<1>1. high \in Nat /\ low \in Nat /\ 65536 * high + low = n BY SMT
<1>2. U32Bytes(n) = s \o t BY DEF U32Bytes
<1> HIDE DEF high, low
<1>3. s \in Seq(Nat) /\ Len(s) = 2 BY <1>1, BytesOfU16
<1>4. t \in Seq(Nat) /\ Len(t) = 2 BY <1>1, BytesOfU16
<1>5. 256 * s[1] + s[2] = high BY <1>1, BytesOfU16
<1>6. 256 * t[1] + t[2] = low BY <1>1, BytesOfU16
<1> HIDE DEF s, t
<1>7. /\ (s \o t)[1] = s[1] /\ (s \o t)[2] = s[2] /\ (s \o t)[3] = t[1] /\ (s \o t)[4] = t[2]
  BY <1>3, <1>4, PairsJoin
<1> QED BY <1>1, <1>2, <1>5, <1>6, <1>7

\* A length and what is behind it are read back.
LEMMA LengthPrefix ==
  ASSUME NEW p \in Seq(Byte), NEW v \in Seq(Byte), NEW n \in Nat, p = U32Bytes(n) \o v
  PROVE  Len(p) = 4 + Len(v) /\ U32At(p, 1) = n /\ Subarray(p, 4, Len(p)) = v
<1> DEFINE b == U32Bytes(n)
           w == Subarray(p, 4, Len(p))
<1>1. b \in Seq(Nat) /\ Len(b) = 4 BY BytesOfU32
<1>2. v \in Seq(Nat) /\ Len(v) \in Nat
  <2>1. v \in Seq(Nat) BY BytesAreNat, SeqMonotonic
  <2> QED BY <2>1, LenProperties
<1>3. 65536 * (256 * b[1] + b[2]) + (256 * b[3] + b[4]) = n BY NumberOfU32
<1>4. p = b \o v OBVIOUS
<1> HIDE DEF b
<1>5. /\ Len(b \o v) = Len(b) + Len(v)
      /\ \A i \in 1 .. Len(b) + Len(v) : (b \o v)[i] = IF i <= Len(b) THEN b[i] ELSE v[i - Len(b)]
  BY <1>1, <1>2, ConcatProperties
<1>6. /\ Len(p) = 4 + Len(v)
      /\ \A i \in 1 .. 4 + Len(v) : p[i] = IF i <= 4 THEN b[i] ELSE v[i - 4]
  BY <1>1, <1>4, <1>5
<1>7. p[1] = b[1] /\ p[2] = b[2] /\ p[3] = b[3] /\ p[4] = b[4] BY <1>2, <1>6, SMT
<1>8. U32At(p, 1) = n
  <2>1. 1 + 1 = 2 /\ 1 + 2 = 3 /\ 3 + 1 = 4 BY SMT
  <2>2. U32At(p, 1) = 65536 * (256 * p[1] + p[2]) + (256 * p[3] + p[4])
    BY <2>1 DEF U32At, U16At
  <2> QED BY <1>3, <1>7, <2>2
<1>9. w = v
  <2>1. 4 \in Nat /\ Len(p) \in Nat BY <1>2, <1>6, SMT
  <2>2. /\ w \in Seq(Byte)
        /\ Len(w) = IF 4 < Least(Len(p), Len(p)) THEN Least(Len(p), Len(p)) - 4 ELSE 0
        /\ \A i \in 1..Len(w) : w[i] = p[4 + i]
    BY <2>1, SubarrayElements
  <2> HIDE DEF w
  <2>3. Len(w) = Len(v) BY <1>2, <1>6, <2>1, <2>2, SMT DEF Least
  <2>4. ASSUME NEW i \in 1..Len(w) PROVE w[i] = v[i]
    <3>1. 4 + i \in 1 .. 4 + Len(v) /\ ~(4 + i <= 4) /\ 4 + i - 4 = i BY <1>2, <2>3, SMT
    <3>2. p[4 + i] = v[4 + i - 4] BY <1>6, <3>1
    <3> QED BY <2>2, <3>1, <3>2
  <2> QED BY <2>2, <2>3, <2>4, SeqEqual
<1> QED BY <1>6, <1>8, <1>9

\* A bit vector is read back, and every bit of it is 0 or 1.
LEMMA BitVecPiece ==
  ASSUME NEW p \in Seq(Byte), NEW bits \in Seq(Byte), EncodesBits(p, bits)
  PROVE  LET packed == Subarray(p, 6, Len(p))
         IN  /\ packed \in Seq(Byte) /\ Len(p) = 6 + Len(packed)
             /\ U16At(p, 1) = Len(bits) /\ U32At(p, 3) = Len(packed)
             /\ Bits(packed, Len(bits)) = bits
<1> DEFINE packed == Subarray(p, 6, Len(p))
           n == Len(bits)
           m == Len(packed)
           u == U16Bytes(n)
           w == U32Bytes(m)
<1>1. p = u \o w \o packed BY DEF EncodesBits
<1>2. m = (n + 7) \div 8 BY DEF EncodesBits
<1>3. \A i \in 0 .. 8 * m - 1 : Bit(packed, i) = IF i < n THEN bits[i + 1] ELSE 0
  BY DEF EncodesBits
<1>4. n \in Nat /\ Len(p) \in Nat /\ 6 \in Nat /\ DOMAIN bits = 1..n BY LenProperties, SMT
<1>5. packed \in Seq(Byte) BY <1>4, SubarrayElements
<1>6. m \in Nat BY <1>5, LenProperties
<1>7. packed \in Seq(Nat) BY <1>5, BytesAreNat, SeqMonotonic
<1>8. Bits(packed, n) = bits
  <2>1. Bits(packed, n) = [i \in 1..n |-> Bit(packed, i - 1)] BY DEF Bits
  <2> HIDE DEF packed, n, m, u, w
  <2>2. ASSUME NEW i \in 1..n PROVE Bit(packed, i - 1) = bits[i]
    <3>1. i - 1 \in 0 .. 8 * m - 1 /\ i - 1 < n /\ i - 1 + 1 = i BY <1>2, <1>4, <1>6, SMT
    <3> QED BY <1>3, <3>1
  <2>3. bits = [i \in 1..n |-> bits[i]] BY <1>4
  <2> QED BY <2>1, <2>2, <2>3
<1> HIDE DEF packed, m, n
<1>9. u \in Seq(Nat) /\ Len(u) = 2 BY <1>4, BytesOfU16
<1>a. 256 * u[1] + u[2] = n BY <1>4, BytesOfU16
<1>10. w \in Seq(Nat) /\ Len(w) = 4 BY <1>6, BytesOfU32
<1>b. 65536 * (256 * w[1] + w[2]) + (256 * w[3] + w[4]) = m BY <1>6, NumberOfU32
<1> HIDE DEF u, w
<1>11. /\ u \o w \in Seq(Nat) /\ Len(u \o w) = Len(u) + Len(w)
       /\ \A i \in 1 .. Len(u) + Len(w) : (u \o w)[i] = IF i <= Len(u) THEN u[i] ELSE w[i - Len(u)]
  BY <1>9, <1>10, ConcatProperties
<1> DEFINE q == u \o w
<1>12. /\ q \in Seq(Nat) /\ Len(q) = 6
       /\ q[1] = u[1] /\ q[2] = u[2] /\ q[3] = w[1] /\ q[4] = w[2] /\ q[5] = w[3] /\ q[6] = w[4]
  <2>1. q \in Seq(Nat) /\ Len(q) = 6
    <3>1. q \in Seq(Nat) /\ Len(q) = Len(u) + Len(w) BY <1>11
    <3>2. Len(u) + Len(w) = 6 BY <1>9, <1>10, SMT
    <3> QED BY <3>1, <3>2
  <2>2. \A i \in 1..6 : q[i] = IF i <= 2 THEN u[i] ELSE w[i - 2]
    <3>1. 1 .. Len(u) + Len(w) = 1..6 BY <1>9, <1>10, SMT
    <3>2. Len(u) = 2 BY <1>9
    <3> QED BY <1>11, <3>1, <3>2
  <2> HIDE DEF q
  <2>3. q[1] = u[1] /\ q[2] = u[2] BY <2>2, SMT
  <2>4. q[3] = w[1] /\ q[4] = w[2] BY <2>2, SMT
  <2>5. q[5] = w[3] /\ q[6] = w[4] BY <2>2, SMT
  <2> QED BY <2>1, <2>3, <2>4, <2>5
<1>13. p = q \o packed BY <1>1
<1> HIDE DEF q
<1>14. /\ Len(q \o packed) = Len(q) + Len(packed)
       /\ \A i \in 1 .. Len(q) + Len(packed) :
            (q \o packed)[i] = IF i <= Len(q) THEN q[i] ELSE packed[i - Len(q)]
  BY <1>7, <1>12, ConcatProperties
<1>m. m = Len(packed) BY DEF m
<1>15. Len(packed) \in Nat BY <1>7, LenProperties
<1>16. Len(p) = 6 + Len(packed) BY <1>12, <1>13, <1>14
<1>17. \A i \in 1 .. 6 + Len(packed) : i <= 6 => p[i] = q[i] BY <1>12, <1>13, <1>14
<1>18. p[1] = q[1] /\ p[2] = q[2] /\ p[3] = q[3] /\ p[4] = q[4] /\ p[5] = q[5] /\ p[6] = q[6]
  <2>1. \A i \in {1, 2, 3, 4, 5, 6} : i \in 1 .. 6 + Len(packed) /\ i <= 6 BY <1>15, SMT
  <2> QED BY <1>17, <2>1
<1>19. U16At(p, 1) = n
  <2>1. U16At(p, 1) = 256 * p[1] + p[2] BY DEF U16At
  <2> QED BY <1>a, <1>12, <1>18, <2>1
<1>20. U32At(p, 3) = m
  <2>1. U32At(p, 3) = 65536 * (256 * p[3] + p[4]) + (256 * p[5] + p[6])
    BY DEF U32At, U16At
  <2> QED BY <1>b, <1>12, <1>18, <2>1
<1> QED BY <1>5, <1>8, <1>16, <1>19, <1>20 DEF packed, m, n

\* A byte is the sum of its bits.
LEMMA SumOfBits ==
  ASSUME NEW x \in Byte
  PROVE  x = ((x \div 1) % 2) * 1 + ((x \div 2) % 2) * 2 + ((x \div 4) % 2) * 4
               + ((x \div 8) % 2) * 8 + ((x \div 16) % 2) * 16 + ((x \div 32) % 2) * 32
               + ((x \div 64) % 2) * 64 + ((x \div 128) % 2) * 128
<1> DEFINE h1 == x \div 2
           h2 == h1 \div 2
           h3 == h2 \div 2
           h4 == h3 \div 2
           h5 == h4 \div 2
           h6 == h5 \div 2
           h7 == h6 \div 2
<1>0. x \in Nat /\ x < 256 BY SMT DEF Byte
<1>1. h1 \in Nat /\ x = 2 * h1 + (x % 2) /\ h1 < 128 /\ x \div 1 = x BY <1>0, SMT
<1>2. h2 \in Nat /\ h1 = 2 * h2 + (h1 % 2) /\ h2 < 64 /\ x \div 4 = h2 BY <1>0, SMT
<1>3. h3 \in Nat /\ h2 = 2 * h3 + (h2 % 2) /\ h3 < 32 /\ x \div 8 = h3 BY <1>0, SMT
<1>4. h4 \in Nat /\ h3 = 2 * h4 + (h3 % 2) /\ h4 < 16 /\ x \div 16 = h4 BY <1>0, SMT
<1>5. h5 \in Nat /\ h4 = 2 * h5 + (h4 % 2) /\ h5 < 8 /\ x \div 32 = h5 BY <1>0, SMT
<1>6. h6 \in Nat /\ h5 = 2 * h6 + (h5 % 2) /\ h6 < 4 /\ x \div 64 = h6 BY <1>0, SMT
<1>7. h7 \in Nat /\ h6 = 2 * h7 + (h6 % 2) /\ h7 < 2 /\ x \div 128 = h7 BY <1>0, SMT
<1>8. h7 % 2 = h7 BY <1>7, SMT
<1>h. x \div 2 = h1 OBVIOUS
<1> DEFINE r0 == x % 2
           r1 == h1 % 2
           r2 == h2 % 2
           r3 == h3 % 2
           r4 == h4 % 2
           r5 == h5 % 2
           r6 == h6 % 2
<1>9. /\ r0 \in Nat /\ r1 \in Nat /\ r2 \in Nat /\ r3 \in Nat /\ r4 \in Nat /\ r5 \in Nat /\ r6 \in Nat
  BY <1>0, <1>1, <1>2, <1>3, <1>4, <1>5, <1>6, SMT
<1>10. /\ x = 2 * h1 + r0 /\ h1 = 2 * h2 + r1 /\ h2 = 2 * h3 + r2 /\ h3 = 2 * h4 + r3
       /\ h4 = 2 * h5 + r4 /\ h5 = 2 * h6 + r5 /\ h6 = 2 * h7 + r6
       /\ h1 \in Nat /\ h2 \in Nat /\ h3 \in Nat /\ h4 \in Nat /\ h5 \in Nat /\ h6 \in Nat /\ h7 \in Nat
  BY <1>1, <1>2, <1>3, <1>4, <1>5, <1>6, <1>7
<1>11. /\ (x \div 1) % 2 = r0 /\ (x \div 2) % 2 = r1 /\ (x \div 4) % 2 = r2 /\ (x \div 8) % 2 = r3
       /\ (x \div 16) % 2 = r4 /\ (x \div 32) % 2 = r5 /\ (x \div 64) % 2 = r6
       /\ (x \div 128) % 2 = h7
  BY <1>h, <1>1, <1>2, <1>3, <1>4, <1>5, <1>6, <1>7, <1>8
<1> HIDE DEF r0, r1, r2, r3, r4, r5, r6, h1, h2, h3, h4, h5, h6, h7
<1>12. x = r0 * 1 + r1 * 2 + r2 * 4 + r3 * 8 + r4 * 16 + r5 * 32 + r6 * 64 + h7 * 128
  BY <1>0, <1>9, <1>10, SMT
<1> QED BY <1>11, <1>12

\* What writeBitVec writes of the bits that were read is what was sent of them.
LEMMA BitVecWritten ==
  ASSUME NEW p \in Seq(Byte), NEW bits \in Seq(Byte), EncodesBits(p, bits)
  PROVE  WriteBitVec(bits) = p
<1> DEFINE packed == Subarray(p, 6, Len(p))
           m == Len(packed)
           n == Len(bits)
           Set(k, j) == IF 8 * k + j < n THEN bits[8 * k + j + 1] * Mask(j) ELSE 0
           Byte8(k)  == Set(k, 0) + Set(k, 1) + Set(k, 2) + Set(k, 3)
                          + Set(k, 4) + Set(k, 5) + Set(k, 6) + Set(k, 7)
           written == [k \in 1..m |-> Byte8(k - 1)]
<1>1. p = U16Bytes(n) \o U32Bytes(m) \o packed BY DEF EncodesBits
<1>2. m = (n + 7) \div 8 BY DEF EncodesBits
<1>3. \A i \in 0 .. 8 * m - 1 : Bit(packed, i) = IF i < n THEN bits[i + 1] ELSE 0
  BY DEF EncodesBits
<1>4. WriteBitVec(bits) = U16Bytes(n) \o U32Bytes(m) \o written
  <2>1. WriteBitVec(bits)
          = U16Bytes(n) \o U32Bytes((n + 7) \div 8)
              \o [k \in 1..((n + 7) \div 8) |-> Byte8(k - 1)]
    BY DEF WriteBitVec
  <2> HIDE DEF m, n, Byte8
  <2> QED BY <1>2, <2>1
<1>5. packed \in Seq(Byte) BY BitVecPiece
<1>6. n \in Nat /\ m \in Nat BY <1>5, LenProperties
<1> HIDE DEF packed, n
<1>7. ASSUME NEW k \in 1..m PROVE packed[k] = Byte8(k - 1)
  <2>1. packed[k] \in Byte BY <1>5, ElementOfSeq
  <2>2. ASSUME NEW j \in 0..7
        PROVE  Set(k - 1, j) = ((packed[k] \div Mask(j)) % 2) * Mask(j)
    <3> DEFINE i == 8 * (k - 1) + j
    <3>1. Mask(j) \in Nat BY SMT DEF Mask
    <3>2. i \in 0 .. 8 * m - 1 /\ i \div 8 = k - 1 /\ i % 8 = j /\ k - 1 < m /\ k - 1 + 1 = k
      BY <1>6, SMT
    <3> HIDE DEF i
    <3>3. Bit(packed, i) = (packed[k] \div Mask(j)) % 2 BY <3>2 DEF Bit, m
    <3>4. Bit(packed, i) = IF i < n THEN bits[i + 1] ELSE 0 BY <1>3, <3>2
    <3>5. Set(k - 1, j) = IF i < n THEN bits[i + 1] * Mask(j) ELSE 0 BY DEF i
    <3>6. 0 * Mask(j) = 0 BY <3>1, SMT
    <3> QED BY <3>3, <3>4, <3>5, <3>6
  <2>3. /\ Mask(0) = 1 /\ Mask(1) = 2 /\ Mask(2) = 4 /\ Mask(3) = 8
        /\ Mask(4) = 16 /\ Mask(5) = 32 /\ Mask(6) = 64 /\ Mask(7) = 128
    BY SMT DEF Mask
  <2> DEFINE Bit8(d) == ((packed[k] \div d) % 2) * d
  <2>4. \A j \in 0..7 : Set(k - 1, j) = Bit8(Mask(j)) BY <2>2
  <2>5. packed[k] = Bit8(1) + Bit8(2) + Bit8(4) + Bit8(8) + Bit8(16) + Bit8(32) + Bit8(64)
                      + Bit8(128)
    BY <2>1, SumOfBits
  <2> HIDE DEF Bit8, Set, m
  <2>6. Set(k - 1, 0) = Bit8(1) BY <2>3, <2>4, SMT
  <2>7. Set(k - 1, 1) = Bit8(2) BY <2>3, <2>4, SMT
  <2>8. Set(k - 1, 2) = Bit8(4) BY <2>3, <2>4, SMT
  <2>9. Set(k - 1, 3) = Bit8(8) BY <2>3, <2>4, SMT
  <2>10. Set(k - 1, 4) = Bit8(16) BY <2>3, <2>4, SMT
  <2>11. Set(k - 1, 5) = Bit8(32) BY <2>3, <2>4, SMT
  <2>12. Set(k - 1, 6) = Bit8(64) BY <2>3, <2>4, SMT
  <2>13. Set(k - 1, 7) = Bit8(128) BY <2>3, <2>4, SMT
  <2> QED BY <2>5, <2>6, <2>7, <2>8, <2>9, <2>10, <2>11, <2>12, <2>13
<1>8. packed = [k \in 1..m |-> packed[k]] BY <1>5, LenProperties DEF m
<1>9. packed = written
  <2> HIDE DEF m, Byte8
  <2> QED BY <1>7, <1>8
<1> HIDE DEF written, m
<1> QED BY <1>1, <1>4, <1>9

\* Some read consumes w bytes for a value.
Consumes(w, value, rest) ==
  \E n, extra \in Nat : n + extra = w /\ Consume(n, extra, value, rest)

ReadField == ReadScalar \/ ReadU8Enum \/ ReadArray

\* Which read is made is told by the operation.
LEMMA ReadOfOperation ==
  ASSUME ReadField
  PROVE  /\ current.op = "enum" => ReadU8Enum
         /\ current.op = "number" => ReadNumber
         /\ current.op = "bytes" => ReadBytes
         /\ current.op = "array" => ReadArray
         /\ current.op = "bitVec" => ReadBitVec
         /\ current.op = "vecString" => ReadVecString
         /\ current.op = "metadata" => ReadVecString \/ NoMetadata
         /\ current.op = "u8String" => ReadU8LengthPrefixedString
         /\ current.op = "tx" => ParseStacksTransaction
         /\ current.op # "items" /\ status = "reading" /\ todo # <<>>
BY DEF ReadField, ReadScalar, ReadU8Enum, ReadNumber, ReadBytes, ReadBitVec, ReadVecString,
       NoMetadata, ReadU8LengthPrefixedString, ReadArray, ParseStacksTransaction, Reads

\* What is in front of the buffer.
LEMMA FrontOfBuffer ==
  ASSUME TypeOK, NEW piece \in Seq(Byte), Begins(buffer, piece)
  PROVE  /\ buffer \in Seq(Byte) /\ Len(buffer) \in Nat /\ Len(piece) \in Nat
         /\ Len(piece) <= Len(buffer)
         /\ \A i \in 1..Len(piece) : buffer[i] = piece[i] /\ piece[i] \in Nat
         /\ Len(piece) # 0 => buffer # <<>>
<1>1. buffer \in Seq(Byte) BY DEF TypeOK
<1>2. Len(buffer) \in Nat /\ Len(piece) \in Nat BY <1>1, LenProperties
<1>3. Len(piece) <= Len(buffer) /\ \A i \in 1..Len(piece) : buffer[i] = piece[i]
  BY DEF Begins
<1>4. \A i \in 1..Len(piece) : piece[i] \in Nat BY ElementOfSeq, BytesAreNat
<1>5. Len(piece) # 0 => Len(buffer) # 0 BY <1>2, <1>3, SMT
<1>6. Len(<<>>) = 0 OBVIOUS
<1> QED BY <1>1, <1>2, <1>3, <1>4, <1>5, <1>6

\* The read to come is one of the formats'.
LEMMA CurrentRead ==
  ASSUME TypeOK, todo # <<>>
  PROVE  current \in AnyRead /\ current.n \in Nat
<1>1. current \in AnyRead BY HeadTailProperties DEF TypeOK, current, AnyRead
<1> QED BY <1>1 DEF AnyRead, Scalar, Array

\* An enum's value, as its sender wrote it, is read whole and goes on with its format.
LEMMA PieceOfEnum ==
  ASSUME TypeOK, todo # <<>>, NEW piece \in Seq(Byte), NEW value \in Seq(Byte), Begins(buffer, piece),
         Encodes(current, piece, value), current.op = "enum"
  PROVE  /\ ~Unreadable
         /\ ReadField => Consumes(Len(piece), value, ReadsAfter(current, value, Tail(todo)))
<1>1. /\ Len(piece) >= current.n /\ piece = value
      /\ Len(value) = 1 /\ value[1] \in EnumValues(current.field)
  BY DEF Encodes
<1>2. /\ Len(buffer) \in Nat /\ ~(Len(buffer) < current.n)
      /\ buffer # <<>> /\ buffer[1] = value[1]
  <2>1. current.n \in Nat BY CurrentRead
  <2>2. Len(piece) = 1 BY <1>1
  <2>3. Len(buffer) \in Nat /\ 1 <= Len(buffer) /\ buffer # <<>>
    <3>1. Len(buffer) \in Nat /\ Len(piece) <= Len(buffer) BY FrontOfBuffer
    <3>2. Len(piece) # 0 BY <2>2
    <3>3. buffer # <<>> BY <3>2, FrontOfBuffer
    <3> QED BY <2>2, <3>1, <3>3
  <2>4. buffer[1] = value[1]
    <3>1. 1 \in 1..Len(piece) BY <2>2
    <3> QED BY <1>1, <3>1, FrontOfBuffer
  <2>5. ~(Len(buffer) < current.n) BY <1>1, <2>1, <2>2, <2>3, SMT
  <2> QED BY <2>3, <2>4, <2>5
<1>3. ~Unreadable
  <2>1. buffer[1] \in EnumValues(current.field) BY <1>1, <1>2
  <2>2. current.op # "metadata" /\ current.op # "tx" OBVIOUS
  <2> QED BY <1>2, <2>1, <2>2 DEF Unreadable
<1>4. ASSUME ReadField
      PROVE  Consumes(Len(piece), value, ReadsAfter(current, value, Tail(todo)))
  <2>1. Consume(1, 0, <<buffer[1]>>, Continuation(current.field, buffer[1]) \o Tail(todo))
    BY <1>4, ReadOfOperation DEF ReadU8Enum
  <2>2. <<buffer[1]>> = value
    <3>1. <<value[1]>> \in Seq(Byte) /\ Len(<<value[1]>>) = 1 /\ <<value[1]>>[1] = value[1]
      BY <1>1, ElementOfSeq
    <3>2. \A i \in 1..1 : <<value[1]>>[i] = value[i] BY <3>1, SMT
    <3> QED BY <1>1, <1>2, <3>1, <3>2, SeqEqual
  <2>3. ReadsAfter(current, value, Tail(todo)) = Continuation(current.field, value[1]) \o Tail(todo)
    BY DEF ReadsAfter
  <2>4. 1 + 0 = Len(piece) /\ 1 \in Nat /\ 0 \in Nat BY <1>1
  <2>5. Consume(1, 0, value, ReadsAfter(current, value, Tail(todo)))
    BY <1>2, <2>1, <2>2, <2>3, Zenon
  <2> QED BY <2>4, <2>5 DEF Consumes
<1> QED BY <1>3, <1>4

\* So are a number, some bytes of a given length and an array's length.
LEMMA PieceOfBytes ==
  ASSUME TypeOK, todo # <<>>, NEW piece \in Seq(Byte), NEW value \in Seq(Byte), Begins(buffer, piece),
         Encodes(current, piece, value), current.op \in {"number", "bytes", "array"}
  PROVE  /\ ~Unreadable
         /\ ReadField => Consumes(Len(piece), value, ReadsAfter(current, value, Tail(todo)))
<1>1. /\ Len(piece) >= current.n /\ piece = value
      /\ current.op # "array" => Len(value) = current.n
      /\ current.op = "array" => Len(value) = 4
  BY DEF Encodes
<1>2. Len(piece) \in Nat /\ Len(buffer) \in Nat /\ Len(piece) <= Len(buffer) BY FrontOfBuffer
<1>5. ~Unreadable
  <2>1. current.n \in Nat BY CurrentRead
  <2>2. ~(Len(buffer) < current.n) BY <1>1, <1>2, <2>1, SMT
  <2>3. current.op # "metadata" /\ current.op # "tx" /\ current.op # "enum" OBVIOUS
  <2> QED BY <2>2, <2>3 DEF Unreadable
<1>6. Subarray(buffer, 0, Len(piece)) = value
  <2>1. 0 \in Nat /\ Len(piece) <= Len(piece) BY <1>2, SMT
  <2>2. buffer \in Seq(Byte) BY DEF TypeOK
  <2>3. Subarray(buffer, 0, Len(piece)) = Subarray(piece, 0, Len(piece))
    BY <1>2, <2>1, <2>2, SubarrayOfBeginning
  <2> QED BY <1>1, <2>3, SubarrayOfAll
<1>7. ASSUME ReadField
      PROVE  Consumes(Len(piece), value, ReadsAfter(current, value, Tail(todo)))
  <2> DEFINE w == Len(piece)
  <2>1. w + 0 = w /\ 0 + w = w /\ 0 \in Nat /\ w \in Nat BY <1>2, SMT
  <2>2. CASE current.op = "number"
    <3>1. Consume(w, 0, Subarray(buffer, 0, w), Tail(todo))
      BY <1>1, <1>7, <2>2, ReadOfOperation DEF ReadNumber
    <3>2. ReadsAfter(current, value, Tail(todo)) = Tail(todo) BY <2>2 DEF ReadsAfter
    <3> QED BY <1>6, <2>1, <3>1, <3>2 DEF Consumes
  <2>3. CASE current.op = "bytes"
    <3>1. Consume(0, w, Subarray(buffer, 0, w), Tail(todo))
      BY <1>1, <1>7, <2>3, ReadOfOperation DEF ReadBytes
    <3>2. ReadsAfter(current, value, Tail(todo)) = Tail(todo) BY <2>3 DEF ReadsAfter
    <3> QED BY <1>6, <2>1, <3>1, <3>2 DEF Consumes
  <2>4. CASE current.op = "array"
    <3>1. w = 4 BY <1>1, <2>4
    <3>2. Consume(4, 0, Subarray(buffer, 0, 4), <<Items(current, U32At(buffer, 1))>> \o Tail(todo))
      BY <1>7, <2>4, ReadOfOperation DEF ReadArray
    <3>3. U32At(buffer, 1) = U32At(value, 1)
      <4>1. \A i \in {1, 2, 3, 4} : i \in 1..Len(piece) BY <3>1, SMT
      <4>2. \A i \in {1, 2, 3, 4} : buffer[i] = value[i] BY <1>1, <4>1, FrontOfBuffer
      <4>3. U32At(value, 1) = 65536 * (256 * value[1] + value[2]) + (256 * value[3] + value[4])
        BY DEF U32At, U16At
      <4>4. U32At(buffer, 1)
              = 65536 * (256 * buffer[1] + buffer[2]) + (256 * buffer[3] + buffer[4])
        BY DEF U32At, U16At
      <4> QED BY <4>2, <4>3, <4>4
    <3>4. ReadsAfter(current, value, Tail(todo))
            = <<Items(current, U32At(value, 1))>> \o Tail(todo)
      BY <2>4 DEF ReadsAfter
    <3>5. Consume(4, 0, value, ReadsAfter(current, value, Tail(todo)))
      BY <1>6, <3>1, <3>2, <3>3, <3>4, Zenon
    <3> QED BY <2>1, <3>1, <3>5 DEF Consumes
  <2> QED BY <2>2, <2>3, <2>4
<1> QED BY <1>5, <1>7

\* So is a bit vector: the bits that are read are those that were written.
LEMMA PieceOfBitVec ==
  ASSUME TypeOK, todo # <<>>, NEW piece \in Seq(Byte), NEW value \in Seq(Byte),
         Begins(buffer, piece), Encodes(current, piece, value), current.op = "bitVec"
  PROVE  /\ ~Unreadable
         /\ ReadField => Consumes(Len(piece), value, ReadsAfter(current, value, Tail(todo)))
<1> DEFINE packed == Subarray(piece, 6, Len(piece))
           m == Len(packed)
<1>1. Len(piece) >= current.n /\ EncodesBits(piece, value) BY DEF Encodes
<1>2. /\ packed \in Seq(Byte) /\ Len(piece) = 6 + m
      /\ U16At(piece, 1) = Len(value) /\ U32At(piece, 3) = m
      /\ Bits(packed, Len(value)) = value
  BY <1>1, BitVecPiece
<1>3. m \in Nat BY <1>2, LenProperties
<1>4. Len(buffer) \in Nat /\ Len(piece) <= Len(buffer) BY FrontOfBuffer
<1>5. ~Unreadable
  <2>1. current.n \in Nat BY CurrentRead
  <2>2. ~(Len(buffer) < current.n)
    <3>1. Len(piece) \in Nat BY LenProperties
    <3> HIDE DEF m
    <3> QED BY <1>1, <1>4, <2>1, <3>1, SMT
  <2>3. current.op # "metadata" /\ current.op # "tx" /\ current.op # "enum" OBVIOUS
  <2> QED BY <2>2, <2>3 DEF Unreadable
<1>6. U16At(buffer, 1) = Len(value) /\ U32At(buffer, 3) = m
  <2> HIDE DEF m
  <2>1. \A i \in {1, 2, 3, 4, 5, 6} : i \in 1..Len(piece) BY <1>2, <1>3, SMT
  <2>2. \A i \in {1, 2, 3, 4, 5, 6} : buffer[i] = piece[i] BY <2>1, FrontOfBuffer
  <2>3. U16At(piece, 1) = 256 * piece[1] + piece[2] BY DEF U16At
  <2>4. U16At(buffer, 1) = 256 * buffer[1] + buffer[2] BY DEF U16At
  <2>5. U32At(piece, 3) = 65536 * (256 * piece[3] + piece[4]) + (256 * piece[5] + piece[6])
    BY DEF U32At, U16At
  <2>6. U32At(buffer, 3) = 65536 * (256 * buffer[3] + buffer[4]) + (256 * buffer[5] + buffer[6])
    BY DEF U32At, U16At
  <2> QED BY <1>2, <2>2, <2>3, <2>4, <2>5, <2>6
<1>7. Subarray(buffer, 6, 6 + m) = packed
  <2>1. buffer \in Seq(Byte) BY DEF TypeOK
  <2>2. 6 \in Nat /\ Len(piece) \in Nat /\ Len(piece) <= Len(piece) BY LenProperties, SMT
  <2>3. Subarray(buffer, 6, Len(piece)) = Subarray(piece, 6, Len(piece))
    BY <2>1, <2>2, SubarrayOfBeginning
  <2> QED BY <1>2, <2>3
<1>8. ASSUME ReadField
      PROVE  Consumes(Len(piece), value, ReadsAfter(current, value, Tail(todo)))
  <2>1. Consume(6, U32At(buffer, 3), Bits(Subarray(buffer, 6, 6 + U32At(buffer, 3)), U16At(buffer, 1)),
                Tail(todo))
    BY <1>8, ReadOfOperation DEF ReadBitVec
  <2>2. ReadsAfter(current, value, Tail(todo)) = Tail(todo) BY DEF ReadsAfter
  <2> HIDE DEF m, packed
  <2>3. Consume(6, m, value, ReadsAfter(current, value, Tail(todo)))
    BY <1>2, <1>6, <1>7, <2>1, <2>2
  <2> QED BY <1>2, <1>3, <2>3 DEF Consumes
<1> QED BY <1>5, <1>8

\* So is a string behind its length, the metadata included.
LEMMA PieceOfVecString ==
  ASSUME TypeOK, todo # <<>>, NEW piece \in Seq(Byte), NEW value \in Seq(Byte),
         Begins(buffer, piece), Encodes(current, piece, value),
         current.op \in {"vecString", "metadata"}
  PROVE  /\ ~Unreadable
         /\ ReadField => Consumes(Len(piece), value, ReadsAfter(current, value, Tail(todo)))
<1> DEFINE m == Len(value)
<1>1. Len(piece) >= current.n /\ piece = U32Bytes(m) \o value BY DEF Encodes
<1>2. m \in Nat BY LenProperties
<1>3. Len(piece) = 4 + m /\ U32At(piece, 1) = m /\ Subarray(piece, 4, Len(piece)) = value
  BY <1>1, <1>2, LengthPrefix
<1> HIDE DEF m
<1>4. /\ Len(buffer) \in Nat /\ Len(piece) <= Len(buffer) /\ Len(piece) \in Nat
      /\ buffer # <<>> /\ Len(buffer) >= 4
  <2>1. Len(buffer) \in Nat /\ Len(piece) <= Len(buffer) /\ Len(piece) \in Nat BY FrontOfBuffer
  <2>2. Len(piece) # 0 /\ Len(buffer) >= 4 BY <1>2, <1>3, <2>1, SMT
  <2>3. buffer # <<>> BY <2>2, FrontOfBuffer
  <2> QED BY <2>1, <2>2, <2>3
<1>5. ~Unreadable
  <2>1. current.n \in Nat BY CurrentRead
  <2>2. ~(Len(buffer) < current.n)
    <3>1. Len(piece) >= current.n BY <1>1
    <3> QED BY <1>4, <2>1, <3>1, SMT
  <2>4. Len(buffer) \notin 1..3
    <3>1. \A k \in Nat : k >= 4 => k \notin 1..3 BY SMT
    <3> QED BY <1>4, <3>1
  <2>3. current.op # "tx" /\ current.op # "enum" OBVIOUS
  <2> QED BY <2>2, <2>3, <2>4 DEF Unreadable
<1>6. U32At(buffer, 1) = m
  <2>1. \A i \in {1, 2, 3, 4} : i \in 1..Len(piece) BY <1>2, <1>3, SMT
  <2>2. \A i \in {1, 2, 3, 4} : buffer[i] = piece[i] BY <2>1, FrontOfBuffer
  <2>3. U32At(piece, 1) = 65536 * (256 * piece[1] + piece[2]) + (256 * piece[3] + piece[4])
    BY DEF U32At, U16At
  <2>4. U32At(buffer, 1) = 65536 * (256 * buffer[1] + buffer[2]) + (256 * buffer[3] + buffer[4])
    BY DEF U32At, U16At
  <2> QED BY <1>3, <2>2, <2>3, <2>4
<1>7. Subarray(buffer, 4, 4 + m) = value
  <2>1. buffer \in Seq(Byte) BY DEF TypeOK
  <2>2. 4 \in Nat /\ Len(piece) \in Nat /\ Len(piece) <= Len(piece) BY <1>4, SMT
  <2>3. Subarray(buffer, 4, Len(piece)) = Subarray(piece, 4, Len(piece))
    BY <2>1, <2>2, SubarrayOfBeginning
  <2> QED BY <1>3, <2>3
<1>8. ASSUME ReadField
      PROVE  Consumes(Len(piece), value, ReadsAfter(current, value, Tail(todo)))
  <2>1. ReadVecString
    <3>1. ~NoMetadata BY <1>4 DEF NoMetadata
    <3> QED BY <1>8, <3>1, ReadOfOperation
  <2>2. Consume(4, U32At(buffer, 1), Subarray(buffer, 4, 4 + U32At(buffer, 1)), Tail(todo))
    BY <2>1 DEF ReadVecString
  <2>3. ReadsAfter(current, value, Tail(todo)) = Tail(todo) BY DEF ReadsAfter
  <2>4. Consume(4, m, value, ReadsAfter(current, value, Tail(todo)))
    BY <1>6, <1>7, <2>2, <2>3
  <2> QED BY <1>2, <1>3, <2>4 DEF Consumes
<1> QED BY <1>5, <1>8

\* So is a string behind a length of one byte.
LEMMA PieceOfU8String ==
  ASSUME TypeOK, todo # <<>>, NEW piece \in Seq(Byte), NEW value \in Seq(Byte),
         Begins(buffer, piece), Encodes(current, piece, value), current.op = "u8String"
  PROVE  /\ ~Unreadable
         /\ ReadField => Consumes(Len(piece), value, ReadsAfter(current, value, Tail(todo)))
<1> DEFINE m == Len(value)
<1>1. Len(piece) >= current.n /\ piece = <<m>> \o value BY DEF Encodes
<1>2. m \in Nat BY LenProperties
<1> HIDE DEF m
<1>m. m = Len(value) BY DEF m
<1>3. /\ Len(piece) = 1 + m /\ piece[1] = m
      /\ \A i \in 1..m : piece[1 + i] = value[i]
  <2>1. <<m>> \in Seq(Nat) /\ Len(<<m>>) = 1 /\ <<m>>[1] = m BY <1>2
  <2>2. value \in Seq(Nat) BY BytesAreNat, SeqMonotonic
  <2> DEFINE s == <<m>>
  <2>3. s \in Seq(Nat) /\ Len(s) = 1 /\ s[1] = m BY <2>1
  <2>4. piece = s \o value BY <1>1
  <2> HIDE DEF s
  <2>5. /\ Len(s \o value) = Len(s) + Len(value)
        /\ \A i \in 1 .. Len(s) + Len(value) :
             (s \o value)[i] = IF i <= Len(s) THEN s[i] ELSE value[i - Len(s)]
    BY <2>2, <2>3, ConcatProperties
  <2>6. /\ Len(piece) = 1 + m
        /\ \A i \in 1 .. 1 + m : piece[i] = IF i <= 1 THEN s[i] ELSE value[i - 1]
    BY <1>m, <2>3, <2>4, <2>5
  <2>7. piece[1] = m BY <1>2, <2>3, <2>6, SMT
  <2>8. ASSUME NEW i \in 1..m PROVE piece[1 + i] = value[i]
    <3>1. 1 + i \in 1 .. 1 + m /\ ~(1 + i <= 1) /\ 1 + i - 1 = i BY <1>2, SMT
    <3> QED BY <2>6, <3>1
  <2> QED BY <2>6, <2>7, <2>8
<1>4. /\ Len(buffer) \in Nat /\ Len(piece) <= Len(buffer) /\ Len(piece) \in Nat BY FrontOfBuffer
<1>5. ~Unreadable
  <2>1. current.n \in Nat BY CurrentRead
  <2>2. ~(Len(buffer) < current.n) BY <1>1, <1>4, <2>1, SMT
  <2>3. current.op # "metadata" /\ current.op # "tx" /\ current.op # "enum" OBVIOUS
  <2> QED BY <2>2, <2>3 DEF Unreadable
<1>6. buffer[1] = m
  <2>1. 1 \in 1..Len(piece) BY <1>2, <1>3, SMT
  <2> QED BY <1>3, <2>1, FrontOfBuffer
<1>7. Subarray(buffer, 1, 1 + m) = value
  <2> DEFINE t == Subarray(buffer, 1, 1 + m)
  <2>1. buffer \in Seq(Byte) BY DEF TypeOK
  <2>2. 1 \in Nat /\ 1 + m \in Nat BY <1>2, SMT
  <2>3. /\ t \in Seq(Byte)
        /\ Len(t) = IF 1 < Least(1 + m, Len(buffer)) THEN Least(1 + m, Len(buffer)) - 1 ELSE 0
        /\ \A i \in 1..Len(t) : t[i] = buffer[1 + i]
    BY <2>1, <2>2, SubarrayElements
  <2> HIDE DEF t
  <2>4. Len(t) = m BY <1>2, <1>3, <1>4, <2>3, SMT DEF Least
  <2>5. ASSUME NEW i \in 1..Len(t) PROVE t[i] = value[i]
    <3>1. 1 + i \in 1..Len(piece) /\ i \in 1..m BY <1>2, <1>3, <2>4, SMT
    <3>2. buffer[1 + i] = piece[1 + i] BY <3>1, FrontOfBuffer
    <3> QED BY <1>3, <2>3, <3>1, <3>2
  <2>6. t \in Seq(Byte) /\ Len(t) = Len(value) BY <1>m, <2>3, <2>4
  <2>7. t = value BY <2>5, <2>6, SeqEqual
  <2> QED BY <2>7 DEF t
<1>8. ASSUME ReadField
      PROVE  Consumes(Len(piece), value, ReadsAfter(current, value, Tail(todo)))
  <2>1. Consume(1, buffer[1], Subarray(buffer, 1, 1 + buffer[1]), Tail(todo))
    BY <1>8, ReadOfOperation DEF ReadU8LengthPrefixedString
  <2>2. ReadsAfter(current, value, Tail(todo)) = Tail(todo) BY DEF ReadsAfter
  <2>3. Consume(1, m, value, ReadsAfter(current, value, Tail(todo)))
    BY <1>6, <1>7, <2>1, <2>2
  <2> QED BY <1>2, <1>3, <2>3 DEF Consumes
<1> QED BY <1>5, <1>8

\* So is a transaction, of which no more is taken than it has.
LEMMA PieceOfTransaction ==
  ASSUME TypeOK, todo # <<>>, NEW piece \in Seq(Byte), NEW value \in Seq(Byte),
         Begins(buffer, piece), Encodes(current, piece, value), current.op = "tx"
  PROVE  /\ ~Unreadable
         /\ ReadField => Consumes(Len(piece), value, ReadsAfter(current, value, Tail(todo)))
<1>1. /\ piece = value /\ piece # <<>>
      /\ piece[1] \in 1..Len(piece) /\ piece[1] = Len(piece)
  BY DEF Encodes, IsTransaction, TransactionLength
<1>2. /\ Len(buffer) \in Nat /\ Len(piece) <= Len(buffer) /\ Len(piece) \in Nat BY FrontOfBuffer
<1>3. Len(piece) # 0 /\ 1 \in 1..Len(piece) BY <1>1, <1>2, SMT
<1>4. buffer # <<>> /\ buffer[1] = Len(piece) BY <1>1, <1>3, FrontOfBuffer
<1>5. ~Unreadable
  <2>1. Len(piece) \in 1..Len(buffer) BY <1>2, <1>3, SMT
  <2>2. IsTransaction(buffer) BY <1>4, <2>1 DEF IsTransaction, TransactionLength
  <2> QED BY <2>2 DEF Unreadable
<1>6. Subarray(buffer, 0, Len(piece)) = value
  <2>1. 0 \in Nat /\ Len(piece) <= Len(piece) BY <1>2, SMT
  <2>2. buffer \in Seq(Byte) BY DEF TypeOK
  <2>3. Subarray(buffer, 0, Len(piece)) = Subarray(piece, 0, Len(piece))
    BY <1>2, <2>1, <2>2, SubarrayOfBeginning
  <2> QED BY <1>1, <2>3, SubarrayOfAll
<1>7. ASSUME ReadField
      PROVE  Consumes(Len(piece), value, ReadsAfter(current, value, Tail(todo)))
  <2>1. Consume(1, Len(piece) - 1, value, Tail(todo))
    BY <1>4, <1>6, <1>7, ReadOfOperation DEF ParseStacksTransaction, TransactionLength
  <2>2. ReadsAfter(current, value, Tail(todo)) = Tail(todo) BY DEF ReadsAfter
  <2>3. 1 + (Len(piece) - 1) = Len(piece) /\ 1 \in Nat /\ Len(piece) - 1 \in Nat
    BY <1>2, <1>3, SMT
  <2> QED BY <1>2, <2>1, <2>2, <2>3 DEF Consumes
<1> QED BY <1>5, <1>7

\* Metadata that is left out takes nothing.
LEMMA NoPiece ==
  ASSUME TypeOK, todo # <<>>, buffer = <<>>, current.op = "metadata"
  PROVE  /\ ~Unreadable
         /\ ReadField => Consumes(0, <<>>, ReadsAfter(current, <<>>, Tail(todo)))
<1>1. Len(buffer) = 0 OBVIOUS
<1>2. ~Unreadable
  <2>1. Len(buffer) \notin 1..3 BY <1>1, SMT
  <2>2. current.op # "tx" /\ current.op # "enum" OBVIOUS
  <2> QED BY <2>1, <2>2 DEF Unreadable
<1>3. ASSUME ReadField PROVE Consumes(0, <<>>, ReadsAfter(current, <<>>, Tail(todo)))
  <2>1. ~ReadVecString BY <1>1, SMT DEF ReadVecString
  <2>2. Consume(0, 0, <<>>, Tail(todo)) BY <1>3, <2>1, ReadOfOperation DEF NoMetadata
  <2>3. ReadsAfter(current, <<>>, Tail(todo)) = Tail(todo) BY DEF ReadsAfter
  <2>4. 0 + 0 = 0 /\ 0 \in Nat BY SMT
  <2> QED BY <2>2, <2>3, <2>4 DEF Consumes
<1> QED BY <1>2, <1>3

\* What is read where a piece is in front: its value, and all of the piece.
LEMMA ReadOfPiece ==
  ASSUME TypeOK, todo # <<>>, NEW piece \in Seq(Byte), NEW value \in Seq(Byte),
         Begins(buffer, piece), Encodes(current, piece, value)
  PROVE  /\ ~Unreadable /\ current.op # "items"
         /\ ReadField => Consumes(Len(piece), value, ReadsAfter(current, value, Tail(todo)))
<1>1. current.op \in {"enum", "number", "bytes", "array", "bitVec", "vecString", "metadata",
                      "u8String", "tx"}
  BY DEF Encodes
<1>2. CASE current.op = "enum" BY <1>2, PieceOfEnum
<1>3. CASE current.op \in {"number", "bytes", "array"} BY <1>3, PieceOfBytes
<1>4. CASE current.op = "bitVec" BY <1>4, PieceOfBitVec
<1>5. CASE current.op \in {"vecString", "metadata"} BY <1>5, PieceOfVecString
<1>6. CASE current.op = "u8String" BY <1>6, PieceOfU8String
<1>7. CASE current.op = "tx" BY <1>7, PieceOfTransaction
<1> QED BY <1>1, <1>2, <1>3, <1>4, <1>5, <1>6, <1>7

\* Where the reading of a slot's encoding is.
FieldsUpTo(msg, e, n) ==
  /\ Len(msg) = n
  /\ \A i \in 1..n : /\ msg[i].field = e.fields[i].field
                     /\ msg[i].value = e.fields[i].value
                     /\ msg[i].missing = 0

AtCursor(e, c, data) ==
  /\ todo = c.reads
  /\ buffer = Subarray(data, c.at, Len(data))
  /\ FieldsUpTo(fields, e, c.n)

ReadingEncodings ==
  status = "reading" =>
    \A e \in Encoded : Holds(slot, e) =>
      \E k \in 1..Len(e.cursors) : AtCursor(e, e.cursors[k], slot.data)

ParsedEncodings ==
  \A i \in 1..Len(parsed), e \in Encoded : Holds(slots[i], e) => Carries(parsed[i], e)

ThrownForReason ==
  status = "threw" =>
    /\ Len(parsed) < Len(slots)
    /\ ~slot.signed \/ ~\E e \in Encoded : Holds(slot, e)

AllParsed == status = "parsed" => Len(parsed) = Len(slots)

RInv == TypeOK /\ ReadingEncodings /\ ParsedEncodings /\ ThrownForReason /\ AllParsed

\* The cursors of an encoding are typed.
LEMMA CursorTyped ==
  ASSUME NEW e \in Encoded, NEW k \in 1..Len(e.cursors)
  PROVE  /\ e.cursors[k] \in Cursor
         /\ e.bytes \in Seq(Byte) /\ e.fields \in Seq([field : FieldNames, value : Seq(Byte)])
         /\ e \in Encoding /\ CursorsThrough(e)
<1>1. e \in Encoding /\ CursorsThrough(e) BY EncodedAssumption
<1>2. e.cursors \in Seq(Cursor) /\ e.bytes \in Seq(Byte)
      /\ e.fields \in Seq([field : FieldNames, value : Seq(Byte)])
  BY <1>1 DEF Encoding
<1>3. e.cursors[k] \in Cursor BY <1>2, ElementOfSeq
<1> QED BY <1>1, <1>2, <1>3

\* What is to come at a cursor that is not the last.
LEMMA NextCursor ==
  ASSUME NEW e \in Encoded, NEW k \in 1..Len(e.cursors), e.cursors[k].reads # <<>>
  PROVE  /\ k + 1 \in 1..Len(e.cursors)
         /\ \/ FieldBetween(e, e.cursors[k], e.cursors[k + 1])
            \/ ItemBetween(e.cursors[k], e.cursors[k + 1])
<1>1. e.cursors \in Seq(Cursor) /\ CursorsThrough(e) BY CursorTyped DEF Encoding
<1>2. Len(e.cursors) \in Nat BY <1>1, LenProperties
<1>3. /\ k < Len(e.cursors)
      /\ FieldBetween(e, e.cursors[k], e.cursors[k + 1]) \/ ItemBetween(e.cursors[k], e.cursors[k + 1])
  BY <1>1 DEF CursorsThrough
<1> QED BY <1>2, <1>3, SMT

\* The value of the next field, and what is in front of the buffer for it: its piece,
\* or nothing at all.
LEMMA NextField ==
  ASSUME TypeOK, status = "reading", NEW e \in Encoded, Holds(slot, e),
         NEW c \in Cursor, NEW d \in Cursor, AtCursor(e, c, slot.data), c.reads # <<>>,
         FieldBetween(e, c, d)
  PROVE  LET piece == Subarray(e.bytes, c.at, d.at)
             value == e.fields[d.n].value
         IN  /\ piece \in Seq(Byte) /\ value \in Seq(Byte) /\ Begins(buffer, piece)
             /\ Subarray(buffer, Len(piece), Len(buffer)) = Subarray(slot.data, d.at, Len(slot.data))
             /\ \/ Encodes(current, piece, value)
                \/ current.op = "metadata" /\ value = <<>> /\ buffer = <<>> /\ Len(piece) = 0
<1> DEFINE piece == Subarray(e.bytes, c.at, d.at)
           value == e.fields[d.n].value
<1>1. /\ e \in Encoding /\ e.bytes \in Seq(Byte)
      /\ e.fields \in Seq([field : FieldNames, value : Seq(Byte)])
  BY EncodedAssumption DEF Encoding
<1>2. slot \in Slot /\ slot.data \in Seq(Byte) BY ReadingSlot
<1>3. Begins(slot.data, e.bytes) /\ (~e.open => Len(slot.data) = Len(e.bytes))
  BY <1>1, <1>2, HeldBytes
<1>4. c.at \in Nat /\ d.at \in Nat /\ c.n \in Nat /\ c.at <= d.at /\ d.at <= Len(e.bytes)
      /\ d.n = c.n + 1 /\ d.n <= Len(e.fields)
  BY DEF Cursor, FieldBetween
<1>5. value \in Seq(Byte)
  <2>1. Len(e.fields) \in Nat BY <1>1, LenProperties
  <2>2. d.n \in 1..Len(e.fields) BY <1>4, <2>1, SMT
  <2>3. e.fields[d.n] \in [field : FieldNames, value : Seq(Byte)] BY <1>1, <2>2, ElementOfSeq
  <2> QED BY <2>3
<1>6. buffer = Subarray(slot.data, c.at, Len(slot.data)) /\ current = Head(c.reads)
  BY DEF AtCursor, current
<1>7. /\ piece \in Seq(Byte) /\ Len(piece) = d.at - c.at
      /\ Begins(Subarray(slot.data, c.at, Len(slot.data)), piece)
      /\ Subarray(Subarray(slot.data, c.at, Len(slot.data)), d.at - c.at,
                  Len(Subarray(slot.data, c.at, Len(slot.data))))
           = Subarray(slot.data, d.at, Len(slot.data))
  <2> DEFINE s == slot.data
             b == e.bytes
             x == c.at
             y == d.at
  <2>1. s \in Seq(Byte) /\ b \in Seq(Byte) /\ Begins(s, b) BY <1>1, <1>2, <1>3
  <2>2. x \in Nat /\ y \in Nat /\ x <= y /\ y <= Len(b) BY <1>4
  <2> HIDE DEF s, b, x, y
  <2>3. Subarray(b, x, y) \in Seq(Byte) /\ Len(Subarray(b, x, y)) = y - x
    BY <2>1, <2>2, NextPiece
  <2>4. Begins(Subarray(s, x, Len(s)), Subarray(b, x, y)) BY <2>1, <2>2, NextPiece
  <2>5. Subarray(Subarray(s, x, Len(s)), y - x, Len(Subarray(s, x, Len(s)))) = Subarray(s, y, Len(s))
    BY <2>1, <2>2, NextPiece
  <2> QED BY <2>3, <2>4, <2>5 DEF s, b, x, y
<1>8. Begins(buffer, piece)
      /\ Subarray(buffer, Len(piece), Len(buffer)) = Subarray(slot.data, d.at, Len(slot.data))
  BY <1>6, <1>7
<1>9. Encodes(current, piece, value) \/ LeavesOutMetadata(e, c, value) BY <1>6 DEF FieldBetween
<1>10. ASSUME LeavesOutMetadata(e, c, value)
       PROVE  current.op = "metadata" /\ value = <<>> /\ buffer = <<>> /\ Len(piece) = 0
  <2>1. current.op = "metadata" /\ value = <<>> /\ c.at = Len(e.bytes) /\ ~e.open
    BY <1>6, <1>10 DEF LeavesOutMetadata
  <2>2. d.at - c.at = 0 /\ Len(slot.data) <= c.at /\ Len(slot.data) \in Nat
    BY <1>3, <1>4, <2>1, SMT
  <2>3. buffer = <<>> BY <1>2, <1>4, <1>6, <2>2, SubarrayOfBytes
  <2> QED BY <1>7, <2>1, <2>2, <2>3
<1> QED BY <1>5, <1>7, <1>8, <1>9, <1>10

\* A slot that holds an encoding is not unreadable.
LEMMA EncodedIsReadable ==
  ASSUME TypeOK, ReadingEncodings, status = "reading", NEW e \in Encoded, Holds(slot, e)
  PROVE  ~Unreadable
<1>1. PICK k \in 1..Len(e.cursors) : AtCursor(e, e.cursors[k], slot.data)
  BY DEF ReadingEncodings
<1> DEFINE c == e.cursors[k]
           d == e.cursors[k + 1]
<1>2. CASE todo = <<>> BY <1>2 DEF Unreadable
<1>3. CASE todo # <<>>
  <2>1. todo = c.reads /\ current = Head(c.reads) BY <1>1 DEF AtCursor, current
  <2>2. k + 1 \in 1..Len(e.cursors) /\ (FieldBetween(e, c, d) \/ ItemBetween(c, d))
    BY <1>3, <2>1, NextCursor
  <2>3. c \in Cursor /\ d \in Cursor BY <2>2, CursorTyped
  <2>4. CASE ItemBetween(c, d)
    <3>1. current.op = "items" BY <2>1, <2>4 DEF ItemBetween
    <3> QED BY <3>1 DEF Unreadable
  <2>5. CASE FieldBetween(e, c, d)
    <3> DEFINE piece == Subarray(e.bytes, c.at, d.at)
               value == e.fields[d.n].value
    <3> HIDE DEF c, d
    <3>1. /\ piece \in Seq(Byte) /\ value \in Seq(Byte) /\ Begins(buffer, piece)
          /\ \/ Encodes(current, piece, value)
             \/ current.op = "metadata" /\ buffer = <<>>
      BY <1>1, <1>3, <2>1, <2>3, <2>5, NextField DEF c
    <3> HIDE DEF piece, value
    <3>2. CASE Encodes(current, piece, value) BY <1>3, <3>1, <3>2, ReadOfPiece
    <3>3. CASE current.op = "metadata" /\ buffer = <<>> BY <1>3, <3>3, NoPiece
    <3> QED BY <3>1, <3>2, <3>3
  <2> QED BY <2>2, <2>4, <2>5
<1> QED BY <1>2, <1>3

\* A read that takes w bytes that are there.
LEMMA ConsumesWhole ==
  ASSUME TypeOK, status = "reading", todo # <<>>, NEW w \in Nat, NEW value \in Seq(Byte),
         NEW rest, Consumes(w, value, rest), w <= Len(buffer)
  PROVE  /\ todo' = rest /\ slots' = slots /\ parsed' = parsed /\ status' = "reading"
         /\ buffer' = Subarray(buffer, w, Len(buffer))
         /\ Len(fields) \in Nat /\ Len(fields') = Len(fields) + 1
         /\ \A i \in 1..Len(fields) : fields'[i] = fields[i]
         /\ fields'[Len(fields) + 1].field = current.field
         /\ fields'[Len(fields) + 1].value = value
         /\ fields'[Len(fields) + 1].missing = 0
<1>1. PICK n, extra \in Nat : n + extra = w /\ Consume(n, extra, value, rest) BY DEF Consumes
<1> DEFINE f == [field |-> current.field, value |-> value,
                 missing |-> n + extra - Least(n + extra, Len(buffer))]
<1>2. fields \in Seq(Field) /\ buffer \in Seq(Byte) BY DEF TypeOK
<1>3. Len(buffer) \in Nat /\ Len(fields) \in Nat BY <1>2, LenProperties
<1>4. current.field \in FieldNames
  <2>1. current \in AnyRead BY CurrentRead
  <2> QED BY <2>1 DEF AnyRead, Scalar, Array
<1>5. n + extra - Least(n + extra, Len(buffer)) = 0 BY <1>1, <1>3, SMT DEF Least
<1>6. f \in Field
  <2>1. n + extra - Least(n + extra, Len(buffer)) \in Nat BY <1>5
  <2> QED BY <1>4, <2>1 DEF Field
<1>7. f.field = current.field /\ f.value = value /\ f.missing = 0 BY <1>5
<1>8. fields' = Append(fields, f) /\ buffer' = Subarray(buffer, w, Len(buffer))
  BY <1>1 DEF Consume
<1>9. todo' = rest /\ slots' = slots /\ parsed' = parsed /\ status' = "reading"
  BY <1>1 DEF Consume
<1> HIDE DEF f
<1>10. /\ Len(fields') = Len(fields) + 1
       /\ \A i \in 1..Len(fields) : fields'[i] = fields[i]
       /\ fields'[Len(fields) + 1] = f
  BY <1>2, <1>6, <1>8, AppendProperties
<1> QED BY <1>3, <1>7, <1>8, <1>9, <1>10

\* A read at a cursor leads to the next one.
LEMMA ReadToNextCursor ==
  ASSUME TypeOK, ReadField, NEW e \in Encoded, Holds(slot, e),
         NEW c \in Cursor, NEW d \in Cursor, AtCursor(e, c, slot.data), FieldBetween(e, c, d)
  PROVE  /\ todo' = d.reads
         /\ buffer' = Subarray(slot.data, d.at, Len(slot.data))
         /\ FieldsUpTo(fields', e, d.n)
         /\ slots' = slots /\ parsed' = parsed /\ status' = "reading"
<1> DEFINE piece == Subarray(e.bytes, c.at, d.at)
           value == e.fields[d.n].value
<1>1. status = "reading" /\ todo # <<>> BY ReadOfOperation
<1>2. todo = c.reads /\ current = Head(c.reads) /\ FieldsUpTo(fields, e, c.n)
  BY DEF AtCursor, current
<1>3. /\ piece \in Seq(Byte) /\ value \in Seq(Byte) /\ Begins(buffer, piece)
      /\ Subarray(buffer, Len(piece), Len(buffer)) = Subarray(slot.data, d.at, Len(slot.data))
      /\ \/ Encodes(current, piece, value)
         \/ current.op = "metadata" /\ value = <<>> /\ buffer = <<>> /\ Len(piece) = 0
  BY <1>1, <1>2, NextField
<1>4. /\ d.reads = ReadsAfter(current, value, Tail(todo))
      /\ e.fields[d.n].field = current.field /\ d.n = c.n + 1
  BY <1>2 DEF FieldBetween
<1>v. e.fields[d.n].value = value OBVIOUS
<1> HIDE DEF piece, value
<1>5. Consumes(Len(piece), value, d.reads)
  <2>1. CASE Encodes(current, piece, value)
    <3>1. Consumes(Len(piece), value, ReadsAfter(current, value, Tail(todo)))
      BY <1>1, <1>3, <2>1, ReadOfPiece
    <3> QED BY <1>4, <3>1
  <2>2. CASE current.op = "metadata" /\ value = <<>> /\ buffer = <<>> /\ Len(piece) = 0
    <3>1. Consumes(0, <<>>, ReadsAfter(current, <<>>, Tail(todo))) BY <1>1, <2>2, NoPiece
    <3> QED BY <1>4, <2>2, <3>1
  <2> QED BY <1>3, <2>1, <2>2
<1>6. Len(piece) \in Nat /\ Len(piece) <= Len(buffer) BY <1>3, FrontOfBuffer
<1>7. /\ todo' = d.reads /\ slots' = slots /\ parsed' = parsed /\ status' = "reading"
      /\ buffer' = Subarray(buffer, Len(piece), Len(buffer))
      /\ Len(fields) \in Nat /\ Len(fields') = Len(fields) + 1
      /\ \A i \in 1..Len(fields) : fields'[i] = fields[i]
      /\ fields'[Len(fields) + 1].field = current.field
      /\ fields'[Len(fields) + 1].value = value
      /\ fields'[Len(fields) + 1].missing = 0
  BY <1>1, <1>3, <1>5, <1>6, ConsumesWhole
<1>8. FieldsUpTo(fields', e, d.n)
  <2>1. Len(fields) = c.n /\ Len(fields') = d.n /\ c.n \in Nat /\ d.n = c.n + 1
    BY <1>2, <1>4, <1>7 DEF FieldsUpTo
  <2>2. ASSUME NEW i \in 1..d.n
        PROVE  /\ fields'[i].field = e.fields[i].field
               /\ fields'[i].value = e.fields[i].value
               /\ fields'[i].missing = 0
    <3>1. CASE i = d.n BY <1>4, <1>v, <1>7, <2>1, <3>1
    <3>2. CASE i # d.n
      <4>1. i \in 1..c.n BY <2>1, <3>2, SMT
      <4>2. fields'[i] = fields[i] BY <1>7, <2>1, <4>1
      <4> QED BY <1>2, <4>1, <4>2 DEF FieldsUpTo
    <3> QED BY <3>1, <3>2
  <2> QED BY <2>1, <2>2 DEF FieldsUpTo
<1> QED BY <1>3, <1>7, <1>8

\* Where the slot's encoding is read from in the next state.
LEMMA AtNextCursor ==
  ASSUME slots' = slots, parsed' = parsed,
         \A e \in Encoded : Holds(slot, e) =>
           \E k \in 1..Len(e.cursors) :
             /\ todo' = e.cursors[k].reads
             /\ buffer' = Subarray(slot.data, e.cursors[k].at, Len(slot.data))
             /\ FieldsUpTo(fields', e, e.cursors[k].n)
  PROVE  ReadingEncodings'
<1>1. slot' = slot BY DEF slot
<1>2. ASSUME NEW e \in Encoded, Holds(slot, e)'
      PROVE  (\E k \in 1..Len(e.cursors) : AtCursor(e, e.cursors[k], slot.data))'
  <2>1. Holds(slot, e) BY <1>1, <1>2 DEF Holds
  <2>2. PICK k \in 1..Len(e.cursors) :
          /\ todo' = e.cursors[k].reads
          /\ buffer' = Subarray(slot.data, e.cursors[k].at, Len(slot.data))
          /\ FieldsUpTo(fields', e, e.cursors[k].n)
    BY <2>1
  <2>3. AtCursor(e, e.cursors[k], slot.data)' BY <1>1, <2>2 DEF AtCursor, FieldsUpTo
  <2> QED BY <2>3
<1> QED BY <1>2 DEF ReadingEncodings

\* A read leads to the next cursor of every encoding the slot holds.
LEMMA RoundReads == TypeOK /\ ReadingEncodings /\ ReadField => ReadingEncodings'
<1> SUFFICES ASSUME TypeOK, ReadingEncodings, ReadField PROVE ReadingEncodings' OBVIOUS
<1>1. status = "reading" /\ todo # <<>> /\ current.op # "items" BY ReadOfOperation
<1>2. ASSUME NEW e \in Encoded, Holds(slot, e)
      PROVE  /\ slots' = slots /\ parsed' = parsed
             /\ \E k \in 1..Len(e.cursors) :
                  /\ todo' = e.cursors[k].reads
                  /\ buffer' = Subarray(slot.data, e.cursors[k].at, Len(slot.data))
                  /\ FieldsUpTo(fields', e, e.cursors[k].n)
  <2>1. PICK k \in 1..Len(e.cursors) : AtCursor(e, e.cursors[k], slot.data)
    BY <1>1, <1>2 DEF ReadingEncodings
  <2> DEFINE c == e.cursors[k]
             d == e.cursors[k + 1]
  <2>2. c.reads # <<>> /\ current = Head(c.reads) BY <1>1, <2>1 DEF AtCursor, current
  <2>3. k + 1 \in 1..Len(e.cursors) /\ (FieldBetween(e, c, d) \/ ItemBetween(c, d))
    BY <2>2, NextCursor
  <2>4. FieldBetween(e, c, d) BY <1>1, <2>2, <2>3 DEF ItemBetween
  <2>5. c \in Cursor /\ d \in Cursor BY <2>3, CursorTyped
  <2>6. /\ todo' = d.reads
        /\ buffer' = Subarray(slot.data, d.at, Len(slot.data))
        /\ FieldsUpTo(fields', e, d.n)
        /\ slots' = slots /\ parsed' = parsed
    BY <1>2, <2>1, <2>4, <2>5, ReadToNextCursor
  <2> QED BY <2>3, <2>6
<1>3. slots' = slots /\ parsed' = parsed
  BY DEF ReadField, ReadScalar, ReadU8Enum, ReadNumber, ReadBytes, ReadBitVec, ReadVecString,
         NoMetadata, ReadU8LengthPrefixedString, ReadArray, ParseStacksTransaction, Consume
<1> QED BY <1>2, <1>3, AtNextCursor

\* So does the step to an array's next item, which takes no bytes.
LEMMA RoundItem == TypeOK /\ ReadingEncodings /\ NextItem => ReadingEncodings'
<1> SUFFICES ASSUME TypeOK, ReadingEncodings, NextItem PROVE ReadingEncodings' OBVIOUS
<1>1. /\ status = "reading" /\ todo # <<>> /\ current.op = "items"
      /\ todo' = ReadsOfItems(current, Tail(todo))
      /\ slots' = slots /\ parsed' = parsed /\ buffer' = buffer /\ fields' = fields
  BY DEF NextItem, Reads
<1>2. ASSUME NEW e \in Encoded, Holds(slot, e)
      PROVE  \E k \in 1..Len(e.cursors) :
               /\ todo' = e.cursors[k].reads
               /\ buffer' = Subarray(slot.data, e.cursors[k].at, Len(slot.data))
               /\ FieldsUpTo(fields', e, e.cursors[k].n)
  <2>1. PICK k \in 1..Len(e.cursors) : AtCursor(e, e.cursors[k], slot.data)
    BY <1>1, <1>2 DEF ReadingEncodings
  <2> DEFINE c == e.cursors[k]
             d == e.cursors[k + 1]
  <2>2. todo = c.reads /\ c.reads # <<>> /\ current = Head(c.reads)
    BY <1>1, <2>1 DEF AtCursor, current
  <2>3. k + 1 \in 1..Len(e.cursors) /\ (FieldBetween(e, c, d) \/ ItemBetween(c, d))
    BY <2>2, NextCursor
  <2>4. c \in Cursor /\ d \in Cursor BY <2>3, CursorTyped
  <2>5. ItemBetween(c, d)
    <3>1. ~Encodes(current, Subarray(e.bytes, c.at, d.at), e.fields[d.n].value)
      BY <1>1 DEF Encodes
    <3>2. ~LeavesOutMetadata(e, c, e.fields[d.n].value) BY <1>1, <2>2 DEF LeavesOutMetadata
    <3>3. ~FieldBetween(e, c, d) BY <2>2, <3>1, <3>2 DEF FieldBetween
    <3> QED BY <2>3, <3>3
  <2> HIDE DEF c, d
  <2>6. d = [c EXCEPT !.reads = ReadsOfItems(Head(c.reads), Tail(c.reads))]
    BY <2>5 DEF ItemBetween
  <2>7. d.reads = ReadsOfItems(current, Tail(todo)) /\ d.at = c.at /\ d.n = c.n
    BY <2>2, <2>4, <2>6 DEF Cursor
  <2>8. buffer = Subarray(slot.data, c.at, Len(slot.data)) /\ FieldsUpTo(fields, e, c.n)
    BY <2>1 DEF AtCursor, c
  <2>9. /\ todo' = d.reads
        /\ buffer' = Subarray(slot.data, d.at, Len(slot.data))
        /\ FieldsUpTo(fields', e, d.n)
    BY <1>1, <2>7, <2>8
  <2> QED BY <2>3, <2>9 DEF d
<1> QED BY <1>1, <1>2, AtNextCursor

\* A slot that is begun is at the first cursor.
LEMMA RoundParseSlot == TypeOK /\ ParseSlot => ReadingEncodings'
<1> SUFFICES ASSUME TypeOK, ParseSlot PROVE ReadingEncodings' OBVIOUS
<1>1. /\ todo' = <<Enum("messageType")>> /\ buffer' = slot.data /\ fields' = <<>>
      /\ slots' = slots /\ parsed' = parsed /\ Len(parsed) < Len(slots)
  BY DEF ParseSlot
<1>2. slot.data \in Seq(Byte)
  <2>1. Len(parsed) \in Nat /\ Len(slots) \in Nat BY LenProperties DEF TypeOK
  <2>2. Len(parsed) + 1 \in 1..Len(slots) BY <1>1, <2>1, SMT
  <2>3. slot \in Slot BY <2>2, ElementOfSeq DEF TypeOK, slot
  <2> QED BY <2>3 DEF Slot
<1>3. ASSUME NEW e \in Encoded
      PROVE  \E k \in 1..Len(e.cursors) :
               /\ todo' = e.cursors[k].reads
               /\ buffer' = Subarray(slot.data, e.cursors[k].at, Len(slot.data))
               /\ FieldsUpTo(fields', e, e.cursors[k].n)
  <2>1. e.cursors \in Seq(Cursor) /\ CursorsThrough(e) BY EncodedAssumption DEF Encoding
  <2>2. e.cursors # <<>> /\ e.cursors[1] = [reads |-> <<Enum("messageType")>>, at |-> 0, n |-> 0]
    BY <2>1 DEF CursorsThrough
  <2>3. 1 \in 1..Len(e.cursors)
    <3>1. Len(e.cursors) \in Nat \ {0} BY <2>1, <2>2, EmptySeq
    <3> QED BY <3>1, SMT
  <2>4. /\ e.cursors[1].reads = <<Enum("messageType")>>
        /\ e.cursors[1].at = 0 /\ e.cursors[1].n = 0
    BY <2>2
  <2>5. slot.data = Subarray(slot.data, 0, Len(slot.data)) BY <1>2, SubarrayOfAll
  <2>6. FieldsUpTo(<<>>, e, 0)
    <3>1. Len(<<>>) = 0 /\ 1..0 = {} BY SMT
    <3> QED BY <3>1 DEF FieldsUpTo
  <2> QED BY <1>1, <2>3, <2>4, <2>5, <2>6
<1> QED BY <1>1, <1>3, AtNextCursor

\* The last cursor is that of a message that carries the encoding.
LEMMA RoundSlotParsed ==
  TypeOK /\ ReadingEncodings /\ ParsedEncodings /\ SlotParsed => ParsedEncodings'
<1> SUFFICES ASSUME TypeOK, ReadingEncodings, ParsedEncodings, SlotParsed,
                    NEW i \in 1..Len(parsed'), NEW e \in Encoded, Holds(slots[i], e)
             PROVE  Carries(parsed'[i], e)
  BY DEF ParsedEncodings, Carries, Holds, SlotParsed
<1>1. /\ status = "reading" /\ todo = <<>> /\ parsed' = Append(parsed, fields)
  BY DEF SlotParsed
<1>2. parsed \in Seq(Seq(Field)) /\ fields \in Seq(Field) BY DEF TypeOK
<1>3. /\ Len(parsed) \in Nat /\ Len(parsed') = Len(parsed) + 1
      /\ \A j \in 1..Len(parsed) : parsed'[j] = parsed[j]
      /\ parsed'[Len(parsed) + 1] = fields
  BY <1>1, <1>2, AppendProperties, LenProperties
<1>4. CASE i = Len(parsed) + 1
  <2>1. Holds(slot, e) BY <1>4 DEF slot
  <2>2. PICK k \in 1..Len(e.cursors) : AtCursor(e, e.cursors[k], slot.data)
    BY <1>1, <2>1 DEF ReadingEncodings
  <2>3. e.cursors[k].n = Len(e.fields)
    <3>1. e.cursors[k].reads = <<>> BY <1>1, <2>2 DEF AtCursor
    <3>2. CursorsThrough(e) BY EncodedAssumption
    <3> QED BY <3>1, <3>2 DEF CursorsThrough, IsLastCursor
  <2>4. FieldsUpTo(fields, e, Len(e.fields)) BY <2>2, <2>3 DEF AtCursor
  <2>5. DOMAIN fields = 1..Len(fields) BY <1>2, LenProperties
  <2>6. Carries(fields, e) BY <2>4, <2>5 DEF FieldsUpTo, Carries
  <2> QED BY <1>3, <1>4, <2>6
<1>5. CASE i # Len(parsed) + 1
  <2>1. i \in 1..Len(parsed) BY <1>3, <1>5, SMT
  <2>2. Carries(parsed[i], e) BY <2>1 DEF ParsedEncodings
  <2> QED BY <1>3, <2>1, <2>2
<1> QED BY <1>4, <1>5

\* Every step, whichever read it makes, keeps the cursors' invariant.
LEMMA RoundStep == RInv /\ [Next]_vars => RInv'
<1> SUFFICES ASSUME RInv, [Next]_vars PROVE RInv' OBVIOUS
<1>0. TypeOK /\ ReadingEncodings /\ ParsedEncodings /\ ThrownForReason /\ AllParsed BY DEF RInv
<1>1. TypeOK' BY <1>0, TypeStep
<1>2. CASE ParseSlot
  <2>1. parsed' = parsed /\ slots' = slots /\ status' = "reading" BY <1>2 DEF ParseSlot
  <2>2. ParsedEncodings' BY <1>0, <2>1 DEF ParsedEncodings
  <2>3. ThrownForReason' /\ AllParsed' BY <2>1 DEF ThrownForReason, AllParsed
  <2> QED BY <1>0, <1>1, <1>2, <2>2, <2>3, RoundParseSlot DEF RInv
<1>3. CASE SlotParsed
  <2>1. status' = "slot" BY <1>3 DEF SlotParsed
  <2>2. ReadingEncodings' /\ ThrownForReason' /\ AllParsed'
    BY <2>1 DEF ReadingEncodings, ThrownForReason, AllParsed
  <2> QED BY <1>0, <1>1, <1>3, <2>2, RoundSlotParsed DEF RInv
<1>4. CASE SlotThrows
  <2>1. parsed' = parsed /\ slots' = slots /\ status' = "threw" /\ slot' = slot
    BY <1>4 DEF SlotThrows, slot
  <2>2. ParsedEncodings' BY <1>0, <2>1 DEF ParsedEncodings
  <2>3. ReadingEncodings' /\ AllParsed' BY <2>1 DEF ReadingEncodings, AllParsed
  <2>4. CASE Unreadable
    <3>1. status = "reading" BY <2>4 DEF Unreadable
    <3>2. Len(parsed) < Len(slots) BY <1>0, <3>1 DEF TypeOK
    <3>3. ~\E e \in Encoded : Holds(slot, e) BY <1>0, <2>4, <3>1, EncodedIsReadable
    <3> QED BY <1>1, <2>1, <2>2, <2>3, <3>2, <3>3 DEF RInv, ThrownForReason, Holds
  <2>5. CASE Len(parsed) < Len(slots) /\ ~slot.signed
    BY <1>1, <2>1, <2>2, <2>3, <2>5 DEF RInv, ThrownForReason
  <2> QED BY <1>4, <2>4, <2>5 DEF SlotThrows
<1>5. CASE ChunkParsed
  <2>1. parsed' = parsed /\ slots' = slots /\ status' = "parsed" /\ Len(parsed) = Len(slots)
    BY <1>5 DEF ChunkParsed
  <2>2. ParsedEncodings' BY <1>0, <2>1 DEF ParsedEncodings
  <2>3. ReadingEncodings' /\ ThrownForReason' /\ AllParsed'
    BY <2>1 DEF ReadingEncodings, ThrownForReason, AllParsed
  <2> QED BY <1>1, <2>2, <2>3 DEF RInv
<1>6. CASE ReadField \/ NextItem
  <2>1. parsed' = parsed /\ slots' = slots /\ status' = status /\ status = "reading"
    BY <1>6 DEF ReadField, ReadScalar, ReadU8Enum, ReadNumber, ReadBytes, ReadBitVec,
       ReadVecString, NoMetadata, ReadU8LengthPrefixedString, ReadArray, NextItem,
       ParseStacksTransaction, Consume, Reads
  <2>2. ParsedEncodings' BY <1>0, <2>1 DEF ParsedEncodings
  <2>3. ThrownForReason' /\ AllParsed' BY <2>1 DEF ThrownForReason, AllParsed
  <2>4. ReadingEncodings' BY <1>0, <1>6, RoundReads, RoundItem
  <2> QED BY <1>1, <2>2, <2>3, <2>4 DEF RInv
<1>7. CASE UNCHANGED vars
  <2>1. /\ slots' = slots /\ parsed' = parsed /\ buffer' = buffer /\ todo' = todo
        /\ fields' = fields /\ status' = status /\ slot' = slot
    BY <1>7 DEF vars, slot
  <2>2. ParsedEncodings' BY <1>0, <2>1 DEF ParsedEncodings
  <2>3. ThrownForReason' /\ AllParsed' BY <1>0, <2>1 DEF ThrownForReason, AllParsed
  <2>4. ReadingEncodings' BY <1>0, <2>1 DEF ReadingEncodings, AtCursor
  <2> QED BY <1>1, <2>2, <2>3, <2>4 DEF RInv
<1> QED BY <1>2, <1>3, <1>4, <1>5, <1>6, <1>7 DEF Next, ReadField, ReadScalar

\* The cursors' invariant holds in every behaviour.
LEMMA RoundInvariant == Spec => []RInv
<1>1. Init => RInv
  <2>1. Len(<<>>) = 0 OBVIOUS
  <2>2. Init => ParsedEncodings BY <2>1, SMT DEF Init, ParsedEncodings
  <2>3. Init => ReadingEncodings /\ ThrownForReason /\ AllParsed
    BY DEF Init, ReadingEncodings, ThrownForReason, AllParsed
  <2> QED BY <2>2, <2>3, TypeInit DEF RInv
<1>2. RInv /\ [Next]_vars => RInv' BY RoundStep
<1> QED BY <1>1, <1>2, PTL DEF Spec

\* For any encodings and any chunk: every slot that holds one is parsed to what its
\* sender wrote, in the order of the slots, and only a slot that holds none, or whose
\* key cannot be recovered, makes the chunk throw.
THEOREM EncodedSlotsRoundTrip == Spec => []SlotsRoundTrip
<1>1. RInv => SlotsRoundTrip
  <2> SUFFICES ASSUME RInv PROVE SlotsRoundTrip OBVIOUS
  <2>1. ParsedEncodings /\ AllParsed BY DEF RInv
  <2>2. ASSUME status = "threw"
        PROVE  \E i \in 1..Len(slots) : ~slots[i].signed \/ ~\E e \in Encoded : Holds(slots[i], e)
    <3>1. Len(parsed) < Len(slots) /\ (~slot.signed \/ ~\E e \in Encoded : Holds(slot, e))
      BY <2>2 DEF RInv, ThrownForReason
    <3>2. Len(parsed) \in Nat /\ Len(slots) \in Nat BY LenProperties DEF RInv, TypeOK
    <3>3. Len(parsed) + 1 \in 1..Len(slots) BY <3>1, <3>2, SMT
    <3> QED BY <3>1, <3>3 DEF slot
  <2> QED BY <2>1, <2>2 DEF SlotsRoundTrip, ParsedEncodings, AllParsed
<1> QED BY <1>1, RoundInvariant, PTL

\* A message that carries a block of some sender is a block.
LEMMA BlockOfEncoding ==
  ASSUME NEW msg \in Seq(Field), NEW e \in Encoding, Carries(msg, e), IsBlock(msg)
  PROVE  IsBlock(e.fields)
<1>1. msg # <<>> /\ msg[1].value \in {<<0>>, <<2>>} BY DEF IsBlock
<1>2. e.fields \in Seq([field : FieldNames, value : Seq(Byte)]) BY DEF Encoding
<1>3. Len(msg) \in Nat \ {0} /\ DOMAIN msg = 1..Len(msg) BY <1>1, EmptySeq, LenProperties
<1>4. 1 \in 1..Len(msg) BY <1>3, SMT
<1>5. e.fields[1].value = msg[1].value BY <1>3, <1>4 DEF Carries
<1>6. e.fields # <<>>
  <2>1. Len(e.fields) # 0 BY <1>3 DEF Carries
  <2> QED BY <1>2, <2>1, EmptySeq
<1> QED BY <1>1, <1>5, <1>6 DEF IsBlock

\* The bits that were parsed from such a block are written as they were sent.
LEMMA BitVecAsSent ==
  ASSUME NEW msg \in Seq(Field), NEW e \in Encoding, Carries(msg, e), SignedHeader(e)
  PROVE  /\ Len(e.bytes) >= 207
         /\ e.header = Subarray(e.bytes, 1, 207) \o WriteBitVec(Value(msg, "poxTreatment"))
<1> DEFINE bits == Subarray(e.header, 206, Len(e.header))
           found == CHOOSE k \in DOMAIN msg : msg[k].field = "poxTreatment"
<1>1. e.header \in Seq(Byte) /\ e.fields \in Seq([field : FieldNames, value : Seq(Byte)])
  BY DEF Encoding
<1>2. Len(msg) \in Nat /\ DOMAIN msg = 1..Len(msg) BY LenProperties
<1>3. \E k \in DOMAIN msg : msg[k].field = "poxTreatment"
  <2>1. PICK k \in 1..Len(e.fields) : e.fields[k].field = "poxTreatment" BY DEF SignedHeader
  <2>2. k \in DOMAIN msg BY <1>2 DEF Carries
  <2> QED BY <2>1, <2>2 DEF Carries
<1>4. found \in DOMAIN msg /\ msg[found].field = "poxTreatment" BY <1>3
<1>5. Value(msg, "poxTreatment") = msg[found].value BY DEF Value
<1> HIDE DEF found
<1>6. /\ found \in 1..Len(e.fields)
      /\ e.fields[found].field = "poxTreatment"
      /\ e.fields[found].value = Value(msg, "poxTreatment")
  BY <1>2, <1>4, <1>5 DEF Carries
<1>7. /\ e.header = Subarray(e.bytes, 1, 207) \o bits
      /\ EncodesBits(bits, e.fields[found].value)
  BY <1>6 DEF SignedHeader
<1>8. e.fields[found].value \in Seq(Byte)
  <2>1. e.fields[found] \in [field : FieldNames, value : Seq(Byte)] BY <1>1, <1>6, ElementOfSeq
  <2> QED BY <2>1
<1>9. bits \in Seq(Byte)
  <2>1. Len(e.header) \in Nat /\ 206 \in Nat BY <1>1, LenProperties, SMT
  <2> QED BY <1>1, <2>1, SubarrayOfBytes
<1> HIDE DEF bits
<1>10. WriteBitVec(e.fields[found].value) = bits BY <1>7, <1>8, <1>9, BitVecWritten
<1> QED BY <1>6, <1>7, <1>10 DEF SignedHeader

\* For any encodings and any chunk: what is hashed of a block is the header its signers
\* sign, to the last byte, and of any block, whoever sent it, the fixed fields are as
\* they were sent.
THEOREM HashCoversSignedHeader == Spec => []HashCoversHeader
<1>1. RInv /\ FixedFieldsAsSent => HashCoversHeader
  <2> SUFFICES ASSUME RInv, FixedFieldsAsSent, NEW i \in 1..Len(parsed), NEW e \in Encoded,
                      IsBlock(parsed[i]), Holds(slots[i], e)
               PROVE  HashedHeader(parsed[i]) = e.header
    BY DEF HashCoversHeader
  <2>1. TypeOK /\ ParsedEncodings BY DEF RInv
  <2>2. Carries(parsed[i], e) BY <2>1 DEF ParsedEncodings
  <2>3. parsed[i] \in Seq(Field) BY <2>1, ElementOfSeq DEF TypeOK
  <2>4. e \in Encoding /\ (IsBlock(e.fields) => SignedHeader(e)) BY EncodedAssumption
  <2>5. SignedHeader(e) BY <2>2, <2>3, <2>4, BlockOfEncoding
  <2>6. /\ Len(e.bytes) >= 207
        /\ e.header = Subarray(e.bytes, 1, 207) \o WriteBitVec(Value(parsed[i], "poxTreatment"))
    BY <2>2, <2>3, <2>4, <2>5, BitVecAsSent
  <2>7. slots[i] \in Slot
    <3>1. Len(parsed) \in Nat /\ Len(slots) \in Nat /\ Len(parsed) <= Len(slots)
      BY <2>1, LenProperties DEF TypeOK
    <3>2. i \in 1..Len(slots) BY <3>1, SMT
    <3> QED BY <2>1, <3>2, ElementOfSeq DEF TypeOK
  <2>8. slots[i].data \in Seq(Byte) /\ e.bytes \in Seq(Byte) BY <2>4, <2>7 DEF Slot, Encoding
  <2>9. \A k \in 1..9 : Value(parsed[i], FixedFields[k])
                          = Subarray(slots[i].data, Place(k).from, Place(k).to)
    BY DEF FixedFieldsAsSent
  <2>10. HashedHeader(parsed[i])
           = Subarray(slots[i].data, 1, 207) \o WriteBitVec(Value(parsed[i], "poxTreatment"))
    BY <2>8, <2>9, HashOfPieces
  <2>11. Subarray(slots[i].data, 1, 207) = Subarray(e.bytes, 1, 207)
    <3>1. Begins(slots[i].data, e.bytes) BY <2>4, <2>7, HeldBytes
    <3>2. 1 \in Nat /\ 207 \in Nat /\ 207 <= Len(e.bytes)
      <4>1. Len(e.bytes) \in Nat BY <2>8, LenProperties
      <4> QED BY <2>6, <4>1, SMT
    <3> QED BY <2>8, <3>1, <3>2, SubarrayOfBeginning
  <2> QED BY <2>6, <2>10, <2>11
<1> QED BY <1>1, RoundInvariant, FixedFieldsAreAsSent, PTL
==============================================================================
