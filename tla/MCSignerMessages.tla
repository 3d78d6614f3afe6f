-------------------------- MODULE MCSignerMessages --------------------------
(* What miners and signers send, byte for byte as libsigner and stackslib of
   stacks-core encode it, cut short anywhere and with bytes added. Each field
   is filled with a byte of its own, so that a read at a wrong place shows. *)
EXTENDS SignerMessages, SequencesExt

Fill(n, byte) == [i \in 1..n |-> byte]

Part(field, value, bytes, inHeader) ==
  [field |-> field, value |-> value, bytes |-> bytes, inHeader |-> inHeader]

\* The name, width and filler of a field.
Plain(field, n, byte) == Part(field, Fill(n, byte), Fill(n, byte), FALSE)
Signed(field, n, byte) == Part(field, Fill(n, byte), Fill(n, byte), TRUE)
Code(field, value) == Part(field, <<value>>, <<value>>, FALSE)
Text(field, n, byte) == Part(field, Fill(n, byte), <<0, 0, 0, n>> \o Fill(n, byte), FALSE)
Count(field, n) == Part(field, <<0, 0, 0, n>>, <<0, 0, 0, n>>, FALSE)

\* Bit vectors: their bits and their encoding.
NineBits == Part("poxTreatment", <<1, 0, 1, 1, 0, 0, 0, 1, 1>>,
                 <<0, 9, 0, 0, 0, 2, 141, 1>>, TRUE)
EightBits == Part("poxTreatment", <<0, 1, 1, 1, 1, 1, 1, 1>>,
                  <<0, 8, 0, 0, 0, 1, 254>>, TRUE)
OneBit == Part("poxTreatment", <<1>>, <<0, 1, 0, 0, 0, 1, 1>>, TRUE)
NoBits == Part("poxTreatment", <<>>, <<0, 0, 0, 0, 0, 0>>, TRUE)

Block(sigs, bits, txs) ==
  <<Signed("version", 1, 1), Signed("chainLength", 8, 2), Signed("burnSpent", 8, 3),
    Signed("consensusHash", 20, 4), Signed("parentBlockId", 32, 5),
    Signed("txMerkleRoot", 32, 6), Signed("stateIndexRoot", 32, 7),
    Signed("timestamp", 8, 8), Signed("minerSignature", 65, 9), Count("signerSignature", sigs)>>
  \o [i \in 1..sigs |-> Plain("signerSignature", 65, 9 + i)]
  \o <<bits, Count("tx", Len(txs))>>
  \o [i \in DOMAIN txs |-> Plain("transaction", txs[i], txs[i])]

Proposal(block) ==
  <<Code("messageType", 0)>> \o block \o <<Plain("burnHeight", 8, 20), Plain("rewardCycle", 8, 21)>>

Push(block) == <<Code("messageType", 2)>> \o block

NoVersion == Part("server_version", <<>>, <<>>, FALSE)
Version == Text("server_version", 3, 40)

Accepted(metadata) ==
  <<Code("messageType", 1), Code("responseType", 0), Plain("signerSignatureHash", 32, 22),
    Plain("signature", 65, 23), metadata>>

Rejected(codes, metadata) ==
  <<Code("messageType", 1), Code("responseType", 1), Text("reason", 2, 24)>> \o codes
  \o <<Plain("signerSignatureHash", 32, 22), Plain("chainId", 4, 25),
       Plain("signature", 65, 23), metadata>>

PeerInfo ==
  <<Plain("burnBlockHeight", 8, 26), Plain("stacksTipConsensusHash", 20, 27),
    Plain("stacksTip", 32, 28), Plain("stacksTipHeight", 8, 29),
    Part("serverVersion", Fill(2, 30), <<2>> \o Fill(2, 30), FALSE),
    Plain("poxConsensusHash", 20, 31), Plain("networkId", 4, 32),
    Plain("mockProposalSignature", 65, 33)>>

MockSigned(metadata) == <<Plain("mockSignature", 65, 34)>> \o PeerInfo \o <<metadata>>

\* The cursors from one on, of which the fields are the parts.
RECURSIVE CursorsFrom(_, _)
CursorsFrom(parts, c) ==
  LET read == Head(c.reads)
      part == parts[c.n + 1]
      next == IF read.op = "items"
              THEN [c EXCEPT !.reads = ReadsOfItems(read, Tail(c.reads))]
              ELSE [reads |-> ReadsAfter(read, part.value, Tail(c.reads)),
                    at |-> c.at + Len(part.bytes), n |-> c.n + 1]
  IN  <<c>> \o IF c.reads = <<>> THEN <<>> ELSE CursorsFrom(parts, next)

EncodingOf(parts, open) ==
  [bytes   |-> FlattenSeq([i \in DOMAIN parts |-> parts[i].bytes]),
   fields  |-> [i \in DOMAIN parts |-> [field |-> parts[i].field, value |-> parts[i].value]],
   header  |-> FlattenSeq([i \in DOMAIN parts |->
                             IF parts[i].inHeader THEN parts[i].bytes ELSE <<>>]),
   open    |-> open,
   cursors |-> CursorsFrom(parts, [reads |-> <<Enum("messageType")>>, at |-> 0, n |-> 0])]

FullProposal == EncodingOf(Proposal(Block(2, NineBits, <<3, 1>>)), TRUE)
FullPush == EncodingOf(Push(Block(1, EightBits, <<2>>)), TRUE)
FullRejection ==
  EncodingOf(Rejected(<<Code("rejectCode", 0), Code("validateRejectCode", 13)>>, Version), TRUE)
OldAcceptance == EncodingOf(Accepted(NoVersion), FALSE)
FullMockBlock ==
  EncodingOf(<<Code("messageType", 5)>> \o PeerInfo \o <<Count("mockSignatures", 2)>>
             \o MockSigned(Version) \o MockSigned(NoVersion), FALSE)

MCEncoded ==
  {FullProposal, FullPush, FullRejection, OldAcceptance, FullMockBlock,
   EncodingOf(Proposal(Block(0, OneBit, <<>>)), TRUE),
   EncodingOf(Push(Block(0, NoBits, <<>>)), TRUE),
   EncodingOf(Accepted(Version), TRUE),
   EncodingOf(Rejected(<<Code("rejectCode", 5)>>, NoVersion), FALSE),
   EncodingOf(<<Code("messageType", 3)>> \o PeerInfo, TRUE),
   EncodingOf(<<Code("messageType", 4)>> \o MockSigned(Version), TRUE),
   EncodingOf(<<Code("messageType", 6)>>, TRUE),
   EncodingOf(<<Code("messageType", 7)>>, TRUE)}

Data(bytes) == [data |-> bytes, signed |-> TRUE]

Cut(e) == {Data(SubSeq(e.bytes, 1, n)) : n \in 0..(Len(e.bytes) - 1)}

\* One slot: every message, whole, with bytes behind it, or cut short; codes no
\* enum lists; and pairs of slots.
MCChunks ==
  LET whole    == {Data(e.bytes) : e \in MCEncoded}
      extended == {Data(e.bytes \o <<0, 0, 0, 1, 50>>) : e \in MCEncoded}
      cut      == UNION {Cut(e) : e \in {FullProposal, FullPush, FullRejection,
                                         OldAcceptance, FullMockBlock}}
      unknown  == {Data(<<8>>), Data(<<1, 2>>), Data(<<1, 1, 0, 0, 0, 0, 6>>),
                   Data(<<1, 1, 0, 0, 0, 0, 0, 14>>)}
      pair     == {Data(FullPush.bytes), Data(OldAcceptance.bytes), Data(<<7>>), Data(<<8>>),
                   [data |-> <<7>>, signed |-> FALSE]}
  IN  {<<s>> : s \in whole \cup extended \cup cut \cup unknown}
        \cup {<<s, t>> : s, t \in pair}
=============================================================================
