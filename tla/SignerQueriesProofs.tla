------------------------- MODULE SignerQueriesProofs -------------------------
(***************************************************************************)
(* Proofs about SignerQueries: what the endpoints and the gauges answer is  *)
(* consistent on every database the ingestion reaches, for every set of    *)
(* signers, blocks, cycles and messages, and any number of crashes and     *)
(* failures.                                                               *)
(***************************************************************************)
EXTENDS SignerQueries, SignerSetsProofs

------------------------------------------------------------------------------
(* Minima, maxima and counts                                               *)

\* A finite set of integers has a greatest element: the one with the fewest
\* elements above it.
LEMMA GreatestExists ==
  ASSUME NEW S \in SUBSET Int, IsFiniteSet(S), S # {}
  PROVE  \E x \in S : \A y \in S : x >= y
<1> DEFINE Above(x) == {y \in S : y > x}
           T == {Above(x) : x \in S}
<1>1. T \subseteq FiniteSubsetsOf(S)
  BY FS_FiniteSubsetsOfFinite
<1>2. T # {}
  OBVIOUS
<1>3. PICK a \in T : \A b \in T : ~(<<b, a>> \in StrictSubsetOrdering(S))
  <2> HIDE DEF T
  <2> QED  BY <1>1, <1>2, FS_StrictSubsetOrderingWellFounded, WFMin
<1>4. PICK x \in S : a = Above(x)
  BY <1>3
<1>5. ASSUME NEW y \in S, ~(x >= y) PROVE FALSE
  <2>1. x \in Int /\ y \in Int /\ y > x
    BY <1>5
  <2>2. Above(y) \in T
    OBVIOUS
  <2>3. Above(y) \subseteq Above(x)
    <3>1. ASSUME NEW z \in S, z > y PROVE z > x
      <4>1. z \in Int
        OBVIOUS
      <4> QED  BY <2>1, <3>1, <4>1
    <3> QED  BY <3>1
  <2>4. y \in Above(x) /\ y \notin Above(y)
    BY <2>1
  <2>5. <<Above(y), a>> \in StrictSubsetOrdering(S)
    <3>1. Above(y) \subseteq S /\ a \subseteq S
      BY <1>4
    <3> HIDE DEF Above, T
    <3> QED  BY <1>4, <2>3, <2>4, <3>1 DEF StrictSubsetOrdering
  <2> QED  BY <1>3, <2>2, <2>5
<1> QED  BY <1>5

\* A finite set of numbers has a least one.
LEMMA LeastExists ==
  ASSUME NEW S \in SUBSET Int, IsFiniteSet(S), S # {}
  PROVE  \E x \in S : \A y \in S : x <= y
<1> DEFINE Below(x) == {y \in S : y < x}
           T == {Below(x) : x \in S}
<1>1. T \subseteq FiniteSubsetsOf(S)
  BY FS_FiniteSubsetsOfFinite
<1>2. T # {}
  OBVIOUS
<1>3. PICK a \in T : \A b \in T : ~(<<b, a>> \in StrictSubsetOrdering(S))
  <2> HIDE DEF T
  <2> QED  BY <1>1, <1>2, FS_StrictSubsetOrderingWellFounded, WFMin
<1>4. PICK x \in S : a = Below(x)
  BY <1>3
<1>5. ASSUME NEW y \in S, ~(x <= y) PROVE FALSE
  <2>1. x \in Int /\ y \in Int /\ y < x
    BY <1>5
  <2>2. Below(y) \in T
    OBVIOUS
  <2>3. Below(y) \subseteq Below(x)
    <3>1. ASSUME NEW z \in S, z < y PROVE z < x
      <4>1. z \in Int
        OBVIOUS
      <4> QED  BY <2>1, <3>1, <4>1
    <3> QED  BY <3>1
  <2>4. y \in Below(x) /\ y \notin Below(y)
    BY <2>1
  <2>5. <<Below(y), a>> \in StrictSubsetOrdering(S)
    <3>1. Below(y) \subseteq S /\ a \subseteq S
      BY <1>4
    <3> HIDE DEF Below, T
    <3> QED  BY <1>4, <2>3, <2>4, <3>1 DEF StrictSubsetOrdering
  <2> QED  BY <1>3, <2>2, <2>5
<1> QED  BY <1>5

\* Max is the greatest of a finite set.
LEMMA MaxProperties ==
  ASSUME NEW S \in SUBSET Int, IsFiniteSet(S), S # {}
  PROVE  Max(S) \in S /\ \A y \in S : Max(S) >= y
BY GreatestExists DEF Max

\* Min is the least.
LEMMA MinProperties ==
  ASSUME NEW S \in SUBSET Int, IsFiniteSet(S), S # {}
  PROVE  Min(S) \in S /\ \A y \in S : Min(S) <= y
BY LeastExists DEF Min

\* A finite set split in two.
LEMMA CountSplit ==
  ASSUME NEW S, NEW A, NEW B, IsFiniteSet(S), S = A \cup B, A \cap B = {}
  PROVE  /\ Cardinality(A) \in Nat /\ Cardinality(B) \in Nat
         /\ Cardinality(S) = Cardinality(A) + Cardinality(B)
<1>1. IsFiniteSet(A) /\ IsFiniteSet(B)
  BY FS_Subset
<1>2. Cardinality(A) \in Nat /\ Cardinality(B) \in Nat
  BY <1>1, FS_CardinalityType
<1>3. Cardinality(A \cap B) = 0
  BY FS_EmptySet
<1>4. Cardinality(S) = Cardinality(A) + Cardinality(B) - Cardinality(A \cap B)
  BY <1>1, FS_Union
<1> QED  BY <1>2, <1>3, <1>4

\* A part of a finite set is finite and no larger.
LEMMA CountSubset ==
  ASSUME NEW S, NEW T, IsFiniteSet(T), S \subseteq T
  PROVE  /\ IsFiniteSet(S)
         /\ Cardinality(S) \in Nat /\ Cardinality(T) \in Nat
         /\ Cardinality(S) <= Cardinality(T)
BY FS_Subset, FS_CardinalityType

\* Positions of an ordering without repetitions and what is there are as many.
LEMMA CountPositions ==
  ASSUME NEW q, IsInjective(q), NEW I \in SUBSET DOMAIN q, IsFiniteSet(I)
  PROVE  Cardinality({q[i] : i \in I}) = Cardinality(I)
<1> DEFINE T == {q[i] : i \in I}
           f == [i \in I |-> q[i]]
<1>1. f \in Bijection(I, T)
  BY DEF Bijection, Injection, Surjection, IsInjective
<1> QED  BY <1>1, FS_Bijection DEF ExistsBijection
------------------------------------------------------------------------------
(* Proposals come from messages of the stream, blocks from above the tip    *)

\* A proposal in the database, or in the open transaction, was brought by a message
\* of the stream: received_at is a date.
ProposalsAreOfTheStream ==
  \A h \in Proposals(db) \cup Proposals(tx) : \E i \in 1..Len(stream) : Proposes(stream[i], h)

\* Blocks are higher than the chain tip of a database without blocks.
BlocksAreAboveNothing ==
  /\ db.tip >= EmptyDatabase.tip
  /\ \A h \in Elements(db.sigs) : Height(h) > EmptyDatabase.tip

\* There are no proposals or blocks at first.
LEMMA OriginsInit == Init => ProposalsAreOfTheStream /\ BlocksAreAboveNothing
<1> SUFFICES ASSUME Init PROVE ProposalsAreOfTheStream /\ BlocksAreAboveNothing
  OBVIOUS
<1>1. Proposals(db) = {} /\ Proposals(tx) = {}
  BY DEF Init, Proposals, EmptyDatabase
<1>2. Elements(db.sigs) = {} /\ db.tip = EmptyDatabase.tip /\ db.tip = 1
  BY DEF Init, EmptyDatabase, Elements
<1> QED  BY <1>1, <1>2 DEF ProposalsAreOfTheStream, BlocksAreAboveNothing

\* The only proposal a chunk may add is its own.
LEMMA ChunkProposes ==
  ASSUME NEW d \in Database, NEW ch \in Chunk
  PROVE  \A h \in Proposals(ApplyStackerDbChunk(d, ch)) :
           h \in Proposals(d) \/ (ch.type = "BlockProposal" /\ ch.hash = h)
<1> DEFINE e == ApplyStackerDbChunk(d, ch)
<1>1. e.proposals \in {d.proposals, [d.proposals EXCEPT ![ch.hash] = ch.cycle]}
      /\ (ch.type # "BlockProposal" => e.proposals = d.proposals)
  BY DEF ApplyStackerDbChunk, ApplyBlockProposal, ApplyBlockResponse, ApplyBlockPush, Database,
         Chunk, IsApplied
<1>2. d.proposals \in [Hashes -> Cycles \cup {NoRow}]
  BY DEF Database
<1> QED  BY <1>1, <1>2 DEF Proposals

\* Every step keeps each proposal one of the stream's.
LEMMA ProposalsStep ==
  TypeOK /\ ProposalsAreOfTheStream /\ [Next]_vars => ProposalsAreOfTheStream'
<1> SUFFICES ASSUME TypeOK, ProposalsAreOfTheStream, [Next]_vars,
                    NEW h \in (Proposals(db) \cup Proposals(tx))'
             PROVE  \E i \in 1..Len(stream') : Proposes(stream'[i], h)
  BY DEF ProposalsAreOfTheStream
<1>1. ASSUME \E i \in 1..Len(stream) : Proposes(stream[i], h)
      PROVE  \E i \in 1..Len(stream') : Proposes(stream'[i], h)
  BY <1>1, StreamGrows
<1>2. Proposals(db') \subseteq Proposals(db) \cup Proposals(tx)
  <2>1. CASE IngestBlock
    BY <2>1, IngestBlockEffect DEF Proposals
  <2>2. CASE CommitChunks
    BY <2>2, CommitChunksEffect DEF Proposals
  <2>3. CASE SameTables(db, db')
    BY <2>3 DEF SameTables, Proposals
  <2> QED  BY <2>1, <2>2, <2>3, OtherEffects
<1>3. CASE h \in Proposals(db')
  BY <1>1, <1>2, <1>3 DEF ProposalsAreOfTheStream
<1>4. CASE h \in Proposals(tx') /\ h \notin Proposals(db')
  <2>1. CASE ApplyChunk
    <3> DEFINE ch == current.chunks[next]
    <3>1. /\ pc = "chunks" /\ next \in 1..Len(current.chunks) /\ pos \in 1..Len(stream)
          /\ stream \in Seq(Messages) /\ current.path = "/stackerdb_chunks"
      BY <2>1 DEF ApplyChunk, TypeOK
    <3>2. ch \in Chunk
      BY <3>1, CurrentType DEF Message
    <3>3. tx' = ApplyStackerDbChunk(tx, ch) /\ tx \in Database
      BY <2>1 DEF ApplyChunk, TypeOK
    <3>4. h \in Proposals(tx) \/ (ch.type = "BlockProposal" /\ ch.hash = h)
      BY <3>2, <3>3, <1>4, ChunkProposes
    <3>5. ASSUME ch.type = "BlockProposal" /\ ch.hash = h PROVE Proposes(stream[pos], h)
      BY <3>1, <3>5 DEF Proposes, current
    <3> QED  BY <3>1, <3>4, <3>5, <1>1 DEF ProposalsAreOfTheStream
  <2>2. CASE tx' = db'
    BY <2>2, <1>4
  <2>3. CASE SameTables(tx, tx')
    <3>1. h \in Proposals(tx)
      BY <2>3, <1>4 DEF SameTables, Proposals
    <3> QED  BY <3>1, <1>1 DEF ProposalsAreOfTheStream
  <2> QED  BY <2>1, <2>2, <2>3, TransactionEffect
<1> QED  BY <1>3, <1>4 DEF Proposals

\* Every step keeps the blocks above the tip of a database without blocks.
LEMMA AboveNothingStep ==
  TypeOK /\ TxExtendsDb /\ BlocksAreAboveNothing /\ [Next]_vars => BlocksAreAboveNothing'
<1> SUFFICES ASSUME TypeOK, TxExtendsDb, BlocksAreAboveNothing, [Next]_vars
             PROVE  BlocksAreAboveNothing'
  OBVIOUS
<1>1. EmptyDatabase.tip = 1 /\ db.tip \in Nat /\ db.sigs \in Seq(Hashes)
  BY DEF EmptyDatabase, TypeOK, Database
<1>2. CASE IngestBlock
  <2> DEFINE h == current.hash
  <2>1. h \in Hashes /\ db.tip < Height(h) /\ db'.sigs = Append(db.sigs, h) /\ db'.tip = Height(h)
    BY <1>2, IngestBlockEffect
  <2>2. Height(h) \in Nat
    BY <2>1, ConstantsAssumption DEF Height
  <2>3. Height(h) > 1
    BY <1>1, <2>1, <2>2 DEF BlocksAreAboveNothing
  <2>4. Elements(db'.sigs) \subseteq Elements(db.sigs) \cup {h}
    BY <1>1, <2>1 DEF Elements
  <2> QED  BY <1>1, <2>1, <2>2, <2>3, <2>4 DEF BlocksAreAboveNothing
<1>3. CASE db'.tip = db.tip /\ db'.sigs = db.sigs
  BY <1>3 DEF BlocksAreAboveNothing
<1>4. CASE CommitChunks
  BY <1>3, <1>4, CommitChunksEffect DEF TxExtendsDb
<1>5. CASE SameTables(db, db')
  BY <1>3, <1>5 DEF SameTables
<1> QED  BY <1>2, <1>4, <1>5, OtherEffects

\* What the queries' consistency rests on.
Answerable ==
  /\ TypeOK /\ BlocksIngestedOnce /\ SigsAreOfTheStream /\ CheckpointTrails
  /\ ProposalsAreOfTheStream /\ BlocksAreAboveNothing /\ CountersBacked

\* The database the queries read can always be answered from.
LEMMA AlwaysAnswerable == Spec => []Answerable
<1> DEFINE Inv == /\ TxExtendsDb /\ Kept /\ ProposalsAreOfTheStream /\ BlocksAreAboveNothing
<1>1. Init => Inv
  BY TxInit, KeptInit, OriginsInit
<1>2. TypeOK /\ Inv /\ [Next]_vars => Inv'
  BY TxStep, KeptStep, ProposalsStep, AboveNothingStep
<1>3. TypeOK /\ BlocksIngestedOnce /\ CountersBacked /\ Inv => Answerable
  BY DEF Answerable, Kept
<1> HIDE DEF Inv
<1> QED  BY <1>1, <1>2, <1>3, TypeCorrect, BlocksAreIngestedOnce, CountersAreBacked, PTL DEF Spec
------------------------------------------------------------------------------
(* The chain tip, the blocks and the gauges                                *)

\* A height is a number.
LEMMA HeightType ==
  ASSUME NEW h \in Hashes
  PROVE  Height(h) \in Nat
BY ConstantsAssumption DEF Height

\* The elements of the tables' sequences are hashes, and finitely many.
LEMMA ElementsType ==
  ASSUME NEW seq \in Seq(Hashes)
  PROVE  Elements(seq) \in SUBSET Hashes /\ IsFiniteSet(Elements(seq))
<1>1. Elements(seq) \subseteq Hashes
  BY DEF Elements
<1>2. IsFiniteSet(Hashes)
  BY ConstantsAssumption
<1> QED  BY <1>1, <1>2, FS_Subset

\* The tables of a database that can be answered from have their types.
LEMMA DatabaseOK ==
  ASSUME Answerable
  PROVE  /\ db \in Database /\ db.tip \in Nat /\ db.blocks \in Seq(Hashes)
         /\ db.sigs \in Seq(Hashes) /\ db.pushes \in SUBSET Hashes
         /\ db.proposals \in [Hashes -> Cycles \cup {NoRow}]
         /\ db.responses \in [Signers \X Hashes -> Verdicts \cup {NoRow}]
BY DEF Answerable, TypeOK, Database

\* The tip is the height of a block that is in the list, or of one that moved the
\* tip without being stored, or there has been no signed block at all.
LEMMA TipIsOfASignedBlock ==
  ASSUME Answerable
  PROVE  /\ db.tip > EmptyDatabase.tip =>
              \/ \E h \in Elements(db.blocks) : Height(h) = db.tip
              \/ \E h \in Hashes : IsSignedBefore(h) /\ Height(h) = db.tip
         /\ db.blocks # <<>> => db.tip > EmptyDatabase.tip
<1>1. ASSUME db.tip > EmptyDatabase.tip
      PROVE  \/ \E h \in Elements(db.blocks) : Height(h) = db.tip
             \/ \E h \in Hashes : IsSignedBefore(h) /\ Height(h) = db.tip
  <2>1. PICK h \in Elements(db.sigs) : Height(h) = db.tip
    BY <1>1 DEF Answerable, SigsAreOfTheStream
  <2>2. h \in Hashes
    BY DatabaseOK, ElementsType
  <2>3. CASE Header[h].nakamoto
    BY <2>1, <2>2, <2>3 DEF Answerable, BlocksIngestedOnce
  <2>4. CASE ~Header[h].nakamoto
    BY <2>1, <2>2, <2>4 DEF IsSignedBefore
  <2> QED  BY <2>3, <2>4
<1>2. ASSUME db.blocks # <<>> PROVE db.tip > EmptyDatabase.tip
  <2> DEFINE h == db.blocks[1]
  <2>1. h \in Elements(db.blocks) /\ h \in Hashes
    BY <1>2, DatabaseOK DEF Elements
  <2>2. h \in Elements(db.sigs)
    BY <2>1 DEF Answerable, BlocksIngestedOnce
  <2>3. Height(h) > EmptyDatabase.tip /\ Height(h) <= db.tip
    BY <2>2 DEF Answerable, BlocksAreAboveNothing, BlocksIngestedOnce
  <2>4. Height(h) \in Nat /\ db.tip \in Nat /\ EmptyDatabase.tip \in Nat
    BY <2>1, DatabaseOK, HeightType, EmptyDatabaseType DEF Database
  <2> QED  BY <2>3, <2>4
<1> QED  BY <1>1, <1>2

\* No block and no pushed block is higher than MaxHeight.
LEMMA MaxHeightBounds ==
  ASSUME Answerable
  PROVE  /\ MaxHeight(db) \in Nat
         /\ \A h \in Elements(db.blocks) \cup db.pushes : Height(h) <= MaxHeight(db)
<1> DEFINE H == Elements(db.blocks) \cup db.pushes
           S == {0} \cup {Height(h) : h \in H}
<1>1. H \subseteq Hashes
  BY DatabaseOK, ElementsType
<1>2. S \in SUBSET Nat
  BY <1>1, HeightType
<1>3. IsFiniteSet({Height(h) : h \in H})
  <2>1. IsFiniteSet(H)
    BY <1>1, ConstantsAssumption, FS_Subset
  <2> DEFINE f == [h \in H |-> Height(h)]
  <2>2. f \in Surjection(H, {Height(h) : h \in H})
    BY DEF Surjection
  <2> QED  BY <2>1, <2>2, FS_Surjection
<1>4. IsFiniteSet(S)
  BY <1>3, FS_Singleton, FS_Union
<1>5. Max(S) \in S /\ \A y \in S : Max(S) >= y
  <2> HIDE DEF S
  <2>1. S \in SUBSET Int
    BY <1>2
  <2>2. S # {}
    BY DEF S
  <2> QED  BY <1>4, <2>1, <2>2, MaxProperties
<1>6. MaxHeight(db) = Max(S)
  BY DEF MaxHeight
<1>7. ASSUME NEW h \in H PROVE Height(h) <= Max(S)
  <2>1. Height(h) \in S
    OBVIOUS
  <2> HIDE DEF S
  <2>2. Max(S) >= Height(h) /\ Max(S) \in Nat /\ Height(h) \in Nat
    BY <1>2, <1>5, <2>1
  <2> QED  BY <2>2
<1> HIDE DEF S
<1> QED  BY <1>2, <1>5, <1>6, <1>7

\* A proposal the gauges take for pending is pending in its entry too, or it is
\* rejected below the height of a block that moved the tip without being stored.
LEMMA PendingAgrees == Answerable => PendingIsConsistent
<1> SUFFICES ASSUME Answerable, NEW h \in PendingProposals(db), Height(h) > EmptyDatabase.tip
             PROVE  \/ Status(db, h) = "pending"
                    \/ /\ Status(db, h) = "rejected"
                       /\ \E g \in Hashes : IsSignedBefore(g) /\ Height(g) = db.tip
  BY DEF PendingIsConsistent, ProposalEntry, ApiStatus
<1>1. h \in Hashes /\ Height(h) > MaxHeight(db)
  BY DEF PendingProposals, Proposals
<1>2. Height(h) \in Nat /\ db.tip \in Nat /\ EmptyDatabase.tip \in Nat /\ MaxHeight(db) \in Nat
  BY <1>1, DatabaseOK, HeightType, MaxHeightBounds, EmptyDatabaseType DEF Database
<1>3. h \notin db.pushes /\ h \notin Elements(db.blocks)
  <2>1. ~(Height(h) <= MaxHeight(db))
    BY <1>1, <1>2
  <2> QED  BY <2>1, MaxHeightBounds
<1>4. CASE Height(h) > db.tip
  BY <1>3, <1>4, SMT DEF Status
<1>5. CASE ~(Height(h) > db.tip)
  <2>1. Status(db, h) = "rejected"
    BY <1>2, <1>3, <1>5, SMT DEF Status
  <2>2. db.tip > EmptyDatabase.tip
    BY <1>2, <1>5
  <2>3. ASSUME NEW b \in Elements(db.blocks), Height(b) = db.tip PROVE FALSE
    <3>1. db.tip <= MaxHeight(db)
      BY <2>3, MaxHeightBounds
    <3> QED  BY <1>1, <1>2, <1>5, <3>1
  <2> QED  BY <2>1, <2>2, <2>3, TipIsOfASignedBlock
<1> QED  BY <1>4, <1>5

\* What the gauges take for pending no client sees decided, but for blocks that move
\* the tip without being stored: crashes and redelivery never part the two.
THEOREM PendingAgreesAlways == Spec => []PendingIsConsistent
BY AlwaysAnswerable, PendingAgrees, PTL
------------------------------------------------------------------------------
(* The latest block                                                        *)

\* An ordering without repetitions of a finite set, as long as it has elements,
\* holds them all.
LEMMA OrderingIsOnto ==
  ASSUME NEW S, IsFiniteSet(S), NEW q \in [1..Cardinality(S) -> S], IsInjective(q)
  PROVE  S = {q[i] : i \in 1..Cardinality(S)}
<1>1. Cardinality(S) \in Nat
  BY FS_CardinalityType
<1>2. Cardinality(1..Cardinality(S)) = Cardinality(S)
  BY <1>1, FS_Interval
<1>3. q \in Injection(1..Cardinality(S), S)
  BY DEF Injection, IsInjective
<1>4. q \in Surjection(1..Cardinality(S), S)
  BY <1>2, <1>3, FS_Injection
<1> QED  BY <1>4 DEF Surjection

\* The first page has the first entries, in order.
LEMMA FirstPage ==
  ASSUME NEW S, NEW q \in Seq(S), NEW n \in 0..Len(q)
  PROVE  /\ Page(q, n, 0) \in Seq(S) /\ Len(Page(q, n, 0)) = n
         /\ \A i \in 1..n : Page(q, n, 0)[i] = q[i]
BY SubSeqProperties DEF Page

\* GET /v1/blocks has an order to answer in: the blocks, last ingested first.
LEMMA SomeOrderIsHighestFirst ==
  ASSUME Answerable
  PROVE  HighestFirst(Elements(db.blocks)) # {}
<1> DEFINE n == Len(db.blocks)
           r == [i \in 1..n |-> db.blocks[n + 1 - i]]
<1>1. n \in Nat /\ db.blocks \in Seq(Hashes)
  BY DatabaseOK
<1>2. \A i \in 1..n : n + 1 - i \in 1..n /\ r[i] = db.blocks[n + 1 - i]
  BY <1>1
<1>3. \A i \in 1..n : db.blocks[i] \in Hashes
  BY <1>1
<1>4. \A i, j \in 1..n : i < j => Height(r[j]) < Height(r[i])
  <2>1. SUFFICES ASSUME NEW i \in 1..n, NEW j \in 1..n, i < j
                 PROVE  Height(db.blocks[n + 1 - j]) < Height(db.blocks[n + 1 - i])
    BY <1>2
  <2>2. n + 1 - j < n + 1 - i
    BY <1>1, <2>1
  <2> HIDE DEF n
  <2> QED  BY <1>2, <2>2 DEF Answerable, BlocksIngestedOnce, Ascending, n
<1>5. \A i \in 1..n : Height(r[i]) \in Nat
  BY <1>2, <1>3, HeightType
<1>6. ASSUME NEW i \in 1..n, NEW j \in 1..n, r[i] = r[j] PROVE i = j
  <2>1. ~(i < j) /\ ~(j < i)
    <3> HIDE DEF r
    <3> QED  BY <1>4, <1>5, <1>6
  <2> QED  BY <1>1, <2>1
<1>7. IsInjective(r)
  BY <1>6 DEF IsInjective
<1>8. r \in [1..n -> Elements(db.blocks)]
  BY <1>2 DEF Elements
<1>9. Cardinality(Elements(db.blocks)) = n
  <2>1. {r[i] : i \in 1..n} = Elements(db.blocks)
    <3>1. ASSUME NEW k \in 1..n PROVE db.blocks[k] = r[n + 1 - k]
      BY <1>1
    <3> QED  BY <1>2, <1>8, <3>1 DEF Elements
  <2>2. IsFiniteSet(1..n) /\ Cardinality(1..n) = n
    BY <1>1, FS_Interval
  <2>3. 1..n \in SUBSET DOMAIN r
    OBVIOUS
  <2> HIDE DEF r
  <2> QED  BY <1>7, <2>1, <2>2, <2>3, CountPositions
<1>10. \A i, j \in 1..n : i < j => Height(r[i]) >= Height(r[j])
  <2> SUFFICES ASSUME NEW i \in 1..n, NEW j \in 1..n, i < j
               PROVE  Height(r[i]) >= Height(r[j])
    OBVIOUS
  <2>1. Height(r[j]) < Height(r[i]) /\ Height(r[i]) \in Nat /\ Height(r[j]) \in Nat
    BY <1>4, <1>5
  <2> QED  BY <2>1
<1> HIDE DEF r
<1>11. r \in HighestFirst(Elements(db.blocks))
  BY <1>7, <1>8, <1>9, <1>10 DEF HighestFirst
<1> QED  BY <1>11

\* The latest block is the first of the recent ones, at the height the status tells,
\* or a block that is not stored has moved the tip above all of them.
LEMMA LatestAgrees == Answerable => LatestIsMostRecent
<1> DEFINE B == Elements(db.blocks)
<1> SUFFICES ASSUME Answerable, db.blocks # <<>>, NEW q \in HighestFirst(B)
             PROVE  LET newest == RecentBlocks(db, q, 1, 0).results[1]
                    IN  \/ Blocks(db, Latest) = {newest} /\ ApiStatus(db) = Height(newest.hash)
                        \/ /\ Blocks(db, Latest) = {} /\ ApiStatus(db) > Height(newest.hash)
                           /\ \E h \in Hashes : IsSignedBefore(h) /\ Height(h) = ApiStatus(db)
  BY DEF LatestIsMostRecent
<1>1. \/ \E b \in B : Height(b) = db.tip
      \/ \E h \in Hashes : IsSignedBefore(h) /\ Height(h) = db.tip
  BY TipIsOfASignedBlock
<1>2. B \in SUBSET Hashes /\ IsFiniteSet(B) /\ B # {}
  <2>1. db.blocks \in Seq(Hashes)
    BY DatabaseOK
  <2>2. 1 \in 1..Len(db.blocks)
    BY <2>1
  <2>3. db.blocks[1] \in B
    BY <2>2 DEF Elements
  <2> QED  BY <2>1, <2>3, ElementsType
<1> DEFINE n == Cardinality(B)
<1>3. n \in Nat /\ n # 0
  BY <1>2, FS_CardinalityType, FS_EmptySet
<1>4. q \in [1..n -> B] /\ IsInjective(q) /\ \A i, j \in 1..n : i < j => Height(q[i]) >= Height(q[j])
  BY DEF HighestFirst
<1> HIDE DEF n, B
<1>5. 1 \in 1..n /\ q[1] \in B
  BY <1>3, <1>4
<1>6. \A h \in B : Height(h) \in Nat /\ db.tip \in Nat /\ Height(h) <= db.tip
  BY <1>2, HeightType, DatabaseOK DEF Answerable, BlocksIngestedOnce, B
<1>7. RecentBlocks(db, q, 1, 0).results[1] = BlockEntry(db, q[1])
  <2>1. q \in Seq(B) /\ Len(q) = n
    BY <1>3, <1>4
  <2>2. Page(q, 1, 0) \in Seq(B) /\ Len(Page(q, 1, 0)) = 1 /\ Page(q, 1, 0)[1] = q[1]
    <3>1. 1 \in 0..Len(q) /\ 1 \in 1..1
      BY <1>3, <2>1
    <3> QED  BY <2>1, <3>1, FirstPage
  <2>3. 1 \in DOMAIN Page(q, 1, 0)
    BY <2>2
  <2> QED  BY <2>2, <2>3 DEF RecentBlocks
<1>8. BlockEntry(db, q[1]).hash = q[1]
  BY DEF BlockEntry
<1>9. CASE \E b \in B : Height(b) = db.tip
  <2>1. PICK b \in B : Height(b) = db.tip
    BY <1>9
  <2>2. PICK k \in 1..n : q[k] = b
    <3>1. B = {q[i] : i \in 1..n}
      BY <1>2, <1>4, OrderingIsOnto DEF n
    <3> QED  BY <2>1, <3>1
  <2>3. Height(q[1]) = db.tip
    <3>1. Height(q[1]) >= Height(q[k])
      <4>1. k = 1 \/ 1 < k
        BY <1>3
      <4>2. CASE k = 1
        BY <1>5, <1>6, <4>2
      <4>3. CASE 1 < k
        BY <1>4, <1>5, <4>3
      <4> QED  BY <4>1, <4>2, <4>3
    <3> QED  BY <1>5, <1>6, <2>1, <2>2, <3>1
  <2>4. ASSUME NEW h \in B, Height(h) = db.tip PROVE h = q[1]
    <3>1. PICK i \in 1..Len(db.blocks) : h = db.blocks[i]
      BY <2>4 DEF B, Elements
    <3>2. PICK j \in 1..Len(db.blocks) : q[1] = db.blocks[j]
      BY <1>5 DEF B, Elements
    <3>3. ~(Height(h) < Height(q[1])) /\ ~(Height(q[1]) < Height(h))
      BY <2>3, <2>4, DatabaseOK
    <3>4. ~(i < j) /\ ~(j < i)
      BY <3>1, <3>2, <3>3 DEF Answerable, BlocksIngestedOnce, Ascending
    <3>5. i \in Nat /\ j \in Nat
      BY DatabaseOK
    <3>6. i = j
      BY <3>4, <3>5
    <3> QED  BY <3>1, <3>2, <3>6
  <2>5. {h \in B : BlockMatches(db, Latest, h)} = {q[1]}
    BY <1>5, <2>3, <2>4 DEF BlockMatches, Latest
  <2>6. Blocks(db, Latest) = {BlockEntry(db, q[1])}
    BY <2>5 DEF Blocks, B
  <2> QED  BY <1>7, <1>8, <2>3, <2>6 DEF ApiStatus
<1>10. CASE ~\E b \in B : Height(b) = db.tip
  <2>1. {h \in B : BlockMatches(db, Latest, h)} = {}
    BY <1>10 DEF BlockMatches, Latest
  <2>2. Blocks(db, Latest) = {}
    BY <2>1 DEF Blocks, B
  <2>3. db.tip > Height(q[1])
    BY <1>5, <1>6, <1>10
  <2> QED  BY <1>1, <1>7, <1>8, <1>10, <2>2, <2>3 DEF ApiStatus
<1> QED  BY <1>9, <1>10

\* On every database the ingestion reaches the latest block is the first of the
\* blocks by height, in any order the database may list them, and the status reports
\* its height; or a signed block that is no Nakamoto block is at the tip, above all of
\* the list, and there is no latest block.
THEOREM LatestAgreesAlways == Spec => []LatestIsMostRecent
BY AlwaysAnswerable, LatestAgrees, PTL
------------------------------------------------------------------------------
(* The blocks' and the proposals' endpoints                                *)

\* A query joins finitely many signers.
LEMMA JoinedSignersAreFinite ==
  ASSUME NEW d, NEW c
  PROVE  IsFiniteSet(JoinedSigners(d, c))
<1>1. IsFiniteSet(RewardSet(d, c))
  BY ConstantsAssumption, FS_Subset DEF RewardSet
<1> QED  BY <1>1, FS_Singleton DEF JoinedSigners

\* A signer, or the row of NULLs, has accepted, rejected or not answered.
LEMMA ResponseStateType ==
  ASSUME NEW d \in Database, NEW h \in Hashes, NEW s \in Signers \cup {NoRow}
  PROVE  ResponseState(d, h, s) \in Verdicts \cup {"missing"}
BY DEF ResponseState, ResponseOf, Database

\* A joined signer is one of the chain's, or none.
LEMMA JoinedSignersType ==
  ASSUME NEW d, NEW c, NEW s \in JoinedSigners(d, c)
  PROVE  s \in Signers \cup {NoRow}
BY DEF JoinedSigners, RewardSet

\* A finite set split in three.
LEMMA CountThree ==
  ASSUME NEW S, NEW A, NEW B, NEW C, IsFiniteSet(S), S = A \cup B \cup C,
         A \cap B = {}, A \cap C = {}, B \cap C = {}
  PROVE  /\ Cardinality(A) \in Nat /\ Cardinality(B) \in Nat /\ Cardinality(C) \in Nat
         /\ Cardinality(S) = Cardinality(A) + Cardinality(B) + Cardinality(C)
<1>1. IsFiniteSet(A \cup B)
  BY FS_Subset
<1>2. /\ Cardinality(A) \in Nat /\ Cardinality(B) \in Nat
      /\ Cardinality(A \cup B) = Cardinality(A) + Cardinality(B)
  BY <1>1, CountSplit
<1>3. /\ Cardinality(A \cup B) \in Nat /\ Cardinality(C) \in Nat
      /\ Cardinality(S) = Cardinality(A \cup B) + Cardinality(C)
  <2>1. (A \cup B) \cap C = {} /\ S = (A \cup B) \cup C
    OBVIOUS
  <2> QED  BY <2>1, CountSplit
<1> QED  BY <1>2, <1>3

\* A block and its proposal are reported with the same signers.
LEMMA EndpointsOfBlockAgree ==
  ASSUME Answerable, NEW h \in Elements(db.blocks), HasSignerData(db, h)
  PROVE  LET proposal == ProposalEntry(db, h)
             block    == BlockEntry(db, h).signerData
         IN  /\ proposal.status = "accepted"
             /\ block.total = proposal.total
             /\ block.accepted >= proposal.accepted
             /\ block.rejected <= proposal.rejected
             /\ block.missing <= proposal.missing
             /\ block.total > 0 => Total(block) = block.total /\ Total(proposal) = block.total
<1> DEFINE J == JoinedSigners(db, db.proposals[h])
           R == RewardSet(db, db.proposals[h])
           In(state) == {s \in J : ResponseState(db, h, s) = state}
           As(state) == {s \in J : SignerStatus(db, h, s) = state}
           proposal == ProposalEntry(db, h)
           block == BlockEntry(db, h).signerData
<1>1. h \in Hashes
  BY DatabaseOK, ElementsType
<1>2. IsFiniteSet(J)
  BY JoinedSignersAreFinite
<1>3. /\ proposal.total = Cardinality(R)
      /\ proposal.accepted = Cardinality(In("accepted"))
      /\ proposal.rejected = Cardinality(In("rejected"))
      /\ proposal.missing = Cardinality(In("missing"))
      /\ proposal.status = Status(db, h)
  BY DEF ProposalEntry, CountResponses, Quantify
<1>4. /\ block.total = Cardinality(R)
      /\ block.accepted = Cardinality(As("accepted_mined")) + Cardinality(As("accepted_excluded"))
      /\ block.rejected = Cardinality(As("rejected"))
      /\ block.missing = Cardinality(As("missing"))
  BY DEF BlockEntry, SignerData, CountStates, Quantify
<1> DEFINE Mined == SignersMined(db, h)
<1>5. /\ As("accepted_mined") = {s \in J : s \in Mined}
      /\ As("accepted_excluded") = In("accepted") \ Mined
      /\ As("rejected") = In("rejected") \ Mined
      /\ As("missing") = In("missing") \ Mined
  <2> SUFFICES ASSUME NEW s \in J
               PROVE  /\ SignerStatus(db, h, s) = "accepted_mined" <=> s \in Mined
                      /\ SignerStatus(db, h, s) = "accepted_excluded"
                           <=> ResponseState(db, h, s) = "accepted" /\ s \notin Mined
                      /\ SignerStatus(db, h, s) = "rejected"
                           <=> ResponseState(db, h, s) = "rejected" /\ s \notin Mined
                      /\ SignerStatus(db, h, s) = "missing"
                           <=> ResponseState(db, h, s) = "missing" /\ s \notin Mined
    OBVIOUS
  <2>1. ResponseState(db, h, s) \in {"accepted", "rejected", "missing"}
    BY <1>1, DatabaseOK, JoinedSignersType, ResponseStateType DEF Verdicts
  <2>2. ResponseOf(db, h, s) = "accepted" <=> ResponseState(db, h, s) = "accepted"
    BY ConstantsAssumption DEF ResponseState, Verdicts
  <2> QED  BY <2>1, <2>2 DEF SignerStatus
<1>6. J = In("accepted") \cup In("rejected") \cup In("missing")
  BY <1>1, DatabaseOK, JoinedSignersType, ResponseStateType DEF Verdicts
<1>7. /\ In("accepted") \cap In("rejected") = {}
      /\ In("accepted") \cap In("missing") = {}
      /\ In("rejected") \cap In("missing") = {}
  OBVIOUS
<1>8. \A x \in {"accepted", "rejected", "missing"} : IsFiniteSet(In(x)) /\ Cardinality(In(x)) \in Nat
  BY <1>2, FS_Subset, FS_CardinalityType
<1> DEFINE A == As("accepted_mined") \cup As("accepted_excluded")
<1>9. /\ As("accepted_mined") \cap As("accepted_excluded") = {}
      /\ A \subseteq J /\ In("accepted") \subseteq A
      /\ A \cap As("rejected") = {} /\ A \cap As("missing") = {}
      /\ As("rejected") \cap As("missing") = {}
      /\ J = A \cup As("rejected") \cup As("missing")
  <2> HIDE DEF As, In, J
  <2> QED  BY <1>5, <1>6, <1>7
<1> HIDE DEF As, In, J
<1>10. IsFiniteSet(A) /\ Cardinality(A) = block.accepted /\ Cardinality(A) \in Nat
  <2>1. IsFiniteSet(A)
    BY <1>2, <1>9, FS_Subset
  <2>2. Cardinality(A) = Cardinality(As("accepted_mined")) + Cardinality(As("accepted_excluded"))
    BY <2>1, <1>9, CountSplit
  <2> QED  BY <2>1, <2>2, <1>4, FS_CardinalityType
<1>11. proposal.status = "accepted"
  BY <1>1, <1>3 DEF Answerable, BlocksIngestedOnce, Status
<1>12. block.accepted >= proposal.accepted
  BY <1>3, <1>9, <1>10, CountSubset
<1>13. block.rejected <= proposal.rejected /\ block.missing <= proposal.missing
  <2>1. As("rejected") \subseteq In("rejected") /\ As("missing") \subseteq In("missing")
    BY <1>5
  <2> QED  BY <2>1, <1>3, <1>4, <1>8, CountSubset
<1>14. Cardinality(J) = proposal.accepted + proposal.rejected + proposal.missing
  BY <1>2, <1>3, <1>6, <1>7, CountThree
<1>15. Cardinality(J) = block.accepted + block.rejected + block.missing
  BY <1>2, <1>4, <1>9, <1>10, CountThree
<1>16. ASSUME block.total > 0 PROVE Cardinality(J) = block.total
  <2>1. R # {}
    BY <1>4, <1>16, FS_EmptySet
  <2>2. J = R
    BY <2>1 DEF JoinedSigners, HasSignerData, J
  <2> QED  BY <2>2, <1>4
<1> HIDE DEF proposal, block
<1>17. block.total > 0 => Total(block) = block.total /\ Total(proposal) = block.total
  BY <1>14, <1>15, <1>16 DEF Total
<1>18. block.total = proposal.total
  BY <1>3, <1>4
<1> QED  BY <1>11, <1>12, <1>13, <1>17, <1>18 DEF proposal, block

\* Blocks and proposals are told as one story: a block is an accepted proposal with
\* the same signers, and both split the signer set into its states.
THEOREM EndpointsAlwaysAgree == Spec => []EndpointsAgree
<1>1. Answerable => EndpointsAgree
  BY EndpointsOfBlockAgree DEF EndpointsAgree
<1> QED  BY <1>1, AlwaysAnswerable, PTL
------------------------------------------------------------------------------
(* Signers of a cycle: the recount by ranges of time                       *)

\* A proposal was received with one of the stream's messages.
LEMMA ReceivedAtType ==
  ASSUME Answerable, NEW h \in Proposals(db)
  PROVE  ReceivedAt(h) \in 1..Len(stream) /\ ReceivedAt(h) \in Nat
<1> DEFINE S == {i \in 1..Len(stream) : Proposes(stream[i], h)}
<1>1. Len(stream) \in Nat
  BY DEF Answerable, TypeOK
<1>2. S \subseteq 1..Len(stream) /\ S # {}
  BY DEF Answerable, ProposalsAreOfTheStream
<1>3. S \in SUBSET Int /\ 1..Len(stream) \subseteq Nat
  BY <1>1
<1>4. IsFiniteSet(S)
  <2>1. IsFiniteSet(1..Len(stream))
    BY <1>1, FS_Interval
  <2> QED  BY <1>2, <2>1, FS_Subset
<1>5. Min(S) \in S
  <2> HIDE DEF S
  <2> QED  BY <1>2, <1>3, <1>4, MinProperties
<1> QED  BY <1>2, <1>3, <1>5 DEF ReceivedAt

\* The proposals of a cycle, received in the range, that the signer answered so.
AnsweredInRange(d, c, s, from, to, state) ==
  {h \in Proposals(d) : /\ d.proposals[h] = c /\ IsInRange(h, from, to)
                        /\ ResponseState(d, h, s) = state}

\* There are finitely many proposals.
LEMMA ProposalsAreFinite ==
  ASSUME NEW d, NEW S \in SUBSET Proposals(d)
  PROVE  IsFiniteSet(S) /\ Cardinality(S) \in Nat
<1>1. S \subseteq Hashes
  BY DEF Proposals
<1> QED  BY <1>1, ConstantsAssumption, FS_Subset, FS_CardinalityType

\* NULL, where no proposal of the cycle is in the range, is written as 0.
LEMMA CountInRangeIs ==
  ASSUME NEW d, NEW c, NEW s, NEW from, NEW to, NEW state
  PROVE  LET counted == AnsweredInRange(d, c, s, from, to, state) IN
         /\ AsInteger(CountInRange(d, c, s, from, to, state)) = Cardinality(counted)
         /\ IsFiniteSet(counted) /\ Cardinality(counted) \in Nat
<1> DEFINE P == {h \in Proposals(d) : d.proposals[h] = c /\ IsInRange(h, from, to)}
           counted == AnsweredInRange(d, c, s, from, to, state)
<1>1. counted = {h \in P : ResponseState(d, h, s) = state}
  BY DEF AnsweredInRange
<1>2. IsFiniteSet(counted) /\ Cardinality(counted) \in Nat
  BY <1>1, ProposalsAreFinite
<1>3. CASE P = {}
  <2>1. CountInRange(d, c, s, from, to, state) = NoRow
    BY <1>3 DEF CountInRange
  <2>2. Cardinality(counted) = 0
    BY <1>1, <1>3, FS_EmptySet
  <2> QED  BY <1>2, <2>1, <2>2 DEF AsInteger
<1>4. CASE P # {}
  <2>1. CountInRange(d, c, s, from, to, state) = Cardinality(counted)
    BY <1>1, <1>4 DEF CountInRange, Quantify
  <2>2. Cardinality(counted) # NoRow
    BY <1>2, NullsAssumption
  <2> QED  BY <1>2, <2>1, <2>2 DEF AsInteger
<1> QED  BY <1>3, <1>4

\* The response state a column of the response counts.
CountedState(count) == IF count = "missed" THEN "missing" ELSE count

\* A count of a signer within dates is that of the proposals between them.
LEMMA RangeEntry ==
  ASSUME NEW d, NEW c, NEW s \in RewardSet(d, c), NEW from, NEW to,
         ~(from = NoDate /\ to = NoDate), NEW count \in {"accepted", "rejected", "missed"}
  PROVE  SignersForCycle(d, c, from, to)[s][count]
           = CountInRange(d, c, s, from, to, CountedState(count))
<1>1. SignersForCycle(d, c, from, to)[s] =
        [accepted |-> CountInRange(d, c, s, from, to, "accepted"),
         rejected |-> CountInRange(d, c, s, from, to, "rejected"),
         missed   |-> CountInRange(d, c, s, from, to, "missing")]
  BY DEF SignersForCycle
<1> QED  BY <1>1 DEF CountedState

\* Two ranges that meet split the range they cover.
LEMMA RangesSplit ==
  ASSUME Answerable, NEW c \in Cycles, NEW s, NEW state,
         NEW from \in Nat \cup {NoDate}, NEW t \in Nat, NEW to \in Nat \cup {NoDate},
         from # NoDate => from <= t, to # NoDate => t <= to
  PROVE  LET A == AnsweredInRange(db, c, s, from, t, state)
             B == AnsweredInRange(db, c, s, t, to, state)
         IN  AnsweredInRange(db, c, s, from, to, state) = A \cup B /\ A \cap B = {}
<1>1. t # NoDate
  BY NullsAssumption
<1>2. SUFFICES ASSUME NEW h \in Proposals(db)
               PROVE  /\ IsInRange(h, from, to) <=> IsInRange(h, from, t) \/ IsInRange(h, t, to)
                      /\ ~(IsInRange(h, from, t) /\ IsInRange(h, t, to))
  BY DEF AnsweredInRange
<1>3. ReceivedAt(h) \in Nat
  BY ReceivedAtType
<1> DEFINE r == ReceivedAt(h)
<1>4. IsInRange(h, from, to) <=> (from = NoDate \/ r >= from) /\ (to = NoDate \/ r < to)
  BY DEF IsInRange
<1>5. IsInRange(h, from, t) <=> (from = NoDate \/ r >= from) /\ r < t
  BY <1>1 DEF IsInRange
<1>6. IsInRange(h, t, to) <=> r >= t /\ (to = NoDate \/ r < to)
  BY <1>1 DEF IsInRange
<1> HIDE DEF r
<1>7. r \in Nat
  BY <1>3 DEF r
<1>8. r < t <=> ~(r >= t)
  BY <1>7
<1>9. r < t => to = NoDate \/ r < to
  <2>1. CASE to = NoDate
    BY <2>1
  <2>2. CASE to # NoDate
    BY <1>7, <2>2
  <2> QED  BY <2>1, <2>2
<1>10. r >= t => from = NoDate \/ r >= from
  <2>1. CASE from = NoDate
    BY <2>1
  <2>2. CASE from # NoDate
    BY <1>7, <2>2
  <2> QED  BY <2>1, <2>2
<1> QED  BY <1>4, <1>5, <1>6, <1>8, <1>9, <1>10

\* The proposals of two adjacent ranges are those of the whole.
LEMMA RangeCountsAdd ==
  ASSUME Answerable, NEW c \in Cycles, NEW s, NEW state,
         NEW from \in Nat \cup {NoDate}, NEW t \in Nat, NEW to \in Nat \cup {NoDate},
         from # NoDate => from <= t, to # NoDate => t <= to
  PROVE  Cardinality(AnsweredInRange(db, c, s, from, to, state))
           = Sum(CountInRange(db, c, s, from, t, state), CountInRange(db, c, s, t, to, state))
<1> DEFINE A == AnsweredInRange(db, c, s, from, t, state)
           B == AnsweredInRange(db, c, s, t, to, state)
           S == AnsweredInRange(db, c, s, from, to, state)
<1>1. S = A \cup B /\ A \cap B = {}
  BY RangesSplit
<1>2. IsFiniteSet(S)
  BY CountInRangeIs
<1>3. Cardinality(S) = Cardinality(A) + Cardinality(B)
  <2> HIDE DEF S, A, B
  <2> QED  BY <1>1, <1>2, CountSplit
<1> QED  BY <1>3, CountInRangeIs DEF Sum

\* Without a range every answer of the signer to a proposal of the cycle is counted.
LEMMA AllAreInRange ==
  ASSUME Answerable, NEW c \in Cycles, NEW s \in Signers, NEW verdict \in Verdicts
  PROVE  AnsweredInRange(db, c, s, NoDate, NoDate, verdict) = Answered(c, s, verdict)
<1>1. NoRow \notin Verdicts /\ verdict # "missing" /\ s # NoRow /\ c # NoRow
  BY ConstantsAssumption, NullsAssumption DEF Verdicts
<1>2. \A h \in Hashes : ResponseState(db, h, s) = verdict <=> db.responses[<<s, h>>] = verdict
  BY <1>1 DEF ResponseState, ResponseOf
<1> QED  BY <1>1, <1>2 DEF AnsweredInRange, Answered, IsInRange, Proposals

\* The counts of a signer in two adjacent ranges add to that of the whole.
LEMMA RangesOfSignerAdd ==
  ASSUME Answerable, NEW c \in Cycles, NEW s \in RewardSet(db, c),
         NEW from \in Dates \cup {NoDate}, NEW t \in Dates, NEW to \in Dates,
         IsValidRange(from, t), t <= to
  PROVE  LET first  == SignersForCycle(db, c, from, t)[s]
             second == SignersForCycle(db, c, t, to)[s]
             both   == SignersForCycle(db, c, from, to)[s]
             rest   == SignersForCycle(db, c, t, NoDate)[s]
             stored == SignersForCycle(db, c, NoDate, NoDate)[s]
         IN  /\ \A count \in {"accepted", "rejected", "missed"} :
                  AsInteger(both[count]) = Sum(first[count], second[count])
             /\ from = NoDate => \A count \in {"accepted", "rejected"} :
                  stored[count] <= Sum(first[count], rest[count])
<1> DEFINE first  == SignersForCycle(db, c, from, t)[s]
           second == SignersForCycle(db, c, t, to)[s]
           both   == SignersForCycle(db, c, from, to)[s]
           rest   == SignersForCycle(db, c, t, NoDate)[s]
           stored == SignersForCycle(db, c, NoDate, NoDate)[s]
<1>1. Dates \subseteq Nat
  BY DEF Answerable, TypeOK, Dates
<1>2. t \in Nat /\ to \in Nat /\ from \in Nat \cup {NoDate} /\ t # NoDate /\ to # NoDate
  BY <1>1, NullsAssumption
<1>3. from # NoDate => from <= t
  BY <1>2 DEF IsValidRange
<1>4. s \in Signers
  BY DEF RewardSet
<1>5. ASSUME NEW count \in {"accepted", "rejected", "missed"}
      PROVE  AsInteger(both[count]) = Sum(first[count], second[count])
  <2> DEFINE state == CountedState(count)
  <2>1. /\ first[count] = CountInRange(db, c, s, from, t, state)
        /\ second[count] = CountInRange(db, c, s, t, to, state)
        /\ both[count] = CountInRange(db, c, s, from, to, state)
    BY <1>2, RangeEntry
  <2>2. AsInteger(both[count]) = Cardinality(AnsweredInRange(db, c, s, from, to, state))
    BY <2>1, CountInRangeIs
  <2> HIDE DEF first, second, both, state
  <2> QED  BY <1>2, <1>3, <2>1, <2>2, RangeCountsAdd
<1>6. ASSUME from = NoDate, NEW count \in {"accepted", "rejected"}
      PROVE  stored[count] <= Sum(first[count], rest[count])
  <2>1. CountedState(count) = count /\ count \in Verdicts
    BY DEF CountedState, Verdicts
  <2>2. /\ first[count] = CountInRange(db, c, s, from, t, count)
        /\ rest[count] = CountInRange(db, c, s, t, NoDate, count)
    BY <1>2, <2>1, RangeEntry
  <2>3. Cardinality(AnsweredInRange(db, c, s, NoDate, NoDate, count)) = Sum(first[count], rest[count])
    BY <1>2, <1>6, <2>2, RangeCountsAdd
  <2>4. stored[count] = db.signers[c][s][count]
    BY DEF SignersForCycle
  <2>5. db.signers[c][s][count] <= Cardinality(Answered(c, s, count))
    BY DEF Answerable, CountersBacked
  <2> HIDE DEF stored, first, rest
  <2> QED  BY <1>4, <2>1, <2>3, <2>4, <2>5, AllAreInRange
<1> QED  BY <1>5, <1>6

\* Consecutive ranges of time neither overlap nor leave a proposal out, and no
\* counter stored exceeds its recount, in any cycle and for any dates.
THEOREM RangesAlwaysAdd == Spec => []RangesAdd
<1>1. Answerable => RangesAdd
  BY RangesOfSignerAdd DEF RangesAdd
<1> QED  BY <1>1, AlwaysAnswerable, PTL
------------------------------------------------------------------------------
(* The migrations that fill in the counters                                *)

\* What BackfillStats writes for a signer of cycle c.
BackfilledRow(d, c, s) ==
  IF ProposalsOf(d, c) = {} THEN RankedRow(d.signers[c][s])
  ELSE [accepted |-> CountOf(d, c, s, "accepted"), rejected |-> CountOf(d, c, s, "rejected"),
        missed |-> CountOf(d, c, s, "missing"), ranked |-> TRUE]

\* A count is the number of proposals in that state.
LEMMA CountOfType ==
  ASSUME NEW d, NEW c, NEW s, NEW state
  PROVE  /\ CountOf(d, c, s, state)
              = Cardinality({h \in ProposalsOf(d, c) : ResponseState(d, h, s) = state})
         /\ CountOf(d, c, s, state) \in Nat
<1>1. {h \in ProposalsOf(d, c) : ResponseState(d, h, s) = state} \in SUBSET Proposals(d)
  BY DEF ProposalsOf
<1> QED  BY <1>1, ProposalsAreFinite DEF CountOf, Quantify

\* The backfill keeps the tables, and every row it writes is a ranked one.
LEMMA BackfillEffect ==
  ASSUME NEW d \in Database
  PROVE  LET e == BackfillStats(d) IN
         /\ e \in Database
         /\ e = [d EXCEPT !.signers = e.signers]
         /\ \A c \in Cycles, s \in Signers :
              /\ s \in RewardSet(d, c) => e.signers[c][s] = BackfilledRow(d, c, s)
              /\ s \notin RewardSet(d, c) => e.signers[c][s] = NoRow
              /\ s \in RewardSet(d, c) => /\ e.signers[c][s] \in SignerRow
                                          /\ e.signers[c][s].ranked
<1> DEFINE e == BackfillStats(d)
           F == [c \in Cycles |-> [s \in Signers |->
                  IF s \notin RewardSet(d, c) THEN NoRow ELSE BackfilledRow(d, c, s)]]
<1>1. e = [d EXCEPT !.signers = F]
  BY DEF BackfillStats, BackfilledRow
<1>2. ASSUME NEW c \in Cycles, NEW s \in RewardSet(d, c)
      PROVE  BackfilledRow(d, c, s) \in SignerRow /\ BackfilledRow(d, c, s).ranked
  <2>1. CASE ProposalsOf(d, c) = {}
    <3>1. d.signers[c][s] \in SignerRow /\ d.signers[c][s] # NoRow
      BY RowType DEF RewardSet
    <3> QED  BY <2>1, <3>1 DEF BackfilledRow, RankedRow, SignerRow
  <2>2. CASE ProposalsOf(d, c) # {}
    BY <2>2, CountOfType DEF BackfilledRow, SignerRow
  <2> QED  BY <2>1, <2>2
<1>3. F \in [Cycles -> [Signers -> SignerRow \cup {NoRow}]]
  BY <1>2
<1>4. e \in Database /\ e.signers = F
  <2> HIDE DEF F, e
  <2> QED  BY <1>1, <1>3 DEF Database
<1>5. e = [d EXCEPT !.signers = e.signers]
  BY <1>1, <1>4
<1>6. ASSUME NEW c \in Cycles, NEW s \in Signers
      PROVE  /\ s \in RewardSet(d, c) => F[c][s] = BackfilledRow(d, c, s)
             /\ s \notin RewardSet(d, c) => F[c][s] = NoRow
             /\ s \in RewardSet(d, c) => F[c][s] \in SignerRow /\ F[c][s].ranked
  BY <1>2
<1> HIDE DEF e, F
<1> QED  BY <1>4, <1>5, <1>6 DEF e

\* The migration that adds the counters changes nothing else.
LEMMA AddStatsColumnsEffect ==
  ASSUME NEW d \in Database
  PROVE  LET e == AddStatsColumns(d) IN
         /\ e \in Database
         /\ e.proposals = d.proposals /\ e.responses = d.responses
         /\ \A c \in Cycles : RewardSet(e, c) = RewardSet(d, c)
         /\ \A c \in Cycles : \A s \in RewardSet(d, c) : e.signers[c][s] = NewSignerRow
<1> DEFINE e == AddStatsColumns(d)
           F == [c \in Cycles |-> [s \in Signers |->
                  IF s \in RewardSet(d, c) THEN NewSignerRow ELSE NoRow]]
<1>1. NewSignerRow \in SignerRow /\ NewSignerRow # NoRow
  <2>1. NewSignerRow \in SignerRow
    BY DEF NewSignerRow, SignerRow
  <2> QED  BY <2>1, NoRowIsNoSignerRow
<1>2. F \in [Cycles -> [Signers -> SignerRow \cup {NoRow}]]
  BY <1>1
<1>3. e = [d EXCEPT !.signers = F]
  BY DEF AddStatsColumns
<1>4. e \in Database /\ e.signers = F /\ e.proposals = d.proposals /\ e.responses = d.responses
  <2> HIDE DEF F, e
  <2> QED  BY <1>2, <1>3 DEF Database
<1>5. \A c \in Cycles : RewardSet(e, c) = RewardSet(d, c)
  <2> HIDE DEF e
  <2> QED  BY <1>1, <1>4 DEF RewardSet
<1>6. \A c \in Cycles : \A s \in RewardSet(d, c) : e.signers[c][s] = NewSignerRow
  <2> HIDE DEF e
  <2> QED  BY <1>4 DEF RewardSet
<1> QED  BY <1>4, <1>5, <1>6

\* The backfill reads the proposals, the responses and which signers a cycle has.
LEMMA SameRecount ==
  ASSUME NEW d, NEW e, e.proposals = d.proposals, e.responses = d.responses
  PROVE  /\ \A c : ProposalsOf(e, c) = ProposalsOf(d, c)
         /\ \A c, s, state : CountOf(e, c, s, state) = CountOf(d, c, s, state)
<1>1. Proposals(e) = Proposals(d)
  BY DEF Proposals
<1>2. \A h, s : ResponseState(e, h, s) = ResponseState(d, h, s)
  BY DEF ResponseState, ResponseOf
<1>3. \A c : ProposalsOf(e, c) = ProposalsOf(d, c)
  BY <1>1 DEF ProposalsOf
<1>4. ASSUME NEW c, NEW s, NEW state PROVE CountOf(e, c, s, state) = CountOf(d, c, s, state)
  <2>1. {h \in ProposalsOf(e, c) : ResponseState(e, h, s) = state}
          = {h \in ProposalsOf(d, c) : ResponseState(d, h, s) = state}
    BY <1>2, <1>3
  <2>2. CountOf(d, c, s, state) = Cardinality({h \in ProposalsOf(d, c) : ResponseState(d, h, s) = state})
    BY CountOfType
  <2>3. CountOf(e, c, s, state) = Cardinality({h \in ProposalsOf(e, c) : ResponseState(e, h, s) = state})
    BY CountOfType
  <2> QED  BY <2>1, <2>2, <2>3
<1> QED  BY <1>3, <1>4

\* Counting again from the same rows gives the same counters.
LEMMA BackfillIsIdempotent ==
  ASSUME NEW d \in Database
  PROVE  BackfillStats(BackfillStats(d)) = BackfillStats(d)
<1> DEFINE e == BackfillStats(d)
           f == BackfillStats(e)
<1>1. /\ e \in Database /\ e = [d EXCEPT !.signers = e.signers]
      /\ \A c \in Cycles, s \in Signers :
           /\ s \in RewardSet(d, c) => /\ e.signers[c][s] = BackfilledRow(d, c, s)
                                       /\ e.signers[c][s] \in SignerRow
                                       /\ e.signers[c][s].ranked
           /\ s \notin RewardSet(d, c) => e.signers[c][s] = NoRow
  BY BackfillEffect
<1> HIDE DEF e
<1>2. /\ f \in Database /\ f = [e EXCEPT !.signers = f.signers]
      /\ \A c \in Cycles, s \in Signers :
           /\ s \in RewardSet(e, c) => f.signers[c][s] = BackfilledRow(e, c, s)
           /\ s \notin RewardSet(e, c) => f.signers[c][s] = NoRow
  BY <1>1, BackfillEffect
<1> HIDE DEF f
<1>3. e.proposals = d.proposals /\ e.responses = d.responses
  BY <1>1 DEF Database
<1>4. \A c \in Cycles : RewardSet(e, c) = RewardSet(d, c)
  BY <1>1, NoRowIsNoSignerRow DEF RewardSet
<1>5. ASSUME NEW c \in Cycles, NEW s \in Signers PROVE f.signers[c][s] = e.signers[c][s]
  <2>1. CASE s \notin RewardSet(d, c)
    BY <1>1, <1>2, <1>4, <2>1
  <2>2. CASE s \in RewardSet(d, c)
    <3>1. f.signers[c][s] = BackfilledRow(e, c, s) /\ e.signers[c][s] = BackfilledRow(d, c, s)
      BY <1>1, <1>2, <1>4, <2>2
    <3>2. CASE ProposalsOf(d, c) = {}
      <4>1. f.signers[c][s] = RankedRow(e.signers[c][s])
        BY <1>3, <3>1, <3>2, SameRecount DEF BackfilledRow
      <4>2. e.signers[c][s] \in SignerRow /\ e.signers[c][s].ranked = TRUE /\ e.signers[c][s] # NoRow
        BY <1>1, <2>2, NoRowIsNoSignerRow DEF SignerRow
      <4>3. ASSUME NEW row \in SignerRow, row.ranked = TRUE
            PROVE  [row EXCEPT !.ranked = TRUE] = row
        BY <4>3 DEF SignerRow
      <4>4. [e.signers[c][s] EXCEPT !.ranked = TRUE] = e.signers[c][s]
        BY <4>2, <4>3
      <4> QED  BY <4>1, <4>2, <4>4 DEF RankedRow
    <3>3. CASE ProposalsOf(d, c) # {}
      <4>1. /\ ProposalsOf(e, c) = ProposalsOf(d, c)
            /\ CountOf(e, c, s, "accepted") = CountOf(d, c, s, "accepted")
            /\ CountOf(e, c, s, "rejected") = CountOf(d, c, s, "rejected")
            /\ CountOf(e, c, s, "missing") = CountOf(d, c, s, "missing")
        BY <1>3, SameRecount
      <4> QED  BY <3>1, <3>3, <4>1 DEF BackfilledRow
    <3> QED  BY <3>2, <3>3
  <2> QED  BY <2>1, <2>2
<1>6. f.signers = e.signers
  <2>1. /\ f.signers \in [Cycles -> [Signers -> SignerRow \cup {NoRow}]]
        /\ e.signers \in [Cycles -> [Signers -> SignerRow \cup {NoRow}]]
    BY <1>1, <1>2 DEF Database
  <2>2. ASSUME NEW c \in Cycles PROVE f.signers[c] = e.signers[c]
    BY <1>5, <2>1
  <2> QED  BY <2>1, <2>2
<1>7. f = e
  <2>1. f = [e EXCEPT !.signers = e.signers]
    BY <1>2, <1>6
  <2> QED  BY <1>1, <2>1 DEF Database
<1> QED  BY <1>7 DEF e, f

\* The counters that are filled in are those the ranges count.
LEMMA BackfillOfSigner ==
  ASSUME Answerable, NEW c \in Cycles, NEW s \in RewardSet(db, c)
  PROVE  LET filled  == BackfillStats(AddStatsColumns(db))
             before  == SignersForCycle(db, c, NoDate, NoDate)[s]
             after   == SignersForCycle(filled, c, NoDate, NoDate)[s]
             recount == SignersForCycle(db, c, 1, NoDate)[s]
         IN  /\ \A count \in {"accepted", "rejected", "missed"} :
                  after[count] = AsInteger(recount[count])
             /\ after.accepted >= before.accepted /\ after.rejected >= before.rejected
             /\ after.accepted + after.rejected + after.missed = Cardinality(ProposalsOf(db, c))
             /\ filled.signers[c][s].ranked
<1> DEFINE added   == AddStatsColumns(db)
           filled  == BackfillStats(added)
           before  == SignersForCycle(db, c, NoDate, NoDate)[s]
           after   == SignersForCycle(filled, c, NoDate, NoDate)[s]
           recount == SignersForCycle(db, c, 1, NoDate)[s]
           Of(state) == {h \in ProposalsOf(db, c) : ResponseState(db, h, s) = state}
           P == ProposalsOf(db, c)
<1>1. db \in Database /\ s \in Signers /\ s # NoRow
  BY DatabaseOK, NullsAssumption DEF RewardSet
<1>2. /\ added \in Database /\ added.signers[c][s] = NewSignerRow /\ s \in RewardSet(added, c)
      /\ added.proposals = db.proposals /\ added.responses = db.responses
  BY <1>1, AddStatsColumnsEffect
<1> HIDE DEF added
<1>3. /\ filled.signers[c][s] = BackfilledRow(added, c, s) /\ filled.signers[c][s].ranked
      /\ filled.signers[c][s] \in SignerRow
  BY <1>1, <1>2, BackfillEffect
<1>4. s \in RewardSet(filled, c)
  BY <1>1, <1>3, NoRowIsNoSignerRow DEF RewardSet
<1> HIDE DEF filled
<1>5. /\ after.accepted = filled.signers[c][s].accepted
      /\ after.rejected = filled.signers[c][s].rejected
      /\ after.missed = filled.signers[c][s].missed
  BY <1>4 DEF SignersForCycle
<1>6. /\ before.accepted = db.signers[c][s].accepted /\ before.rejected = db.signers[c][s].rejected
  BY DEF SignersForCycle
<1>7. \A state : IsFiniteSet(Of(state)) /\ Cardinality(Of(state)) \in Nat
  <2> SUFFICES ASSUME NEW state PROVE IsFiniteSet(Of(state)) /\ Cardinality(Of(state)) \in Nat
    OBVIOUS
  <2>1. Of(state) \in SUBSET Proposals(db)
    BY DEF ProposalsOf
  <2> QED  BY <2>1, ProposalsAreFinite
<1>8. /\ after.accepted = Cardinality(Of("accepted"))
      /\ after.rejected = Cardinality(Of("rejected"))
      /\ after.missed = Cardinality(Of("missing"))
  <2>1. CASE P = {}
    <3>1. filled.signers[c][s] = RankedRow(NewSignerRow)
      BY <1>2, <1>3, <2>1, SameRecount DEF BackfilledRow
    <3>2. NewSignerRow # NoRow
      <4>1. NewSignerRow \in SignerRow
        BY DEF NewSignerRow, SignerRow
      <4> QED  BY <4>1, NoRowIsNoSignerRow
    <3>3. after.accepted = 0 /\ after.rejected = 0 /\ after.missed = 0
      <4> HIDE DEF after
      <4> QED  BY <1>5, <3>1, <3>2 DEF RankedRow, NewSignerRow
    <3>4. \A state : Cardinality(Of(state)) = 0
      <4>1. \A state : Of(state) = {}
        BY <2>1
      <4> QED  BY <4>1, FS_EmptySet
    <3> QED  BY <3>3, <3>4
  <2>2. CASE P # {}
    <3>1. \A state : CountOf(added, c, s, state) = Cardinality(Of(state))
      <4> SUFFICES ASSUME NEW state PROVE CountOf(added, c, s, state) = Cardinality(Of(state))
        OBVIOUS
      <4>1. CountOf(added, c, s, state) = CountOf(db, c, s, state)
        BY <1>2, SameRecount
      <4> QED  BY <4>1, CountOfType
    <3>2. ProposalsOf(added, c) # {}
      BY <1>2, <2>2, SameRecount
    <3>3. filled.signers[c][s] =
            [accepted |-> CountOf(added, c, s, "accepted"),
             rejected |-> CountOf(added, c, s, "rejected"),
             missed |-> CountOf(added, c, s, "missing"), ranked |-> TRUE]
      BY <1>3, <3>2 DEF BackfilledRow
    <3> HIDE DEF after, Of
    <3> QED  BY <1>5, <3>1, <3>3
  <2> QED  BY <2>1, <2>2
<1>9. ASSUME NEW count \in {"accepted", "rejected", "missed"}
      PROVE  after[count] = AsInteger(recount[count])
  <2> DEFINE state == CountedState(count)
  <2>1. 1 # NoDate
    BY NullsAssumption
  <2>2. recount[count] = CountInRange(db, c, s, 1, NoDate, state)
    BY <2>1, RangeEntry
  <2>3. AnsweredInRange(db, c, s, 1, NoDate, state) = Of(state)
    <3>1. \A h \in Proposals(db) : IsInRange(h, 1, NoDate)
      BY ReceivedAtType DEF IsInRange
    <3> QED  BY <3>1 DEF AnsweredInRange, ProposalsOf
  <2>4. after[count] = Cardinality(Of(state))
    BY <1>8 DEF CountedState
  <2> HIDE DEF after, recount, Of, state
  <2> QED  BY <2>2, <2>3, <2>4, CountInRangeIs
<1>10. after.accepted >= before.accepted /\ after.rejected >= before.rejected
  <2>1. ASSUME NEW verdict \in Verdicts PROVE Of(verdict) = Answered(c, s, verdict)
    <3>1. NoRow \notin Verdicts /\ verdict # "missing" /\ c # NoRow
      BY ConstantsAssumption DEF Verdicts
    <3>2. \A h \in Hashes : ResponseState(db, h, s) = verdict <=> db.responses[<<s, h>>] = verdict
      BY <1>1, <3>1 DEF ResponseState, ResponseOf
    <3> QED  BY <3>1, <3>2 DEF Answered, Proposals, ProposalsOf
  <2>2. Of("accepted") = Answered(c, s, "accepted") /\ Of("rejected") = Answered(c, s, "rejected")
    BY <2>1 DEF Verdicts
  <2>3. db.signers[c][s] \in SignerRow
    BY <1>1, RowType
  <2>4. /\ db.signers[c][s].accepted <= Cardinality(Of("accepted"))
        /\ db.signers[c][s].rejected <= Cardinality(Of("rejected"))
        /\ db.signers[c][s].accepted \in Nat /\ db.signers[c][s].rejected \in Nat
    BY <2>2, <2>3 DEF Answerable, CountersBacked, SignerRow
  <2> HIDE DEF after, before, Of
  <2> QED  BY <1>6, <1>7, <1>8, <2>4
<1>11. after.accepted + after.rejected + after.missed = Cardinality(P)
  <2>1. IsFiniteSet(P)
    BY ProposalsAreFinite DEF ProposalsOf
  <2>2. P = Of("accepted") \cup Of("rejected") \cup Of("missing")
    <3>1. \A h \in P : ResponseState(db, h, s) \in {"accepted", "rejected", "missing"}
      BY <1>1, ResponseStateType DEF ProposalsOf, Proposals, Verdicts
    <3> QED  BY <3>1
  <2>3. /\ Of("accepted") \cap Of("rejected") = {} /\ Of("accepted") \cap Of("missing") = {}
        /\ Of("rejected") \cap Of("missing") = {}
    OBVIOUS
  <2> HIDE DEF after, Of, P
  <2> QED  BY <1>8, <2>1, <2>2, <2>3, CountThree
<1> HIDE DEF after, before, recount
<1> QED  BY <1>3, <1>9, <1>10, <1>11 DEF after, before, recount, filled, added

\* The counters a migration fills in are what the API recounts over all time: each
\* proposal of the cycle has one place in them, no response credited is lost, and
\* running the migration again changes nothing.
THEOREM BackfillAlwaysRecounts == Spec => []BackfillRecounts
<1>1. Answerable => BackfillRecounts
  <2>1. ASSUME Answerable
        PROVE  LET filled == BackfillStats(AddStatsColumns(db)) IN BackfillStats(filled) = filled
    BY <2>1, DatabaseOK, AddStatsColumnsEffect, BackfillIsIdempotent
  <2> QED  BY <2>1, BackfillOfSigner DEF BackfillRecounts
<1> QED  BY <1>1, AlwaysAnswerable, PTL
------------------------------------------------------------------------------
(* Prometheus metrics                                                      *)

\* There is an order to answer in, newest first: a smallest set without one could be
\* ordered by putting the oldest of its elements last.
LEMMA SomeOrderIsNewestFirst ==
  ASSUME NEW S, IsFiniteSet(S), \A h \in S : ReceivedAt(h) \in Int
  PROVE  NewestFirst(S) # {}
<1> DEFINE Bad == {T \in SUBSET S : NewestFirst(T) = {}}
<1>1. SUFFICES ASSUME Bad # {} PROVE FALSE
  OBVIOUS
<1>2. PICK T \in Bad : \A U \in Bad : ~(<<U, T>> \in StrictSubsetOrdering(S))
  <2>1. Bad \subseteq FiniteSubsetsOf(S)
    BY FS_FiniteSubsetsOfFinite
  <2> HIDE DEF Bad
  <2> QED  BY <1>1, <2>1, FS_StrictSubsetOrderingWellFounded, WFMin
<1>3. T \subseteq S /\ NewestFirst(T) = {} /\ IsFiniteSet(T)
  BY FS_Subset
<1>4. \A U \in SUBSET T : U # T => NewestFirst(U) # {}
  BY <1>2, <1>3 DEF StrictSubsetOrdering
<1> HIDE DEF Bad
<1>5. CASE T = {}
  <2>1. Cardinality(T) = 0 /\ 1..0 = {}
    BY <1>5, FS_EmptySet
  <2> DEFINE q == [i \in {} |-> i]
  <2>2. q \in [1..Cardinality(T) -> T] /\ IsInjective(q) /\ DOMAIN q = {}
    BY <2>1 DEF IsInjective
  <2> HIDE DEF q
  <2>3. q \in NewestFirst(T)
    BY <2>2 DEF NewestFirst
  <2> QED  BY <1>3, <2>3
<1>6. CASE T # {}
  <2> DEFINE R == {ReceivedAt(h) : h \in T}
  <2>1. PICK x \in T : \A h \in T : ReceivedAt(x) <= ReceivedAt(h)
    <3> DEFINE f == [h \in T |-> ReceivedAt(h)]
    <3>1. f \in Surjection(T, R)
      BY DEF Surjection
    <3>2. IsFiniteSet(R) /\ R # {} /\ R \in SUBSET Int
      BY <1>3, <1>6, <3>1, FS_Surjection
    <3> HIDE DEF R
    <3>3. PICK r \in R : \A t \in R : r <= t
      BY <3>2, LeastExists
    <3> QED  BY <3>3 DEF R
  <2> DEFINE U == T \ {x}
             k == Cardinality(U)
  <2>2. IsFiniteSet(U) /\ Cardinality(T) = k + 1 /\ k \in Nat
    <3>1. IsFiniteSet(U) /\ k = Cardinality(T) - 1
      BY <1>3, FS_RemoveElement
    <3>2. Cardinality(T) \in Nat /\ k \in Nat
      BY <1>3, <3>1, FS_CardinalityType
    <3> HIDE DEF k
    <3> QED  BY <3>1, <3>2
  <2>3. PICK q \in NewestFirst(U) : TRUE
    BY <1>4
  <2>4. q \in [1..k -> U] /\ IsInjective(q)
        /\ \A i, j \in 1..k : i < j => ReceivedAt(q[i]) >= ReceivedAt(q[j])
    BY <2>3 DEF NewestFirst
  <2> HIDE DEF k
  <2> DEFINE r == [i \in 1..k + 1 |-> IF i \in 1..k THEN q[i] ELSE x]
  <2>5. \A i \in 1..k + 1 : i \in 1..k \/ i = k + 1
    BY <2>2
  <2>6. \A i \in 1..k + 1 : /\ i \in 1..k => r[i] = q[i] /\ r[i] \in U
                            /\ i \notin 1..k => r[i] = x
    BY <2>4
  <2>7. r \in [1..Cardinality(T) -> T]
    BY <2>2, <2>6
  <2>8. DOMAIN r = 1..k + 1
    OBVIOUS
  <2> HIDE DEF r
  <2>9. ASSUME NEW i \in 1..k + 1, NEW j \in 1..k + 1, r[i] = r[j] PROVE i = j
    <3>1. CASE i \in 1..k /\ j \in 1..k
      BY <2>4, <2>6, <2>9, <3>1 DEF IsInjective
    <3>2. CASE i \notin 1..k /\ j \notin 1..k
      BY <2>5, <3>2
    <3>3. CASE (i \in 1..k) # (j \in 1..k)
      BY <2>6, <2>9, <3>3
    <3> QED  BY <3>1, <3>2, <3>3
  <2>10. ASSUME NEW i \in 1..k + 1, NEW j \in 1..k + 1, i < j
         PROVE  ReceivedAt(r[i]) >= ReceivedAt(r[j])
    <3>1. i \in 1..k
      BY <2>2, <2>5, <2>10
    <3>2. CASE j \in 1..k
      BY <2>4, <2>6, <2>10, <3>1, <3>2
    <3>3. CASE j \notin 1..k
      <4>1. r[j] = x /\ r[i] \in T /\ x \in T
        BY <2>6, <3>1, <3>3
      <4>2. ReceivedAt(r[i]) \in Int /\ ReceivedAt(x) \in Int
        BY <1>3, <4>1
      <4>3. ReceivedAt(x) <= ReceivedAt(r[i])
        BY <2>1, <4>1
      <4> QED  BY <4>1, <4>2, <4>3
    <3> QED  BY <3>2, <3>3
  <2>11. r \in NewestFirst(T)
    BY <2>7, <2>8, <2>9, <2>10 DEF NewestFirst, IsInjective
  <2> QED  BY <1>3, <2>11
<1> QED  BY <1>5, <1>6

\* The first n positions of an ordering of the proposals, and what is there.
LEMMA RecentAre ==
  ASSUME NEW S, IsFiniteSet(S), NEW q \in [1..Cardinality(S) -> S], NEW n \in DOMAIN q,
         NEW d
  PROVE  /\ n \in Nat /\ 1..n \subseteq DOMAIN q /\ IsFiniteSet(1..n)
         /\ Elements(Page(q, n, 0)) = {q[i] : i \in 1..n}
         /\ DOMAIN RecentProposals(d, q, n, 0) = 1..n
         /\ \A i \in 1..n : RecentProposals(d, q, n, 0)[i] = ProposalEntry(d, q[i])
<1> DEFINE N == Cardinality(S)
           page == Page(q, n, 0)
<1>1. N \in Nat
  BY FS_CardinalityType
<1> HIDE DEF N
<1>2. q \in Seq(S) /\ Len(q) = N /\ n \in 1..N /\ DOMAIN q = 1..N
  BY <1>1 DEF N
<1>3. n \in Nat /\ 1..n \subseteq DOMAIN q /\ IsFiniteSet(1..n)
  BY <1>1, <1>2, FS_Interval
<1>4. page \in Seq(S) /\ Len(page) = n /\ \A i \in 1..n : page[i] = q[i]
  <2>1. n \in 0..Len(q)
    BY <1>1, <1>2
  <2> QED  BY <1>2, <2>1, FirstPage
<1> HIDE DEF page
<1>5. Elements(page) = {q[i] : i \in 1..n}
  BY <1>4 DEF Elements
<1>6. RecentProposals(d, q, n, 0) = [i \in DOMAIN page |-> ProposalEntry(d, page[i])]
  BY DEF RecentProposals, page
<1>7. DOMAIN page = 1..n
  BY <1>3, <1>4
<1> QED  BY <1>3, <1>4, <1>5, <1>6, <1>7 DEF page

\* Recent proposals can be counted by their positions.
LEMMA CountRecent ==
  ASSUME NEW S, IsFiniteSet(S), NEW q \in [1..Cardinality(S) -> S], IsInjective(q),
         NEW n \in DOMAIN q, NEW I \in SUBSET (1..n)
  PROVE  /\ IsFiniteSet(I) /\ Cardinality(I) \in Nat
         /\ Cardinality({q[i] : i \in I}) = Cardinality(I)
<1>1. 1..n \subseteq DOMAIN q /\ IsFiniteSet(1..n)
  BY RecentAre
<1>2. IsFiniteSet(I) /\ I \in SUBSET DOMAIN q
  BY <1>1, FS_Subset
<1> QED  BY <1>2, FS_CardinalityType, CountPositions

\* A shorter range than one there are proposals for is one there are proposals for.
LEMMA ShorterRange ==
  ASSUME NEW S, IsFiniteSet(S), NEW q \in [1..Cardinality(S) -> S], NEW max \in DOMAIN q,
         NEW n \in 1..max
  PROVE  /\ n \in DOMAIN q /\ n \in Nat /\ max \in Nat /\ 1 <= n /\ n <= max
         /\ q \in Seq(S) /\ max \in 0..Len(q)
<1> DEFINE N == Cardinality(S)
<1>1. N \in Nat
  BY FS_CardinalityType
<1> HIDE DEF N
<1>2. q \in Seq(S) /\ Len(q) = N /\ max \in 1..N /\ DOMAIN q = 1..N
  BY <1>1 DEF N
<1> QED  BY <1>1, <1>2

\* The gauges leave out responses that were stored before the oldest of the recent
\* proposals: such a response to one of them was there before its proposal.
LEMMA TooOldOvertook ==
  ASSUME Answerable, NEW T \in SUBSET Proposals(db), NEW h \in T, NEW s, NEW recent,
         Elements(recent) = T, IsTooOld(s, h, recent), ResponseState(db, h, s) # "missing"
  PROVE  Overtook(db, s, h)
<1> DEFINE D == {ReceivedAt(g) : g \in T}
           first == Min(D)
           answered == AnsweredAt(s, h)
<1>1. IsFiniteSet(T)
  BY ProposalsAreFinite
<1>2. IsFiniteSet(D)
  <2> DEFINE f == [g \in T |-> ReceivedAt(g)]
  <2>1. f \in Surjection(T, D)
    BY DEF Surjection
  <2> QED  BY <1>1, <2>1, FS_Surjection
<1>3. D \in SUBSET Nat /\ ReceivedAt(h) \in D
  BY ReceivedAtType
<1> HIDE DEF D
<1>4. first \in D /\ \A y \in D : first <= y
  BY <1>2, <1>3, MinProperties
<1>5. <<answered, first>> \in MoreThanAnHour
  BY DEF IsTooOld, D
<1> HIDE DEF first, answered
<1>6. answered \in Nat /\ first \in Nat /\ answered < first
  BY <1>5, HourAssumption
<1>7. first <= ReceivedAt(h) /\ ReceivedAt(h) \in Nat
  BY <1>3, <1>4
<1>8. answered < ReceivedAt(h)
  BY <1>6, <1>7
<1> QED  BY <1>8 DEF Overtook, answered

\* Where the list of the newest n proposals shows the signer in that state.
ListedAt(q, n, s, state) ==
  LET entries == RecentProposals(db, q, n, 0)
  IN  {i \in DOMAIN entries : /\ s \in DOMAIN entries[i].signerData
                              /\ entries[i].signerData[s] = state}

\* The newest n proposals the signer gave that answer to before they came.
EarlyOnes(q, n, s, state) ==
  {h \in Elements(Page(q, n, 0)) : /\ Overtook(db, s, h)
                                   /\ ResponseState(db, h, s) = state}

\* The newest n proposals are of the cycle of the newest.
AreOfOneCycle(q, n, newest) ==
  \A h \in Elements(Page(q, n, 0)) : db.proposals[h] = db.proposals[newest]

\* A signer's counts over the newest n proposals agree with the list of them.
MatchesList(row, q, n, s, newest) ==
  /\ Total(row) = n
  /\ row.missing >= Cardinality(ListedAt(q, n, s, "missing"))
  /\ \A verdict \in Verdicts :
       /\ Cardinality(ListedAt(q, n, s, verdict))
            <= row[verdict] + Cardinality(EarlyOnes(q, n, s, verdict))
       /\ AreOfOneCycle(q, n, newest) =>
            row[verdict] <= Cardinality(ListedAt(q, n, s, verdict))

\* What the gauges count of a signer has its place in the list of the proposals.
LEMMA MetricsOfSignerMatch ==
  ASSUME Answerable, NEW q \in NewestFirst(Proposals(db)), NEW newest,
         NEW max \in DOMAIN q, NEW n \in 1..max, NEW s \in RewardSet(db, db.proposals[newest])
  PROVE  MatchesList(SignerMetrics(db, newest, Page(q, max, 0), n)[s], q, n, s, newest)
<1> DEFINE S == Proposals(db)
           C == db.proposals[newest]
           most == Page(q, max, 0)
           recent == Page(q, n, 0)
           entries == RecentProposals(db, q, n, 0)
           metrics == SignerMetrics(db, newest, most, n)
           Listed(state) == ListedAt(q, n, s, state)
           Early(state) == EarlyOnes(q, n, s, state)
           EarlyAt(state) == {i \in 1..n : /\ Overtook(db, s, q[i])
                                           /\ ResponseState(db, q[i], s) = state}
           CountedAt(state) == {i \in 1..n : RecentState(db, s, q[i], most) = state}
           OneCycle == AreOfOneCycle(q, n, newest)
<1>1. IsFiniteSet(S) /\ q \in [1..Cardinality(S) -> S] /\ IsInjective(q)
  BY ProposalsAreFinite DEF NewestFirst
<1> HIDE DEF S
<1>2. /\ n \in DOMAIN q /\ n \in Nat /\ max \in Nat /\ 1 <= n /\ n <= max
      /\ q \in Seq(S) /\ max \in 0..Len(q)
  BY <1>1, ShorterRange
<1>3. most \in Seq(S) /\ Len(most) = max /\ \A i \in 1..max : most[i] = q[i]
  BY <1>2, FirstPage
<1> HIDE DEF most
<1> DEFINE page == Page(most, n, 0)
<1>4. page \in Seq(S) /\ Len(page) = n /\ \A i \in 1..n : page[i] = most[i]
  <2>1. n \in 0..Len(most)
    BY <1>2, <1>3
  <2> QED  BY <1>3, <2>1, FirstPage
<1> HIDE DEF page
<1>5. 1..n \subseteq 1..max
  BY <1>2
<1>6. Elements(page) = {q[i] : i \in 1..n}
  BY <1>3, <1>5, <1>4 DEF Elements
<1>7. /\ Elements(most) \in SUBSET S
      /\ \A i \in 1..n : q[i] \in S /\ q[i] \in Elements(most)
  BY <1>3, <1>5 DEF Elements
<1>8. /\ Elements(recent) = {q[i] : i \in 1..n} /\ DOMAIN entries = 1..n
      /\ \A i \in 1..n : entries[i] = ProposalEntry(db, q[i])
      /\ IsFiniteSet(1..n) /\ n \in Nat
  BY <1>1, <1>2, RecentAre
<1>9. ASSUME NEW I \in SUBSET (1..n)
      PROVE  Cardinality({q[i] : i \in I}) = Cardinality(I)
  <2>1. n \in DOMAIN q
    BY <1>2
  <2> QED  BY <1>1, <2>1, CountRecent
<1> HIDE DEF recent, entries
<1>10. ASSUME NEW state \in Verdicts \cup {"missing"}
      PROVE  metrics[s][state] = Cardinality(CountedAt(state))
  <2>1. metrics[s][state] =
          Cardinality({h \in Elements(page) : RecentState(db, s, h, most) = state})
    BY DEF SignerMetrics, Quantify, page, most
  <2>2. {h \in Elements(page) : RecentState(db, s, h, most) = state}
          = {q[i] : i \in CountedAt(state)}
    BY <1>6
  <2>3. CountedAt(state) \in SUBSET (1..n)
    OBVIOUS
  <2> HIDE DEF CountedAt, metrics
  <2>4. Cardinality({q[i] : i \in CountedAt(state)}) = Cardinality(CountedAt(state))
    BY <1>9, <2>3
  <2> QED  BY <2>1, <2>2, <2>4
<1>11. ASSUME NEW state \in Verdicts \cup {"missing"}
      PROVE  Cardinality(Early(state)) = Cardinality(EarlyAt(state))
  <2>1. Early(state) = {q[i] : i \in EarlyAt(state)}
    BY <1>8 DEF EarlyOnes, recent
  <2>2. EarlyAt(state) \in SUBSET (1..n)
    OBVIOUS
  <2> HIDE DEF EarlyAt, Early
  <2>3. Cardinality({q[i] : i \in EarlyAt(state)}) = Cardinality(EarlyAt(state))
    BY <1>9, <2>2
  <2> QED  BY <2>1, <2>3
<1>12. \A i \in 1..n : \A state :
         i \in Listed(state) <=> /\ s \in JoinedSigners(db, db.proposals[q[i]])
                                 /\ ResponseState(db, q[i], s) = state
  <2>1. \A i, state : i \in Listed(state) <=> /\ i \in DOMAIN entries
                                             /\ s \in DOMAIN entries[i].signerData
                                             /\ entries[i].signerData[s] = state
    BY DEF ListedAt, entries
  <2> HIDE DEF Listed
  <2> QED  BY <1>8, <2>1 DEF ProposalEntry
<1>13. \A i \in 1..n : ResponseState(db, q[i], s) \in {"accepted", "rejected", "missing"}
  <2>1. s \in Signers
    BY DEF RewardSet
  <2> QED  BY <1>7, <2>1, DatabaseOK, ResponseStateType DEF S, Verdicts, Proposals
<1>14. \A i \in 1..n : RecentState(db, s, q[i], most) \in {"accepted", "rejected", "missing"}
  BY <1>13 DEF RecentState
<1>15. \A state : /\ Listed(state) \in SUBSET (1..n) /\ CountedAt(state) \in SUBSET (1..n)
                  /\ EarlyAt(state) \in SUBSET (1..n)
  BY <1>8 DEF ListedAt, entries
<1>16. Listed("missing") \subseteq CountedAt("missing")
  BY <1>12, <1>15 DEF RecentState
<1>17. ASSUME NEW verdict \in Verdicts
       PROVE  Listed(verdict) \subseteq CountedAt(verdict) \cup EarlyAt(verdict)
  <2> SUFFICES ASSUME NEW i \in Listed(verdict), i \notin EarlyAt(verdict)
               PROVE  i \in CountedAt(verdict)
    OBVIOUS
  <2>1. i \in 1..n /\ ResponseState(db, q[i], s) = verdict /\ verdict # "missing"
    BY <1>12, <1>15 DEF Verdicts
  <2>2. ~Overtook(db, s, q[i])
    BY <2>1
  <2>3. ~IsTooOld(s, q[i], most)
    BY <1>7, <2>1, <2>2, TooOldOvertook DEF S
  <2> QED  BY <2>1, <2>3 DEF RecentState
<1>18. ASSUME OneCycle, NEW verdict \in Verdicts
       PROVE  CountedAt(verdict) \subseteq Listed(verdict)
  <2> SUFFICES ASSUME NEW i \in CountedAt(verdict) PROVE i \in Listed(verdict)
    OBVIOUS
  <2>1. i \in 1..n /\ ResponseState(db, q[i], s) = verdict
    BY DEF RecentState, Verdicts
  <2>2. db.proposals[q[i]] = C
    BY <1>8, <1>18, <2>1 DEF AreOfOneCycle, recent
  <2>3. s \in JoinedSigners(db, C)
    BY <1>7, <2>1, <2>2 DEF S, JoinedSigners, Proposals
  <2> QED  BY <1>12, <2>1, <2>2, <2>3
<1>19. /\ CountedAt("accepted") \cap CountedAt("rejected") = {}
       /\ CountedAt("accepted") \cap CountedAt("missing") = {}
       /\ CountedAt("rejected") \cap CountedAt("missing") = {}
       /\ 1..n = CountedAt("accepted") \cup CountedAt("rejected") \cup CountedAt("missing")
  BY <1>14
<1> HIDE DEF Listed, CountedAt, EarlyAt, Early, metrics, OneCycle
<1>20. \A state : /\ IsFiniteSet(Listed(state)) /\ Cardinality(Listed(state)) \in Nat
                  /\ IsFiniteSet(CountedAt(state)) /\ Cardinality(CountedAt(state)) \in Nat
                  /\ IsFiniteSet(EarlyAt(state)) /\ Cardinality(EarlyAt(state)) \in Nat
  BY <1>8, <1>15, FS_Subset, FS_CardinalityType
<1>21. Total(metrics[s]) = n
  <2>1. Cardinality(1..n) = n
    BY <1>8, FS_Interval
  <2>2. n = Cardinality(CountedAt("accepted")) + Cardinality(CountedAt("rejected"))
              + Cardinality(CountedAt("missing"))
    BY <1>8, <1>19, <2>1, CountThree
  <2>3. /\ metrics[s].accepted = Cardinality(CountedAt("accepted"))
        /\ metrics[s].rejected = Cardinality(CountedAt("rejected"))
        /\ metrics[s].missing = Cardinality(CountedAt("missing"))
    BY <1>10 DEF Verdicts
  <2> QED  BY <2>2, <2>3 DEF Total
<1>22. metrics[s].missing >= Cardinality(Listed("missing"))
  <2>1. Cardinality(Listed("missing")) <= Cardinality(CountedAt("missing"))
    BY <1>16, <1>20, CountSubset
  <2> QED  BY <1>10, <1>20, <2>1
<1>23. ASSUME NEW verdict \in Verdicts
       PROVE  /\ Cardinality(Listed(verdict))
                   <= metrics[s][verdict] + Cardinality(Early(verdict))
              /\ OneCycle => metrics[s][verdict] <= Cardinality(Listed(verdict))
  <2> DEFINE A == CountedAt(verdict)
             E == EarlyAt(verdict)
             L == Listed(verdict)
  <2>1. metrics[s][verdict] = Cardinality(A) /\ Cardinality(Early(verdict)) = Cardinality(E)
    BY <1>10, <1>11
  <2>2. IsFiniteSet(A) /\ IsFiniteSet(E) /\ Cardinality(A) \in Nat /\ Cardinality(E) \in Nat
        /\ Cardinality(L) \in Nat /\ IsFiniteSet(L)
    BY <1>20
  <2>3. L \subseteq A \cup E /\ (OneCycle => A \subseteq L)
    BY <1>17, <1>18
  <2> HIDE DEF A, E, L
  <2>4. /\ IsFiniteSet(A \cup E)
        /\ Cardinality(A \cup E) = Cardinality(A) + Cardinality(E) - Cardinality(A \cap E)
    BY <2>2, FS_Union
  <2>5. Cardinality(A \cap E) \in Nat
    BY <2>2, FS_Subset, FS_CardinalityType
  <2>6. Cardinality(L) <= Cardinality(A \cup E)
    BY <2>3, <2>4, CountSubset
  <2>7. Cardinality(L) <= Cardinality(A) + Cardinality(E)
    BY <2>2, <2>4, <2>5, <2>6
  <2>8. OneCycle => Cardinality(A) <= Cardinality(L)
    BY <2>2, <2>3, CountSubset
  <2> QED  BY <2>1, <2>7, <2>8 DEF L
<1> QED  BY <1>21, <1>22, <1>23 DEF MatchesList, Listed, Early, metrics, most, OneCycle

\* No more recent proposals count as accepted than are listed so.
LEMMA AcceptedOfPageMatch ==
  ASSUME Answerable, NEW q \in NewestFirst(Proposals(db)), NEW n \in DOMAIN q
  PROVE  LET recent  == Page(q, n, 0)
             entries == RecentProposals(db, q, n, 0)
         IN  AcceptedProposals(db, recent)
               <= Quantify(DOMAIN entries, LAMBDA i : entries[i].status = "accepted")
<1> DEFINE S == Proposals(db)
           recent  == Page(q, n, 0)
           entries == RecentProposals(db, q, n, 0)
           J == {i \in 1..n : entries[i].status = "accepted"}
           I == {i \in 1..n : q[i] \in db.pushes}
<1>1. IsFiniteSet(S) /\ q \in [1..Cardinality(S) -> S] /\ IsInjective(q)
  BY ProposalsAreFinite DEF NewestFirst
<1> HIDE DEF S
<1>2. /\ Elements(recent) = {q[i] : i \in 1..n} /\ DOMAIN entries = 1..n
      /\ \A i \in 1..n : entries[i] = ProposalEntry(db, q[i])
  BY <1>1, RecentAre
<1> HIDE DEF recent, entries
<1>3. I \subseteq J
  BY <1>2 DEF ProposalEntry, Status
<1>4. Elements(recent) \cap db.pushes = {q[i] : i \in I}
  BY <1>2
<1>5. I \in SUBSET (1..n) /\ J \in SUBSET (1..n)
  OBVIOUS
<1>6. J = {i \in DOMAIN entries : entries[i].status = "accepted"}
  BY <1>2
<1> HIDE DEF I, J
<1>7. IsFiniteSet(J) /\ Cardinality({q[i] : i \in I}) = Cardinality(I)
  BY <1>1, <1>5, CountRecent
<1>8. Cardinality(I) <= Cardinality(J)
  BY <1>3, <1>7, CountSubset
<1>9. AcceptedProposals(db, recent) <= Cardinality(J)
  BY <1>4, <1>7, <1>8 DEF AcceptedProposals
<1> QED  BY <1>6, <1>9 DEF Quantify, recent, entries

\* The gauges agree with the entries they summarise, whatever order the database
\* lists proposals of one message in: every range counts each of its proposals once,
\* loses a listed response only to one stored before its proposal, and credits no
\* signer of the proposals' cycle with a response that is not listed.
THEOREM MetricsAlwaysMatch == Spec => []MetricsMatchEntries
<1>1. Answerable => MetricsMatchEntries
  <2> SUFFICES ASSUME Answerable, NEW q \in NewestFirst(Proposals(db)),
                      NEW newest \in NewestFirst(Proposals(db)),
                      NEW max \in DOMAIN q, NEW n \in 1..max
               PROVE  LET recent  == Page(q, n, 0)
                          entries == RecentProposals(db, q, n, 0)
                          metrics == SignerMetrics(db, newest[1], Page(q, max, 0), n)
                          Listed(s, state) ==
                            Quantify(DOMAIN entries,
                                     LAMBDA i : /\ s \in DOMAIN entries[i].signerData
                                                /\ entries[i].signerData[s] = state)
                          Early(s, state) ==
                            Quantify(Elements(recent),
                                     LAMBDA h : /\ Overtook(db, s, h)
                                                /\ ResponseState(db, h, s) = state)
                          OfOneCycle ==
                            \A h \in Elements(recent) : db.proposals[h] = db.proposals[newest[1]]
                      IN  /\ \A s \in DOMAIN metrics :
                               /\ Total(metrics[s]) = n
                               /\ metrics[s].missing >= Listed(s, "missing")
                               /\ \A verdict \in Verdicts :
                                    /\ Listed(s, verdict) <= metrics[s][verdict] + Early(s, verdict)
                                    /\ OfOneCycle => metrics[s][verdict] <= Listed(s, verdict)
                          /\ AcceptedProposals(db, recent)
                               <= Quantify(DOMAIN entries, LAMBDA i : entries[i].status = "accepted")
    BY DEF MetricsMatchEntries
  <2>1. n \in DOMAIN q
    BY ProposalsAreFinite, ShorterRange DEF NewestFirst
  <2> DEFINE recent  == Page(q, n, 0)
             entries == RecentProposals(db, q, n, 0)
             metrics == SignerMetrics(db, newest[1], Page(q, max, 0), n)
  <2>2. DOMAIN metrics = RewardSet(db, db.proposals[newest[1]])
    BY DEF SignerMetrics
  <2> HIDE DEF metrics
  <2>3. ASSUME NEW s \in DOMAIN metrics PROVE MatchesList(metrics[s], q, n, s, newest[1])
    BY <2>2, <2>3, MetricsOfSignerMatch DEF metrics
  <2>4. AcceptedProposals(db, recent)
          <= Quantify(DOMAIN entries, LAMBDA i : entries[i].status = "accepted")
    BY <2>1, AcceptedOfPageMatch
  <2> HIDE DEF recent, entries
  <2> QED  BY <2>3, <2>4
           DEF Quantify, MatchesList, ListedAt, EarlyOnes, AreOfOneCycle, recent, entries, metrics
<1> QED  BY <1>1, AlwaysAnswerable, PTL
=============================================================================
