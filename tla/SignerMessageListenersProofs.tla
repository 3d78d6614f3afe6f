---------------------- MODULE SignerMessageListenersProofs ----------------------
(***************************************************************************)
(* For any number of clients, messages, crashes and failed queries: the    *)
(* listeners only watch the ingestion, a broadcast never shows a block as  *)
(* it was before the message that caused it, and an announced row reaches  *)
(* every connected client.                                                 *)
(***************************************************************************)
EXTENDS SignerMessageListeners, IngestionProofs, FiniteSetTheorems

(* Bags *)

\* What is in a bag to which a set is added.
LEMMA BagOfUnion ==
  ASSUME NEW B, NEW S
  PROVE  /\ BagToSet(B (+) SetToBag(S)) = BagToSet(B) \cup S
         /\ IsABag(B) => IsABag(B (+) SetToBag(S))
<1>1. BagToSet(B (+) SetToBag(S)) = BagToSet(B) \cup S
  BY DEF BagToSet, SetToBag, (+)
<1>2. ASSUME IsABag(B) PROVE IsABag(B (+) SetToBag(S))
  <2>1. \A e \in DOMAIN B : B[e] \in Nat /\ B[e] > 0 BY <1>2 DEF IsABag
  <2> QED BY <2>1 DEF IsABag, SetToBag, (+)
<1> QED BY <1>1, <1>2

\* What is left in a bag from which one copy is taken.
LEMMA BagOfDifference ==
  ASSUME NEW B, IsABag(B), NEW x
  PROVE  /\ BagToSet(B (-) SetToBag({x})) \subseteq BagToSet(B)
         /\ BagToSet(B) \subseteq BagToSet(B (-) SetToBag({x})) \cup {x}
         /\ IsABag(B (-) SetToBag({x}))
<1>1. \A e \in DOMAIN B : B[e] \in Nat /\ B[e] > 0 BY DEF IsABag
<1>2. \A e \in DOMAIN B : B[e] - 1 \in Int BY <1>1
<1> QED BY <1>1, <1>2 DEF BagToSet, SetToBag, (-), IsABag

\* The empty bag is one, with nothing in it.
LEMMA EmptyBagIsABag == IsABag(EmptyBag) /\ BagToSet(EmptyBag) = {}
BY DEF IsABag, EmptyBag, SetToBag, BagToSet
------------------------------------------------------------------------------
(* The ingestion underneath                                                *)

\* Nothing but an event is announced.
LEMMA IngestIsSilent == Ingest => heard' = heard
BY DEF Ingest, HandlerStep, HandleMsg, RewardSetDelete, RewardSetInsert, RewardSetRank,
       IngestBlock, SkipBlock, BlockThrows, AbandonMessage, ApplyChunk, CommitChunks,
       MessageProcessed, HandlerFails, StackerSetFetched, StackerSetPrePox4,
       UpdatePoxInfo, Publish, AwaitMessages, vars

\* Every step with listeners is one of the ingestion, or leaves it alone.
LEMMA StepsOfIngestion == [ListenersNext]_allVars => [Next]_vars
BY DEF ListenersNext, allVars, Ingest, Listen, EmitToListeners, CrashListeners, Next

\* The listeners do not disturb the ingestion: its steps are steps of Ingestion,
\* whatever the clients and the queries do.
THEOREM ListenersOnlyWatch == ListenersSpec => Spec
<1>1. ListenersInit => Init BY DEF ListenersInit
<1> QED BY <1>1, StepsOfIngestion, PTL DEF ListenersSpec, Spec
------------------------------------------------------------------------------
(* Types                                                                   *)

\* The listeners' state has its type at first.
LEMMA ListenersTypeInit == ListenersInit => ListenersTypeOK
BY EmptyBagIsABag DEF ListenersInit, ListenersTypeOK

\* A timer that fires announces rows.
LEMMA EmittedRows == TypeOK /\ EmitToListeners => Head(timers) \in SUBSET Row
BY HeadTailProperties DEF TypeOK, EmitToListeners, EmitSignerMessages

\* The queries a listener starts have their type and have read nothing.
LEMMA QueriesForTyped ==
  ASSUME NEW msg \in SUBSET Row, NEW q \in QueriesFor(msg)
  PROVE  q \in Query /\ q.view = Unread /\ \A row \in q.announced : row.hash = q.hash
<1>1. \A row \in Row : row.hash \in Hashes BY DEF Row
<1>2. PICK row \in msg :
        q = [hash |-> row.hash, announced |-> {r \in msg : r.hash = row.hash}, view |-> Unread]
  BY DEF QueriesFor
<1>3. row.hash \in Hashes /\ {r \in msg : r.hash = row.hash} \in SUBSET Row BY <1>1
<1>4. Unread \in (SUBSET Row) \cup {Unread} OBVIOUS
<1>5. q \in Query BY <1>2, <1>3, <1>4 DEF Query
<1> QED BY <1>2, <1>5

\* Every step keeps the listeners' types.
LEMMA ListenersTypeStep ==
  TypeOK /\ ListenersTypeOK /\ [ListenersNext]_allVars => ListenersTypeOK'
<1> SUFFICES ASSUME TypeOK, ListenersTypeOK, [ListenersNext]_allVars
             PROVE  ListenersTypeOK'
  OBVIOUS
<1> USE DEF ListenersTypeOK, clientVars, queryVars, notifyVars
<1>1. CASE UNCHANGED listenerVars
  BY <1>1 DEF listenerVars
<1>2. CASE EmitToListeners
  <2> DEFINE msg == Head(timers)
  <2>1. msg \in SUBSET Row BY <1>2, EmittedRows
  <2>2. SignerMessageListener(msg) /\ NotifyListener(msg) BY <1>2 DEF EmitToListeners
  <2> HIDE DEF msg
  <2>3. IsABag(queries') /\ BagToSet(queries') \subseteq BagToSet(queries) \cup QueriesFor(msg)
    BY <2>2, BagOfUnion DEF SignerMessageListener
  <2>4. /\ BagToSet(queries') \subseteq Query
        /\ \A q \in BagToSet(queries') : \A row \in q.announced : row.hash = q.hash
    BY <2>1, <2>3, QueriesForTyped
  <2>5. IsABag(notifying') /\ IsABag(relayed') /\ relaying' \subseteq Row
    BY <2>1, <2>2, BagOfUnion DEF NotifyListener
  <2>6. /\ told' \in [Clients -> SUBSET Row] /\ UNCHANGED <<api, sockets, seen, failed>>
        /\ \A c \in Clients \ sockets : told'[c] = told[c]
    BY <2>1, <2>2 DEF SignerMessageListener
  <2> QED BY <2>3, <2>4, <2>5, <2>6
<1>3. CASE CrashListeners
  BY <1>3, EmptyBagIsABag DEF CrashListeners, DisconnectAll
<1>4. CASE StartListening \/ PreClose
  BY <1>4 DEF StartListening, PreClose, DisconnectAll
<1>5. ASSUME NEW c \in Clients, Connect(c) \/ Disconnect(c) PROVE ListenersTypeOK'
  <2>1. CASE Connect(c) BY <2>1 DEF Connect
  <2>2. CASE Disconnect(c)
    BY <2>2 DEF Disconnect
  <2> QED BY <1>5, <2>1, <2>2
<1>6. ASSUME NEW q \in BagToSet(queries),
             GetBlockProposal(q) \/ BroadcastBlockProposal(q) \/ BroadcastFails(q)
      PROVE  ListenersTypeOK'
  <2>0. q \in Query BY <1>6
  <2>1. CASE GetBlockProposal(q)
    <3> DEFINE read == [q EXCEPT !.view = RowsOf(db, q.hash)]
               less == queries (-) SetToBag({q})
    <3>1. read \in Query /\ read.announced = q.announced /\ read.hash = q.hash
      BY <2>0 DEF Query, RowsOf
    <3>2. IsABag(less) /\ BagToSet(less) \subseteq BagToSet(queries) BY BagOfDifference
    <3>3. queries' = less (+) SetToBag({read}) BY <2>1 DEF GetBlockProposal
    <3>4. UNCHANGED <<clientVars, failed, notifyVars>> BY <2>1 DEF GetBlockProposal
    <3> HIDE DEF read, less
    <3>5. IsABag(queries') /\ BagToSet(queries') \subseteq BagToSet(queries) \cup {read}
      BY <3>2, <3>3, BagOfUnion
    <3> QED BY <3>1, <3>4, <3>5
  <2>2. CASE BroadcastBlockProposal(q)
    <3>1. IsABag(queries') /\ BagToSet(queries') \subseteq BagToSet(queries)
      BY <2>2, BagOfDifference DEF BroadcastBlockProposal, Finish
    <3>2. UNCHANGED <<api, sockets, told, failed, notifyVars>>
      BY <2>2 DEF BroadcastBlockProposal
    <3>3. CASE ProposalRow(q.hash) \in q.view
      <4>1. q.view \subseteq Row
        <5>1. q.view \in (SUBSET Row) \cup {Unread} BY <2>0 DEF Query
        <5>2. q.view # Unread BY <2>2 DEF BroadcastBlockProposal
        <5> QED BY <5>1, <5>2
      <4>2. seen' = [c \in Clients |-> IF c \in sockets THEN seen[c] \cup q.view ELSE seen[c]]
        BY <2>2, <3>3 DEF BroadcastBlockProposal
      <4> QED BY <3>1, <3>2, <4>1, <4>2
    <3>4. CASE ProposalRow(q.hash) \notin q.view
      BY <2>2, <3>1, <3>2, <3>4 DEF BroadcastBlockProposal
    <3> QED BY <3>3, <3>4
  <2>3. CASE BroadcastFails(q)
    <3>1. IsABag(queries') /\ BagToSet(queries') \subseteq BagToSet(queries)
      BY <2>3, BagOfDifference DEF BroadcastFails, Finish
    <3>2. q.hash \in Hashes BY <2>0 DEF Query
    <3> QED BY <2>3, <3>1, <3>2 DEF BroadcastFails
  <2> QED BY <1>6, <2>1, <2>2, <2>3
<1>7. ASSUME NEW b \in BagToSet(notifying), OnNotification(b) \/ NotifyFails(b)
      PROVE  ListenersTypeOK'
  <2>0. notifying' = notifying (-) SetToBag({b})
    BY <1>7 DEF OnNotification, NotifyFails
  <2>1. IsABag(notifying') BY <2>0, BagOfDifference
  <2>2. IsABag(relayed') BY <1>7, BagOfUnion DEF OnNotification, NotifyFails
  <2>3. UNCHANGED <<clientVars, queryVars, relaying>>
    BY <1>7 DEF OnNotification, NotifyFails
  <2> QED BY <2>1, <2>2, <2>3
<1> QED BY <1>1, <1>2, <1>3, <1>4, <1>5, <1>6, <1>7 DEF ListenersNext, Listen, allVars, listenerVars

\* Every variable has its type in every reachable state.
THEOREM ListenersTypeCorrect == ListenersSpec => []ListenersTypeOK
<1>1. ListenersSpec => []TypeOK BY ListenersOnlyWatch, TypeCorrect, PTL
<1> QED BY <1>1, ListenersTypeInit, ListenersTypeStep, PTL DEF ListenersSpec
------------------------------------------------------------------------------
(* Queries follow the commits                                              *)

\* What started a query has been announced, and is in what the query read.
QueriesAnnounced ==
  \A q \in BagToSet(queries) : q.announced \subseteq heard

FollowInv == QueriesAnnounced /\ BroadcastsFollowCommits

\* What has been heard is never forgotten.
LEMMA HeardGrows == TypeOK /\ [ListenersNext]_allVars => heard \subseteq heard'
BY IngestIsSilent DEF ListenersNext, allVars, vars, EmitToListeners, EmitSignerMessages,
                      CrashListeners, Crash

\* A query of a block sees every row of it that was announced before.
LEMMA QuerySeesAnnounced ==
  ASSUME AnnouncedOnceAndDurable, TypeOK, NEW row \in heard
  PROVE  row \in RowsOf(db, row.hash)
BY DEF AnnouncedOnceAndDurable, RowsOf, TypeOK

\* Every step keeps the queries within what has been heard.
LEMMA FollowStep ==
  TypeOK /\ AnnouncedOnceAndDurable /\ ListenersTypeOK /\ FollowInv /\ [ListenersNext]_allVars
    => FollowInv'
<1> SUFFICES ASSUME TypeOK, AnnouncedOnceAndDurable, ListenersTypeOK, FollowInv,
                    [ListenersNext]_allVars
             PROVE  FollowInv'
  OBVIOUS
<1> USE DEF FollowInv, QueriesAnnounced, BroadcastsFollowCommits
<1>1. heard \subseteq heard' BY HeardGrows
<1>2. IsABag(queries) BY DEF ListenersTypeOK
<1>3. CASE BagToSet(queries') \subseteq BagToSet(queries)
  BY <1>1, <1>3
<1>4. CASE EmitToListeners
  <2> DEFINE msg == Head(timers)
  <2>1. msg \in SUBSET Row /\ msg \subseteq heard'
    BY <1>4, EmittedRows DEF EmitToListeners, EmitSignerMessages
  <2>2. SignerMessageListener(msg) BY <1>4 DEF EmitToListeners
  <2> HIDE DEF msg
  <2>3. BagToSet(queries') \subseteq BagToSet(queries) \cup QueriesFor(msg)
    BY <2>2, BagOfUnion DEF SignerMessageListener
  <2>4. \A q \in QueriesFor(msg) : q.announced \subseteq msg /\ q.view = Unread
    BY DEF QueriesFor
  <2> QED BY <1>1, <2>1, <2>3, <2>4
<1>5. ASSUME NEW q \in BagToSet(queries), GetBlockProposal(q) PROVE FollowInv'
  <2> DEFINE read == [q EXCEPT !.view = RowsOf(db, q.hash)]
             less == queries (-) SetToBag({q})
  <2>1. q \in Query BY DEF ListenersTypeOK
  <2>2. read.announced = q.announced /\ read.view = RowsOf(db, q.hash)
    BY <2>1 DEF Query
  <2>3. q.announced \subseteq RowsOf(db, q.hash)
    BY QuerySeesAnnounced DEF ListenersTypeOK
  <2>4. BagToSet(less) \subseteq BagToSet(queries) BY <1>2, BagOfDifference
  <2>5. queries' = less (+) SetToBag({read}) BY <1>5 DEF GetBlockProposal
  <2> HIDE DEF read, less
  <2>6. BagToSet(queries') \subseteq BagToSet(queries) \cup {read} BY <2>4, <2>5, BagOfUnion
  <2> QED BY <1>1, <2>2, <2>3, <2>6
<1>6. ASSUME NEW q \in BagToSet(queries), BroadcastBlockProposal(q) \/ BroadcastFails(q)
      PROVE  BagToSet(queries') \subseteq BagToSet(queries)
  BY <1>2, <1>6, BagOfDifference DEF BroadcastBlockProposal, BroadcastFails, Finish
<1>7. CASE CrashListeners
  BY <1>3, <1>7, EmptyBagIsABag DEF CrashListeners
<1>8. CASE UNCHANGED queries
  BY <1>3, <1>8
<1>9. \/ EmitToListeners \/ CrashListeners \/ UNCHANGED queries
      \/ \E q \in BagToSet(queries) :
           GetBlockProposal(q) \/ BroadcastBlockProposal(q) \/ BroadcastFails(q)
  BY DEF ListenersNext, Listen, allVars, listenerVars, queryVars, clientVars, notifyVars,
         StartListening, PreClose, Connect, Disconnect, OnNotification, NotifyFails
<1> QED BY <1>3, <1>4, <1>5, <1>6, <1>7, <1>8, <1>9

\* Nothing is queried or broadcast at first.
LEMMA FollowInit == ListenersInit => FollowInv
BY EmptyBagIsABag DEF ListenersInit, FollowInv, QueriesAnnounced, BroadcastsFollowCommits

\* A query sees what the event that started it announced: the timer runs after the
\* COMMIT, and rows are never deleted.
THEOREM BroadcastsFollow == ListenersSpec => []BroadcastsFollowCommits
<1>1. ListenersSpec => []TypeOK BY ListenersOnlyWatch, TypeCorrect, PTL
<1>2. ListenersSpec => []AnnouncedOnceAndDurable
  BY ListenersOnlyWatch, AnnouncementsAreOnceAndDurable, PTL
<1>3. ListenersSpec => []FollowInv
  BY <1>1, <1>2, ListenersTypeCorrect, FollowInit, FollowStep, PTL DEF ListenersSpec
<1>4. FollowInv => BroadcastsFollowCommits BY DEF FollowInv
<1> QED BY <1>3, <1>4, PTL
------------------------------------------------------------------------------
(* Announced rows are shown                                                *)

\* A query that will still broadcast the row: one that read before the proposal of
\* the block was there emits nothing.
WillBroadcast(q, row) ==
  /\ q.hash = row.hash
  /\ q.view = Unread \/ (row \in q.view /\ ProposalRow(q.hash) \in q.view)

IsShown(c, row) ==
  \/ row \in seen[c]
  \/ \E q \in BagToSet(queries) : WillBroadcast(q, row)
  \/ row.hash \in failed
  \/ ProposalRow(row.hash) \notin heard

ShownInv ==
  /\ \A c \in Clients : told[c] \subseteq heard
  /\ \A c \in sockets : \A row \in told[c] : IsShown(c, row)

\* Nothing waits to be shown at first.
LEMMA ShownInit == ListenersInit => ShownInv
BY DEF ListenersInit, ShownInv

\* The invariant implies that announced rows are shown.
LEMMA ShownSuffices == ShownInv => AnnouncedRowsAreShown
BY DEF ShownInv, AnnouncedRowsAreShown, IsShown, WillShow, WillBroadcast

\* An event starts a query for each of its blocks, among them those whose proposal
\* it is the first to announce.
LEMMA ShownEmit ==
  TypeOK /\ ListenersTypeOK /\ ShownInv /\ EmitToListeners => ShownInv'
<1> SUFFICES ASSUME TypeOK, ListenersTypeOK, ShownInv, EmitToListeners PROVE ShownInv'
  OBVIOUS
<1> DEFINE msg == Head(timers)
<1>1. msg \in SUBSET Row BY EmittedRows
<1>2. heard' = heard \cup msg BY DEF EmitToListeners, EmitSignerMessages
<1>3. SignerMessageListener(msg) BY DEF EmitToListeners
<1> HIDE DEF msg
<1>4. /\ told' = [c \in Clients |-> IF c \in sockets THEN told[c] \cup msg ELSE told[c]]
      /\ UNCHANGED <<sockets, seen, failed>>
  BY <1>3 DEF SignerMessageListener
<1>5. \A c \in Clients : told'[c] \subseteq heard' BY <1>2, <1>4 DEF ShownInv
<1>6. ASSUME NEW c \in sockets, NEW row \in told'[c] PROVE IsShown(c, row)'
  <2>0. c \in Clients BY DEF ListenersTypeOK
  <2>1. row \in told[c] \cup msg BY <1>4, <2>0
  <2>2. api = "listening" /\ sockets # {} BY <1>6 DEF ListenersTypeOK
  <2>3. BagToSet(queries') = BagToSet(queries) \cup QueriesFor(msg)
    BY <1>3, <2>2, BagOfUnion DEF SignerMessageListener
  <2>4. ASSUME NEW r \in msg, r.hash = row.hash PROVE IsShown(c, row)'
    <3> DEFINE q == [hash |-> row.hash, announced |-> {s \in msg : s.hash = row.hash},
                     view |-> Unread]
    <3>1. q \in QueriesFor(msg) BY <2>4 DEF QueriesFor
    <3>2. WillBroadcast(q, row) BY DEF WillBroadcast
    <3> HIDE DEF q
    <3>3. \E p \in BagToSet(queries') : WillBroadcast(p, row) BY <2>3, <3>1, <3>2
    <3> QED BY <3>3 DEF IsShown, WillBroadcast
  <2>5. CASE row \in msg BY <2>4, <2>5
  <2>6. CASE ProposalRow(row.hash) \in msg
    <3>1. ProposalRow(row.hash).hash = row.hash BY DEF ProposalRow
    <3> QED BY <2>4, <2>6, <3>1
  <2>7. CASE row \notin msg /\ ProposalRow(row.hash) \notin msg
    <3>1. IsShown(c, row) BY <2>1, <2>7 DEF ShownInv
    <3> QED BY <1>2, <1>4, <2>3, <2>7, <3>1 DEF IsShown, WillBroadcast
  <2> QED BY <2>5, <2>6, <2>7
<1> QED BY <1>4, <1>5, <1>6 DEF ShownInv

\* A step of one query keeps the invariant.
LEMMA ShownQuery ==
  ASSUME TypeOK, AnnouncedOnceAndDurable, ListenersTypeOK, ShownInv, UNCHANGED heard,
         NEW q \in BagToSet(queries),
         GetBlockProposal(q) \/ BroadcastBlockProposal(q) \/ BroadcastFails(q)
  PROVE  ShownInv'
<1> DEFINE less == queries (-) SetToBag({q})
<1>1. BagToSet(queries) \subseteq BagToSet(less) \cup {q}
  BY BagOfDifference DEF ListenersTypeOK
<1>2. UNCHANGED <<sockets, told>>
  BY DEF GetBlockProposal, BroadcastBlockProposal, BroadcastFails, clientVars
<1>3. \A c \in Clients : told'[c] \subseteq heard' BY <1>2 DEF ShownInv
<1>4. ASSUME NEW c \in sockets, NEW row \in told[c] PROVE IsShown(c, row)'
  <2>0. c \in Clients /\ row \in heard BY DEF ListenersTypeOK, ShownInv
  <2>1. IsShown(c, row) BY DEF ShownInv
  <2>2. CASE GetBlockProposal(q)
    <3> DEFINE read == [q EXCEPT !.view = RowsOf(db, q.hash)]
    <3>1. queries' = less (+) SetToBag({read}) BY <2>2 DEF GetBlockProposal
    <3>2. q \in Query BY DEF ListenersTypeOK
    <3>3. read.hash = q.hash /\ read.view = RowsOf(db, q.hash) BY <3>2 DEF Query
    <3>4. UNCHANGED <<seen, failed>> BY <2>2 DEF GetBlockProposal, clientVars
    <3> HIDE DEF read, less
    <3>5. BagToSet(queries') = BagToSet(less) \cup {read} BY <3>1, BagOfUnion
    <3>6. CASE ProposalRow(row.hash) \notin heard
      BY <3>6 DEF IsShown
    <3>7. CASE q.hash = row.hash /\ ProposalRow(row.hash) \in heard
      <4>1. row \in RowsOf(db, row.hash) BY <2>0, QuerySeesAnnounced
      <4>2. ProposalRow(row.hash) \in RowsOf(db, row.hash)
        <5>1. ProposalRow(row.hash).hash = row.hash BY DEF ProposalRow
        <5> QED BY <3>7, <5>1, QuerySeesAnnounced
      <4>3. WillBroadcast(read, row) BY <3>3, <3>7, <4>1, <4>2 DEF WillBroadcast
      <4> QED BY <3>5, <4>3 DEF IsShown, WillBroadcast
    <3>8. CASE q.hash # row.hash
      BY <1>1, <2>1, <3>4, <3>5, <3>8 DEF IsShown, WillBroadcast
    <3> QED BY <3>6, <3>7, <3>8
  <2>3. CASE BroadcastBlockProposal(q)
    <3>1. queries' = less /\ q.view # Unread /\ UNCHANGED failed
      BY <2>3 DEF BroadcastBlockProposal, Finish
    <3>2. seen[c] \subseteq seen'[c]
      BY <2>0, <2>3 DEF BroadcastBlockProposal
    <3>3. CASE WillBroadcast(q, row)
      <4>1. seen' = [d \in Clients |-> IF d \in sockets THEN seen[d] \cup q.view ELSE seen[d]]
        BY <2>3, <3>1, <3>3 DEF BroadcastBlockProposal, WillBroadcast
      <4>2. row \in q.view BY <3>1, <3>3 DEF WillBroadcast
      <4>3. row \in seen'[c] BY <1>4, <2>0, <4>1, <4>2
      <4> QED BY <4>3 DEF IsShown
    <3>4. CASE ~WillBroadcast(q, row)
      BY <1>1, <2>1, <3>1, <3>2, <3>4 DEF IsShown, WillBroadcast
    <3> QED BY <3>3, <3>4
  <2>4. CASE BroadcastFails(q)
    <3>1. queries' = less /\ failed' = failed \cup {q.hash} /\ UNCHANGED seen
      BY <2>4 DEF BroadcastFails, Finish, clientVars
    <3>2. CASE q.hash = row.hash BY <3>1, <3>2 DEF IsShown
    <3>3. CASE q.hash # row.hash
      BY <1>1, <2>1, <3>1, <3>3 DEF IsShown, WillBroadcast
    <3> QED BY <3>2, <3>3
  <2> QED BY <2>2, <2>3, <2>4
<1> QED BY <1>2, <1>3, <1>4 DEF ShownInv

\* Every step keeps it.
LEMMA ShownStep ==
  TypeOK /\ AnnouncedOnceAndDurable /\ ListenersTypeOK /\ ShownInv /\ [ListenersNext]_allVars
    => ShownInv'
<1> SUFFICES ASSUME TypeOK, AnnouncedOnceAndDurable, ListenersTypeOK, ShownInv,
                    [ListenersNext]_allVars
             PROVE  ShownInv'
  OBVIOUS
<1>1. CASE EmitToListeners BY <1>1, ShownEmit
<1>2. ASSUME NEW q \in BagToSet(queries), UNCHANGED vars,
             GetBlockProposal(q) \/ BroadcastBlockProposal(q) \/ BroadcastFails(q)
      PROVE  ShownInv'
  BY <1>2, ShownQuery DEF vars
<1>3. CASE UNCHANGED <<queryVars, told, seen, sockets, heard>>
  BY <1>3 DEF ShownInv, IsShown, WillBroadcast, queryVars
<1>4. CASE CrashListeners \/ (PreClose /\ UNCHANGED vars)
  BY <1>4 DEF CrashListeners, PreClose, DisconnectAll, ShownInv
<1>5. ASSUME NEW c \in Clients, Connect(c) \/ Disconnect(c), UNCHANGED vars PROVE ShownInv'
  <2>1. UNCHANGED queryVars /\ UNCHANGED heard BY <1>5 DEF Connect, Disconnect, vars
  <2>2. CASE Connect(c)
    <3>1. sockets' = sockets \cup {c} /\ UNCHANGED <<told, seen>> /\ told[c] = {}
      BY <2>2 DEF Connect, ListenersTypeOK
    <3> QED BY <2>1, <3>1 DEF ShownInv, IsShown, WillBroadcast, queryVars
  <2>3. CASE Disconnect(c)
    <3>1. /\ sockets' = sockets \ {c}
          /\ told' \in [Clients -> SUBSET Row] /\ told'[c] = {}
          /\ \A d \in Clients \ {c} : told'[d] = told[d] /\ seen'[d] = seen[d]
      BY <2>3 DEF Disconnect, ListenersTypeOK
    <3> QED BY <2>1, <3>1 DEF ShownInv, IsShown, WillBroadcast, queryVars, ListenersTypeOK
  <2> QED BY <1>5, <2>2, <2>3
<1>6. \/ EmitToListeners \/ CrashListeners \/ (PreClose /\ UNCHANGED vars)
      \/ UNCHANGED <<queryVars, told, seen, sockets, heard>>
      \/ UNCHANGED vars /\ \E q \in BagToSet(queries) :
           GetBlockProposal(q) \/ BroadcastBlockProposal(q) \/ BroadcastFails(q)
      \/ UNCHANGED vars /\ \E c \in Clients : Connect(c) \/ Disconnect(c)
  <2>1. CASE Ingest /\ UNCHANGED listenerVars
    BY <2>1, IngestIsSilent DEF listenerVars, clientVars
  <2>2. CASE UNCHANGED allVars BY <2>2 DEF allVars, listenerVars, clientVars, vars
  <2>3. CASE Listen /\ UNCHANGED vars
    <3>1. CASE StartListening BY <2>3, <3>1 DEF StartListening, vars
    <3>2. ASSUME NEW b, OnNotification(b) \/ NotifyFails(b)
          PROVE  UNCHANGED <<queryVars, told, seen, sockets, heard>>
      BY <2>3, <3>2 DEF OnNotification, NotifyFails, clientVars, vars
    <3> QED BY <2>3, <3>1, <3>2 DEF Listen
  <2> QED BY <2>1, <2>2, <2>3 DEF ListenersNext
<1> QED BY <1>1, <1>2, <1>3, <1>4, <1>5, <1>6

\* A row announced while a client is connected is in an entry it received or in one
\* to come, unless a query of the block failed or its proposal is not there.
THEOREM AnnouncedRowsShown == ListenersSpec => []AnnouncedRowsAreShown
<1>1. ListenersSpec => []TypeOK BY ListenersOnlyWatch, TypeCorrect, PTL
<1>2. ListenersSpec => []AnnouncedOnceAndDurable
  BY ListenersOnlyWatch, AnnouncementsAreOnceAndDurable, PTL
<1>3. ListenersSpec => []ShownInv
  BY <1>1, <1>2, ListenersTypeCorrect, ShownInit, ShownStep, PTL DEF ListenersSpec
<1> QED BY <1>3, ShownSuffices, PTL
------------------------------------------------------------------------------
(* Batches                                                                 *)

\* There are finitely many rows.
LEMMA RowsAreFinite == IsFiniteSet(Row)
<1> DEFINE pairs == {"BlockProposal", "BlockPushed"} \X Hashes
           plain == [p \in pairs |-> [table |-> p[1], hash |-> p[2], signer |-> NoRow]]
           Plain == [table : {"BlockProposal", "BlockPushed"}, hash : Hashes, signer : {NoRow}]
           answers == Hashes \X Signers
           answer == [p \in answers |-> [table |-> "BlockResponse", hash |-> p[1], signer |-> p[2]]]
           Answers == [table : {"BlockResponse"}, hash : Hashes, signer : Signers]
<1>1. IsFiniteSet(pairs) /\ IsFiniteSet(answers)
  <2>1. IsFiniteSet({"BlockProposal"}) /\ IsFiniteSet({"BlockPushed"}) BY FS_Singleton
  <2>2. IsFiniteSet({"BlockProposal"} \cup {"BlockPushed"}) BY <2>1, FS_Union
  <2>3. {"BlockProposal"} \cup {"BlockPushed"} = {"BlockProposal", "BlockPushed"} OBVIOUS
  <2>4. IsFiniteSet({"BlockProposal", "BlockPushed"}) BY <2>2, <2>3
  <2> QED BY <2>4, FS_Product, ConstantsAssumption
<1>2. plain \in Surjection(pairs, Plain)
  <2>1. plain \in [pairs -> Plain] OBVIOUS
  <2>2. ASSUME NEW r \in Plain PROVE \E p \in pairs : plain[p] = r
    <3>1. <<r.table, r.hash>> \in pairs /\ plain[<<r.table, r.hash>>] = r OBVIOUS
    <3> QED BY <3>1
  <2> QED BY <2>1, <2>2 DEF Surjection
<1>3. answer \in Surjection(answers, Answers)
  <2>1. answer \in [answers -> Answers] OBVIOUS
  <2>2. ASSUME NEW r \in Answers PROVE \E p \in answers : answer[p] = r
    <3>1. <<r.hash, r.signer>> \in answers /\ answer[<<r.hash, r.signer>>] = r OBVIOUS
    <3> QED BY <3>1
  <2> QED BY <2>1, <2>2 DEF Surjection
<1>4. IsFiniteSet(Plain) /\ IsFiniteSet(Answers)
  <2> HIDE DEF pairs, plain, answers, answer, Plain, Answers
  <2> QED BY <1>1, <1>2, <1>3, FS_Surjection
<1>5. IsFiniteSet(Plain \cup Answers)
  <2> HIDE DEF Plain, Answers
  <2> QED BY <1>4, FS_Union
<1> QED BY <1>5 DEF Row

Batched == BagToSet(relayed) \cup BagToSet(notifying)

Lost == relaying \ (Relayed \cup Notifying)

\* Batches are pieces of announced messages, so that no two share a row.
BatchInv ==
  /\ relaying \subseteq heard
  /\ \A b \in Batched : b # {} /\ b \subseteq relaying
  /\ \A b1, b2 \in Batched : b1 # b2 => b1 \cap b2 = {}
  /\ BagToSet(relayed) \cap BagToSet(notifying) = {}
  /\ \A b \in BagToSet(relayed) : relayed[b] = 1
  /\ \A b \in BagToSet(notifying) : notifying[b] = 1 /\ Cardinality(b) <= BatchSize
  /\ Cardinality(Lost) <= BatchSize * failedNotifies
  /\ failedNotifies \in Nat

\* One copy put in, or the only copy taken out.
LEMMA OneCopy ==
  ASSUME NEW B, \A e \in BagToSet(B) : B[e] = 1, NEW S
  PROVE  /\ BagToSet(B) \cap S = {} => LET B2 == B (+) SetToBag(S)
                                       IN  \A e \in BagToSet(B2) : B2[e] = 1
         /\ LET B2 == B (-) SetToBag(S)
            IN  BagToSet(B2) = BagToSet(B) \ S /\ \A e \in BagToSet(B2) : B2[e] = 1
<1>1. \A e \in DOMAIN B : B[e] = 1 BY DEF BagToSet
<1> QED BY <1>1 DEF BagToSet, SetToBag, (+), (-)

\* Some of the rows are no more than all of them.
LEMMA SubsetCardinality ==
  ASSUME NEW S \in SUBSET Row, NEW T \in SUBSET S
  PROVE  Cardinality(S) \in Nat /\ Cardinality(T) \in Nat /\ Cardinality(T) <= Cardinality(S)
<1>1. IsFiniteSet(S) BY RowsAreFinite, FS_Subset
<1>2. IsFiniteSet(T) BY <1>1, FS_Subset
<1> QED BY <1>1, <1>2, FS_Subset, FS_CardinalityType

\* There is no batch at first.
LEMMA BatchInit == ListenersInit => BatchInv
<1> SUFFICES ASSUME ListenersInit PROVE BatchInv OBVIOUS
<1>1. BagToSet(relayed) = {} /\ BagToSet(notifying) = {} /\ relaying = {} /\ failedNotifies = 0
  BY EmptyBagIsABag DEF ListenersInit
<1>2. Lost = {} /\ Cardinality({}) = 0 BY <1>1, FS_EmptySet DEF Lost
<1>3. BatchSize * failedNotifies = 0 BY <1>1, ListenersAssumption
<1> QED BY <1>1, <1>2, <1>3 DEF BatchInv, Batched

\* A timer that fires adds batches of rows none of which was relayed before.
LEMMA BatchEmit ==
  TypeOK /\ AnnouncedOnceAndDurable /\ ListenersTypeOK /\ BatchInv /\ EmitToListeners => BatchInv'
<1> SUFFICES ASSUME TypeOK, AnnouncedOnceAndDurable, ListenersTypeOK, BatchInv, EmitToListeners
             PROVE  BatchInv'
  OBVIOUS
<1> DEFINE msg == Head(timers)
<1>1. msg \in SUBSET Row BY EmittedRows
<1>2. heard' = heard \cup msg BY DEF EmitToListeners, EmitSignerMessages
<1>3. msg \cap heard = {}
  <2>1. timers # <<>> /\ timers \in Seq(SUBSET Row)
    BY DEF EmitToListeners, EmitSignerMessages, TypeOK
  <2>2. Len(timers) \in Nat /\ Len(timers) # 0 BY <2>1
  <2>3. 1 \in 1..Len(timers) /\ Head(timers) = timers[1] BY <2>1, <2>2
  <2>4. msg \subseteq Pending BY <2>3 DEF Pending, Elements
  <2> QED BY <2>4 DEF AnnouncedOnceAndDurable
<1>4. NotifyListener(msg) BY DEF EmitToListeners
<1> HIDE DEF msg
<1>5. CASE UNCHANGED notifyVars
  BY <1>2, <1>5 DEF notifyVars, BatchInv, Batched, Lost, Relayed, Notifying
<1>6. ASSUME NEW cut \in Batches(msg), notifying' = notifying (+) SetToBag(cut),
             relaying' = relaying \cup msg, UNCHANGED <<relayed, failedNotifies>>
      PROVE  BatchInv'
  <2>1. /\ UNION cut = msg
        /\ \A b1, b2 \in cut : b1 # b2 => b1 \cap b2 = {}
        /\ \A b \in cut : Cardinality(b) \in 1..BatchSize
    BY DEF Batches
  <2>2. \A b \in cut : b # {} /\ b \subseteq msg /\ Cardinality(b) <= BatchSize
    <3>1. \A n \in 1..BatchSize : n # 0 /\ n <= BatchSize BY ListenersAssumption
    <3>2. Cardinality({}) = 0 BY FS_EmptySet
    <3> QED BY <2>1, <3>1, <3>2
  <2>3. \A b \in Batched : b # {} /\ b \subseteq heard BY DEF BatchInv
  <2>4. \A b \in Batched, new \in cut : b \cap new = {} /\ b # new BY <1>3, <2>2, <2>3
  <2>5. BagToSet(notifying') = BagToSet(notifying) \cup cut BY <1>6, BagOfUnion
  <2>6. BagToSet(notifying) \cap cut = {} /\ BagToSet(relayed) \cap cut = {}
    BY <2>4 DEF Batched
  <2>7. \A b \in BagToSet(notifying') : notifying'[b] = 1
    BY <1>6, <2>6, OneCopy DEF BatchInv
  <2>8. Batched' = Batched \cup cut BY <1>6, <2>5 DEF Batched
  <2>9. Cardinality(Lost') <= BatchSize * failedNotifies'
    <3>1. Lost' \subseteq Lost BY <1>6, <2>1, <2>5 DEF Lost, Relayed, Notifying
    <3>2. Lost \in SUBSET Row BY DEF Lost, ListenersTypeOK
    <3>3. /\ Cardinality(Lost) \in Nat /\ Cardinality(Lost') \in Nat
          /\ Cardinality(Lost') <= Cardinality(Lost)
      BY <3>1, <3>2, SubsetCardinality
    <3>4. BatchSize * failedNotifies \in Nat BY ListenersAssumption DEF BatchInv
    <3> QED BY <1>6, <3>3, <3>4 DEF BatchInv
  <2>10. \A b \in Batched' : b # {} /\ b \subseteq relaying'
    BY <1>6, <2>2, <2>8 DEF BatchInv
  <2>11. \A b1, b2 \in Batched' : b1 # b2 => b1 \cap b2 = {}
    BY <2>1, <2>4, <2>8 DEF BatchInv
  <2>12. relaying' \subseteq heard' BY <1>2, <1>6 DEF BatchInv
  <2>13. BagToSet(relayed') \cap BagToSet(notifying') = {} BY <1>6, <2>5, <2>6 DEF BatchInv
  <2>14. \A b \in BagToSet(notifying') : Cardinality(b) <= BatchSize
    BY <2>2, <2>5 DEF BatchInv
  <2> QED BY <1>6, <2>7, <2>9, <2>10, <2>11, <2>12, <2>13, <2>14 DEF BatchInv
<1> QED BY <1>4, <1>5, <1>6 DEF NotifyListener

\* A notification that ends, or fails, leaves the other batches as they are.
LEMMA BatchEnd ==
  ASSUME ListenersTypeOK, BatchInv, UNCHANGED heard, NEW b \in BagToSet(notifying),
         OnNotification(b) \/ NotifyFails(b)
  PROVE  BatchInv'
<1>1. notifying' = notifying (-) SetToBag({b}) /\ UNCHANGED relaying
  BY DEF OnNotification, NotifyFails
<1>2. /\ BagToSet(notifying') = BagToSet(notifying) \ {b}
      /\ \A e \in BagToSet(notifying') : notifying'[e] = 1
  BY <1>1, OneCopy DEF BatchInv
<1>3. b \notin BagToSet(relayed) BY DEF BatchInv
<1>4. BatchSize \in Nat /\ failedNotifies \in Nat BY ListenersAssumption DEF BatchInv
<1>5. CASE OnNotification(b)
  <2>1. relayed' = relayed (+) SetToBag({b}) /\ UNCHANGED failedNotifies
    BY <1>5 DEF OnNotification
  <2>2. BagToSet(relayed') = BagToSet(relayed) \cup {b} BY <2>1, BagOfUnion
  <2>3. \A e \in BagToSet(relayed') : relayed'[e] = 1 BY <1>3, <2>1, OneCopy DEF BatchInv
  <2>4. Batched' = Batched BY <1>2, <2>2 DEF Batched
  <2>5. Relayed' \cup Notifying' = Relayed \cup Notifying
    BY <1>2, <2>2 DEF Relayed, Notifying
  <2>6. Lost' = Lost BY <1>1, <2>5 DEF Lost
  <2>7. Cardinality(Lost') <= BatchSize * failedNotifies'
    BY <2>1, <2>6 DEF BatchInv
  <2>8. BagToSet(relayed') \cap BagToSet(notifying') = {}
    BY <1>2, <2>2 DEF BatchInv
  <2>9. \A e \in BagToSet(notifying') : notifying'[e] = 1 /\ Cardinality(e) <= BatchSize
    BY <1>2 DEF BatchInv
  <2>10. relaying' \subseteq heard' /\ failedNotifies' \in Nat BY <1>1, <2>1 DEF BatchInv
  <2>11. /\ \A e \in Batched' : e # {} /\ e \subseteq relaying'
         /\ \A b1, b2 \in Batched' : b1 # b2 => b1 \cap b2 = {}
    BY <1>1, <2>4 DEF BatchInv
  <2> QED BY <2>3, <2>7, <2>8, <2>9, <2>10, <2>11 DEF BatchInv
<1>6. CASE NotifyFails(b)
  <2>1. UNCHANGED relayed /\ failedNotifies' = failedNotifies + 1
    BY <1>6 DEF NotifyFails
  <2>2. Batched' \subseteq Batched BY <1>2, <2>1 DEF Batched
  <2>3. Lost' \subseteq Lost \cup b
    BY <1>1, <1>2, <2>1 DEF Lost, Relayed, Notifying
  <2>4. Lost \in SUBSET Row /\ b \in SUBSET Row
    BY DEF Lost, ListenersTypeOK, BatchInv, Batched
  <2>5. Lost \cup b \in SUBSET Row /\ Lost' \in SUBSET (Lost \cup b) BY <2>3, <2>4
  <2>6. /\ Cardinality(Lost') \in Nat /\ Cardinality(Lost \cup b) \in Nat
        /\ Cardinality(Lost') <= Cardinality(Lost \cup b)
    BY <2>5, SubsetCardinality
  <2>7. /\ Cardinality(Lost) \in Nat /\ Cardinality(b) \in Nat
        /\ Cardinality(Lost \cup b) <= Cardinality(Lost) + Cardinality(b)
    <3>1. IsFiniteSet(Lost) /\ IsFiniteSet(b) BY <2>4, RowsAreFinite, FS_Subset
    <3>2. IsFiniteSet(Lost \cap b) BY <3>1, FS_Intersection
    <3>3. /\ Cardinality(Lost) \in Nat /\ Cardinality(b) \in Nat /\ Cardinality(Lost \cap b) \in Nat
      BY <3>1, <3>2, FS_CardinalityType
    <3>4. Cardinality(Lost \cup b)
            = Cardinality(Lost) + Cardinality(b) - Cardinality(Lost \cap b)
      BY <3>1, FS_Union
    <3> QED BY <3>3, <3>4
  <2>8. Cardinality(b) <= BatchSize /\ Cardinality(Lost) <= BatchSize * failedNotifies
    BY DEF BatchInv
  <2>9. BatchSize * failedNotifies' = BatchSize * failedNotifies + BatchSize
        /\ BatchSize * failedNotifies \in Nat
    BY <1>4, <2>1
  <2>10. Cardinality(Lost') <= BatchSize * failedNotifies'
    BY <1>4, <2>6, <2>7, <2>8, <2>9
  <2>11. relaying' \subseteq heard' /\ failedNotifies' \in Nat
    BY <1>1, <1>4, <2>1 DEF BatchInv
  <2>12. /\ \A e \in Batched' : e # {} /\ e \subseteq relaying'
         /\ \A b1, b2 \in Batched' : b1 # b2 => b1 \cap b2 = {}
    BY <1>1, <2>2 DEF BatchInv
  <2>13. /\ BagToSet(relayed') \cap BagToSet(notifying') = {}
         /\ \A e \in BagToSet(relayed') : relayed'[e] = 1
         /\ \A e \in BagToSet(notifying') : notifying'[e] = 1 /\ Cardinality(e) <= BatchSize
    BY <1>2, <2>1 DEF BatchInv
  <2> QED BY <2>10, <2>11, <2>12, <2>13 DEF BatchInv
<1> QED BY <1>5, <1>6

\* Every step keeps the batches within what has been heard.
LEMMA BatchStep ==
  TypeOK /\ AnnouncedOnceAndDurable /\ ListenersTypeOK /\ BatchInv /\ [ListenersNext]_allVars
    => BatchInv'
<1> SUFFICES ASSUME TypeOK, AnnouncedOnceAndDurable, ListenersTypeOK, BatchInv,
                    [ListenersNext]_allVars
             PROVE  BatchInv'
  OBVIOUS
<1>1. CASE UNCHANGED <<notifyVars, heard>>
  BY <1>1 DEF notifyVars, BatchInv, Batched, Lost, Relayed, Notifying
<1>2. CASE EmitToListeners BY <1>2, BatchEmit
<1>3. CASE CrashListeners
  <2>1. BagToSet(relayed') = {} /\ BagToSet(notifying') = {} /\ relaying' = {}
        /\ UNCHANGED failedNotifies
    BY <1>3, EmptyBagIsABag DEF CrashListeners
  <2>2. Lost' = {} /\ Cardinality({}) = 0 BY <2>1, FS_EmptySet DEF Lost
  <2>3. BatchSize * failedNotifies \in Nat BY ListenersAssumption DEF BatchInv
  <2>4. Batched' = {} BY <2>1 DEF Batched
  <2> QED BY <2>1, <2>2, <2>3, <2>4 DEF BatchInv
<1>4. ASSUME NEW b \in BagToSet(notifying), OnNotification(b) \/ NotifyFails(b), UNCHANGED vars
      PROVE  BatchInv'
  BY <1>4, BatchEnd DEF vars
<1>5. CASE Ingest /\ UNCHANGED listenerVars
  BY <1>1, <1>5, IngestIsSilent DEF listenerVars
<1>6. CASE Listen /\ UNCHANGED vars
  <2>1. CASE \/ StartListening \/ PreClose
             \/ \E c \in Clients : Connect(c) \/ Disconnect(c)
             \/ \E q \in BagToSet(queries) :
                  GetBlockProposal(q) \/ BroadcastBlockProposal(q) \/ BroadcastFails(q)
    <3>1. UNCHANGED notifyVars
      BY <2>1 DEF StartListening, PreClose, Connect, Disconnect, GetBlockProposal,
                  BroadcastBlockProposal, BroadcastFails
    <3> QED BY <1>1, <1>6, <3>1 DEF vars
  <2> QED BY <1>4, <1>6, <2>1 DEF Listen
<1>7. CASE UNCHANGED allVars BY <1>1, <1>7 DEF allVars, listenerVars, vars
<1> QED BY <1>2, <1>3, <1>5, <1>6, <1>7 DEF ListenersNext

\* However messages are cut into batches, a NOTIFY that fails costs its own batch.
THEOREM BatchesFailAlone == ListenersSpec => []FailedNotifiesLoseOneBatch
<1>1. ListenersSpec => []TypeOK BY ListenersOnlyWatch, TypeCorrect, PTL
<1>2. ListenersSpec => []AnnouncedOnceAndDurable
  BY ListenersOnlyWatch, AnnouncementsAreOnceAndDurable, PTL
<1>3. ListenersSpec => []BatchInv
  BY <1>1, <1>2, ListenersTypeCorrect, BatchInit, BatchStep, PTL DEF ListenersSpec
<1>4. BatchInv => FailedNotifiesLoseOneBatch
  BY DEF BatchInv, Batched, Lost, FailedNotifiesLoseOneBatch
<1> QED BY <1>3, <1>4, PTL
==============================================================================
