---------------------------- MODULE SignerQueries ----------------------------
(***************************************************************************)
(* The queries of PgStore (pg-store.ts) and what the HTTP routes and the   *)
(* Prometheus gauges make of them, as functions of the tables that         *)
(* Ingestion fills. Every query is one statement, so it reads one          *)
(* committed database. The checks are made on all databases the ingestion  *)
(* reaches, those between two of its commits included.                     *)
(*                                                                         *)
(* Sums of weights and stacked amounts go the way of the counts and are    *)
(* left out, like averages of times.                                       *)
(***************************************************************************)
EXTENDS IngestionProperties, FiniteSetsExt

CONSTANTS
  SignedBy,   \* the signers whose signatures the block with this hash carries
  NoDate,     \* an absent `from` or `to`
  MoreThanAnHour  \* the pairs <<i, j>> of messages with j more than an hour after i

ASSUME SignedByAssumption == SignedBy \in [Hashes -> SUBSET Signers]

ASSUME HourAssumption == \A p \in MoreThanAnHour : p \in Nat \X Nat /\ p[1] < p[2]

ASSUME NullsAssumption == NoRow \notin Signers /\ NoRow \notin Nat /\ NoDate \notin Nat

Proposals(d) == {h \in Hashes : d.proposals[h] # NoRow}

Proposes(m, h) ==
  /\ m.path = "/stackerdb_chunks"
  /\ \E j \in 1..Len(m.chunks) : m.chunks[j].type = "BlockProposal" /\ m.chunks[j].hash = h

\* block_proposals.received_at: the stream's timestamp of the message that brought
\* the proposal first (a redelivered message has the same). Its id stands for it.
ReceivedAt(h) == Min({i \in 1..Len(stream) : Proposes(stream[i], h)})

Answers(m, s, h) ==
  /\ m.path = "/stackerdb_chunks"
  /\ \E j \in 1..Len(m.chunks) : /\ m.chunks[j].type = "BlockResponse"
                                 /\ m.chunks[j].signer = s /\ m.chunks[j].hash = h

\* block_responses.received_at, for a response that is stored.
AnsweredAt(s, h) == Min({i \in 1..Len(stream) : Answers(stream[i], s, h)})

\* ORDER BY received_at DESC: the proposals of one message may come in any order.
NewestFirst(S) ==
  {q \in [1..Cardinality(S) -> S] :
     /\ IsInjective(q)
     /\ \A i, j \in DOMAIN q : i < j => ReceivedAt(q[i]) >= ReceivedAt(q[j])}

\* LIMIT limit OFFSET offset
Page(rows, limit, offset) == SubSeq(rows, offset + 1, offset + limit)
------------------------------------------------------------------------------
(* Proposals                                                               *)

\* LEFT JOIN reward_set_signers: one row of NULLs for a cycle without signers.
JoinedSigners(d, c) == IF c # NoRow /\ RewardSet(d, c) # {} THEN RewardSet(d, c) ELSE {NoRow}

\* LEFT JOIN block_responses on the hash and the joined signer's key.
ResponseOf(d, h, s) == IF s = NoRow THEN NoRow ELSE d.responses[<<s, h>>]

ResponseState(d, h, s) ==
  IF ResponseOf(d, h, s) = NoRow THEN "missing" ELSE ResponseOf(d, h, s)

CountResponses(d, h, state) ==
  Quantify(JoinedSigners(d, d.proposals[h]), LAMBDA s : ResponseState(d, h, s) = state)

ProposalEntry(d, h) ==
  [status   |-> Status(d, h),
   total    |-> Cardinality(RewardSet(d, d.proposals[h])),
   accepted |-> CountResponses(d, h, "accepted"),
   rejected |-> CountResponses(d, h, "rejected"),
   missing  |-> CountResponses(d, h, "missing"),
   signerData |-> [s \in JoinedSigners(d, d.proposals[h]) |-> ResponseState(d, h, s)]]

\* GET /v1/block_proposals, with the proposals in the order q.
RecentProposals(d, q, limit, offset) ==
  LET page == Page(q, limit, offset)
  IN  [i \in DOMAIN page |-> ProposalEntry(d, page[i])]
------------------------------------------------------------------------------
(* Blocks                                                                  *)

\* The join with block_signer_signatures is by height, not by hash.
SignersMined(d, h) ==
  UNION {SignedBy[g] : g \in {g \in Elements(d.sigs) : Height(g) = Height(h)}}

\* Mutant: the signer state as the comment of pg-store.ts:349 has it.
SignerStatusAsDocumented(d, h, s) ==
  CASE s \in SignersMined(d, h) /\ ResponseOf(d, h, s) = "accepted" -> "accepted_mined"
    [] s \in SignersMined(d, h) /\ ResponseOf(d, h, s) # "accepted" -> NoRow
    [] s \notin SignersMined(d, h) /\ ResponseOf(d, h, s) = "accepted" -> "accepted_excluded"
    [] OTHER -> ResponseState(d, h, s)

SignerStatus(d, h, s) ==
  CASE s \in SignersMined(d, h) -> "accepted_mined"
    [] s \notin SignersMined(d, h) /\ ResponseOf(d, h, s) = "accepted" -> "accepted_excluded"
    [] OTHER -> ResponseState(d, h, s)

CountStates(d, h, state) ==
  Quantify(JoinedSigners(d, d.proposals[h]), LAMBDA s : SignerStatus(d, h, s) = state)

\* signer_data is null without a proposal; a cycle number of 0 is falsy too.
HasSignerData(d, h) == d.proposals[h] \notin {NoRow, 0}

SignerData(d, h) ==
  [total    |-> Cardinality(RewardSet(d, d.proposals[h])),
   accepted |-> CountStates(d, h, "accepted_mined") + CountStates(d, h, "accepted_excluded"),
   excluded |-> CountStates(d, h, "accepted_excluded"),
   rejected |-> CountStates(d, h, "rejected"),
   missing  |-> CountStates(d, h, "missing")]

BlockEntry(d, h) ==
  [hash |-> h, signerData |-> IF HasSignerData(d, h) THEN SignerData(d, h) ELSE NoRow]

\* ORDER BY block_height DESC
HighestFirst(S) ==
  {q \in [1..Cardinality(S) -> S] :
     /\ IsInjective(q)
     /\ \A i, j \in DOMAIN q : i < j => Height(q[i]) >= Height(q[j])}

\* GET /v1/blocks, with the blocks in the order q.
RecentBlocks(d, q, limit, offset) ==
  LET page == Page(q, limit, offset)
  IN  [total   |-> IF page = <<>> THEN 0 ELSE d.tip,
       results |-> [i \in DOMAIN page |-> BlockEntry(d, page[i])]]

\* GET /v1/blocks/:height_or_hash: no entry is a 404.
BlockMatches(d, id, h) ==
  \/ id.type = "height" /\ Height(h) = id.value
  \/ id.type = "hash"   /\ h = id.value
  \/ id.type = "latest" /\ Height(h) = d.tip

Blocks(d, id) == {BlockEntry(d, h) : h \in {h \in Elements(d.blocks) : BlockMatches(d, id, h)}}

\* GET /: the chain tip's height.
ApiStatus(d) == d.tip
------------------------------------------------------------------------------
(* Signers of a cycle                                                      *)

\* Mutant: both ends of the range are included.
IsInClosedRange(h, from, to) ==
  /\ from # NoDate => ReceivedAt(h) >= from
  /\ to # NoDate => ReceivedAt(h) <= to

IsInRange(h, from, to) ==
  /\ from # NoDate => ReceivedAt(h) >= from
  /\ to # NoDate => ReceivedAt(h) < to

\* The counters are counted anew; with no proposal in the range aggregated_data
\* has no row for the signer and its columns are NULL.
CountInRange(d, c, s, from, to, state) ==
  LET proposals == {h \in Proposals(d) : d.proposals[h] = c /\ IsInRange(h, from, to)}
  IN  IF proposals = {} THEN NoRow
      ELSE Quantify(proposals, LAMBDA h : ResponseState(d, h, s) = state)

\* GET /v1/cycles/:cycle_number/signers: the stored counters without a range.
SignersForCycle(d, c, from, to) ==
  [s \in RewardSet(d, c) |->
     IF from = NoDate /\ to = NoDate
     THEN [accepted |-> d.signers[c][s].accepted,
           rejected |-> d.signers[c][s].rejected,
           missed   |-> d.signers[c][s].missed]
     ELSE [accepted |-> CountInRange(d, c, s, from, to, "accepted"),
           rejected |-> CountInRange(d, c, s, from, to, "rejected"),
           missed   |-> CountInRange(d, c, s, from, to, "missing")]]

\* The route rejects a range that ends before it begins.
IsValidRange(from, to) == from = NoDate \/ to = NoDate \/ from <= to

\* The response serializer writes a NULL integer as 0.
AsInteger(value) == IF value = NoRow THEN 0 ELSE value
------------------------------------------------------------------------------
(* The migrations that added the counters to a database without them       *)

\* 1752528070252: the new columns start at their defaults.
AddStatsColumns(d) ==
  [d EXCEPT !.signers =
     [c \in Cycles |-> [s \in Signers |-> IF s \in RewardSet(d, c) THEN NewSignerRow ELSE NoRow]]]

ProposalsOf(d, c) == {h \in Proposals(d) : d.proposals[h] = c}

CountOf(d, c, s, state) == Quantify(ProposalsOf(d, c), LAMBDA h : ResponseState(d, h, s) = state)

\* Mutant: JOIN block_responses, so that only answered proposals are seen.
BackfillStatsOfAnswers(d) ==
  [d EXCEPT !.signers = [c \in Cycles |-> [s \in Signers |->
     IF s \notin RewardSet(d, c) THEN NoRow
     ELSE [accepted |-> CountOf(d, c, s, "accepted"), rejected |-> CountOf(d, c, s, "rejected"),
           missed |-> 0, ranked |-> TRUE]]]]

\* 1752607428474: every signer's row is ranked; its proposals are counted where the
\* cycle has some (an UPDATE ... FROM leaves the other rows alone).
BackfillStats(d) ==
  [d EXCEPT !.signers = [c \in Cycles |-> [s \in Signers |->
     IF s \notin RewardSet(d, c) THEN NoRow
     ELSE IF ProposalsOf(d, c) = {} THEN RankedRow(d.signers[c][s])
     ELSE [accepted |-> CountOf(d, c, s, "accepted"), rejected |-> CountOf(d, c, s, "rejected"),
           missed |-> CountOf(d, c, s, "missing"), ranked |-> TRUE]]]]
------------------------------------------------------------------------------
(* Prometheus metrics                                                      *)

\* Mutant: the cutoff is taken from the newest of the recent proposals.
IsTooOldForNewest(s, h, recent) ==
  <<AnsweredAt(s, h), Max({ReceivedAt(g) : g \in Elements(recent)})>> \in MoreThanAnHour

\* block_responses_after leaves out the responses that were stored more than an hour
\* before the oldest of the recent proposals.
IsTooOld(s, h, recent) ==
  <<AnsweredAt(s, h), Min({ReceivedAt(g) : g \in Elements(recent)})>> \in MoreThanAnHour

RecentState(d, s, h, recent) ==
  IF ResponseState(d, h, s) = "missing" \/ IsTooOld(s, h, recent) THEN "missing"
  ELSE ResponseState(d, h, s)

\* getRecentSignerMetrics: the signers of the newest proposal's cycle, whatever
\* cycles the recent proposals belong to. `recent` are the proposals of the largest
\* range, of which each range takes the newest.
SignerMetrics(d, latest, recent, range) ==
  [s \in RewardSet(d, d.proposals[latest]) |->
     [state \in Verdicts \cup {"missing"} |->
        Quantify(Elements(Page(recent, range, 0)),
                 LAMBDA h : RecentState(d, s, h, recent) = state)]]

\* getRecentBlockAcceptanceMetrics: the numerator; the range's size divides it.
AcceptedProposals(d, recent) == Cardinality(Elements(recent) \cap d.pushes)

\* Mutant: pushes are not looked at.
MaxBlockHeight(d) == Max({0} \cup {Height(h) : h \in Elements(d.blocks)})

\* getPendingProposalDate takes the oldest or the newest of PendingProposals.
MaxHeight(d) == Max({0} \cup {Height(h) : h \in Elements(d.blocks) \cup d.pushes})

PendingProposals(d) == {h \in Proposals(d) : Height(h) > MaxHeight(d)}
------------------------------------------------------------------------------
(* What clients of several endpoints can rely on                           *)

Total(entry) == entry.accepted + entry.rejected + entry.missing

\* /blocks and /block_proposals tell one story of a block: it is an accepted
\* proposal with the same signers, its block adds mined signatures to the
\* responses, and both split the signer set into the states without remainder
\* (a set that is there; the comment and the CASE of pg-store.ts:427 disagree on
\* signers that signed without accepting).
EndpointsAgree ==
  \A h \in Elements(db.blocks) : HasSignerData(db, h) =>
    LET proposal == ProposalEntry(db, h)
        block    == BlockEntry(db, h).signerData
    IN  /\ proposal.status = "accepted"
        /\ block.total = proposal.total
        /\ block.accepted >= proposal.accepted
        /\ block.rejected <= proposal.rejected
        /\ block.missing <= proposal.missing
        /\ block.total > 0 => Total(block) = block.total /\ Total(proposal) = block.total

Latest == [type |-> "latest", value |-> NoRow]

IsSignedBefore(h) == h \in Elements(db.sigs) /\ ~Header[h].nakamoto

\* GET /v1/blocks/latest goes by the chain tip, GET /v1/blocks by the blocks, and the
\* status reports the tip. Crashes, skipped forks and repeated blocks never part them:
\* the latest block is the first of the list, at the height of the status, unless a
\* block that is no Nakamoto block moved the tip without being stored; then there is
\* no latest block and the list ends below the status.
LatestIsMostRecent ==
  db.blocks # <<>> =>
    \A q \in HighestFirst(Elements(db.blocks)) :
      LET newest == RecentBlocks(db, q, 1, 0).results[1]
      IN  \/ Blocks(db, Latest) = {newest} /\ ApiStatus(db) = Height(newest.hash)
          \/ /\ Blocks(db, Latest) = {} /\ ApiStatus(db) > Height(newest.hash)
             /\ \E h \in Hashes : IsSignedBefore(h) /\ Height(h) = ApiStatus(db)

Sum(a, b) == AsInteger(a) + AsInteger(b)

Dates == 1 .. Len(stream) + 1

\* Consecutive ranges of time neither overlap nor leave a proposal out, and the
\* counters collected while responses were stored never exceed the recount.
RangesAdd ==
  \A c \in Cycles : \A s \in RewardSet(db, c) : \A from \in Dates \cup {NoDate}, t, to \in Dates :
    IsValidRange(from, t) /\ t <= to =>
      LET first  == SignersForCycle(db, c, from, t)[s]
          second == SignersForCycle(db, c, t, to)[s]
          both   == SignersForCycle(db, c, from, to)[s]
          rest   == SignersForCycle(db, c, t, NoDate)[s]
          stored == SignersForCycle(db, c, NoDate, NoDate)[s]
      IN  /\ \A count \in {"accepted", "rejected", "missed"} :
               AsInteger(both[count]) = Sum(first[count], second[count])
          /\ from = NoDate => \A count \in {"accepted", "rejected"} :
               stored[count] <= Sum(first[count], rest[count])

\* The counters the migration fills in tell what the API recounts over all time:
\* every proposal of the cycle has one place in them, no signer loses a response
\* it is credited with, and the migration on its own result changes nothing.
BackfillRecounts ==
  LET filled == BackfillStats(AddStatsColumns(db)) IN
  /\ BackfillStats(filled) = filled
  /\ \A c \in Cycles : \A s \in RewardSet(db, c) :
       LET before  == SignersForCycle(db, c, NoDate, NoDate)[s]
           after   == SignersForCycle(filled, c, NoDate, NoDate)[s]
           recount == SignersForCycle(db, c, 1, NoDate)[s]
       IN  /\ \A count \in {"accepted", "rejected", "missed"} :
                after[count] = AsInteger(recount[count])
           /\ after.accepted >= before.accepted /\ after.rejected >= before.rejected
           /\ after.accepted + after.rejected + after.missed
                = Cardinality(ProposalsOf(db, c))
           /\ filled.signers[c][s].ranked

\* A response that was stored before its proposal.
Overtook(d, s, h) == ResponseState(d, h, s) # "missing" /\ AnsweredAt(s, h) < ReceivedAt(h)

\* The gauges agree with the proposals' entries they summarise: each range has every
\* recent proposal once. A response that an entry lists is lost to the gauges only if
\* it overtook its proposal, and within the newest proposal's cycle they count none
\* that no entry lists. No more proposals count as accepted than have that status.
MetricsMatchEntries ==
  \A q, newest \in NewestFirst(Proposals(db)) : \A max \in DOMAIN q : \A n \in 1..max :
    LET recent  == Page(q, n, 0)
        entries == RecentProposals(db, q, n, 0)
        metrics == SignerMetrics(db, newest[1], Page(q, max, 0), n)
        Listed(s, state) ==
          Quantify(DOMAIN entries, LAMBDA i : /\ s \in DOMAIN entries[i].signerData
                                              /\ entries[i].signerData[s] = state)
        Early(s, state) ==
          Quantify(Elements(recent), LAMBDA h : /\ Overtook(db, s, h)
                                                /\ ResponseState(db, h, s) = state)
        OfOneCycle == \A h \in Elements(recent) : db.proposals[h] = db.proposals[newest[1]]
    IN  /\ \A s \in DOMAIN metrics :
             /\ Total(metrics[s]) = n
             /\ metrics[s].missing >= Listed(s, "missing")
             /\ \A verdict \in Verdicts :
                  /\ Listed(s, verdict) <= metrics[s][verdict] + Early(s, verdict)
                  /\ OfOneCycle => metrics[s][verdict] <= Listed(s, verdict)
        /\ AcceptedProposals(db, recent)
             <= Quantify(DOMAIN entries, LAMBDA i : entries[i].status = "accepted")

\* What the gauges take for pending clients see as pending: the gauges compare
\* heights with the blocks and pushes, the status goes by the chain tip and the
\* push of that very hash. Only where a block that is no Nakamoto block moved the
\* tip do clients see it rejected. (An empty database has chain tip 1, the height of
\* no proposal.)
PendingIsConsistent ==
  \A h \in PendingProposals(db) : Height(h) > EmptyDatabase.tip =>
    \/ ProposalEntry(db, h).status = "pending"
    \/ /\ ProposalEntry(db, h).status = "rejected"
       /\ \E g \in Hashes : IsSignedBefore(g) /\ Height(g) = ApiStatus(db)
------------------------------------------------------------------------------
(* What comments and descriptions say, and the queries do not keep.        *)

\* "Number of signers that failed to submit any response/vote for this proposal"
\* (schemas.ts:336): signers of the total.
MissingWithinTotal ==
  \A h \in Proposals(db) : ProposalEntry(db, h).missing <= ProposalEntry(db, h).total
==============================================================================
