------------------------ MODULE SignerMessageListeners ------------------------
(***************************************************************************)
(* The listeners of the ingestion's 'signerMessages' events, composed with *)
(* Ingestion, whose timers emit them: the socket.io route, which queries   *)
(* the proposal of each block a message touched and broadcasts it          *)
(* (socket-io.ts), and NotificationPgStore, which relays the messages      *)
(* through NOTIFY and LISTEN (pg-notifications.ts).                        *)
(*                                                                         *)
(* A listener runs to its end when the event is emitted; the queries and   *)
(* NOTIFYs it starts run on connections of the pool, in no order. A        *)
(* broadcast is what its query could see of a block: the rows of the block *)
(* in the committed database. (How the entry is computed from them is in   *)
(* SignerQueries.)                                                         *)
(***************************************************************************)
EXTENDS IngestionProperties, Bags

CONSTANTS
  Clients,              \* socket.io clients
  EnableListenNotify,   \* PgStore.connect's option of that name
  BatchSize,            \* messages in a NOTIFY: 25
  MaxFailedBroadcasts,  \* bound: proposal queries that fail
  MaxFailedNotifies     \* bound: NOTIFYs that fail

ASSUME ListenersAssumption ==
  /\ EnableListenNotify \in BOOLEAN
  /\ BatchSize \in Nat \ {0}
  /\ MaxFailedBroadcasts \in Nat /\ MaxFailedNotifies \in Nat

VARIABLES
  api,         \* "starting", "listening", then "closed"
  sockets,     \* blockProposalNs.sockets
  queries,     \* bag of proposal queries under way
  notifying,   \* bag of batches under way through NOTIFY
  relayed,     \* bag of batches NotificationPgStore has emitted
  told,        \* rows announced while a client is connected (history)
  seen,        \* rows of the entries it has received in that time (history)
  failed,      \* blocks with a query that failed (history)
  relaying,    \* rows handed to NOTIFY by this process (history)
  failedBroadcasts, failedNotifies

clientVars   == <<api, sockets, told, seen>>
queryVars    == <<queries, failed, failedBroadcasts>>
notifyVars   == <<notifying, relayed, relaying, failedNotifies>>
listenerVars == <<clientVars, queryVars, notifyVars>>
allVars      == <<vars, listenerVars>>

\* A query that has not read yet has no view.
Unread == NoRow

\* A query of a block: what made the listener start it, and what it has read.
Query == [hash : Hashes, announced : SUBSET Row, view : (SUBSET Row) \cup {Unread}]

RowsOf(d, h) == {row \in Row : row.hash = h /\ HasRow(d, row)}

ProposalRow(h) == [table |-> "BlockProposal", hash |-> h, signer |-> NoRow]
------------------------------------------------------------------------------
(* The socket.io route                                                     *)

\* One query for each block of the message, unless nobody is connected.
QueriesFor(msg) ==
  {[hash |-> h, announced |-> {row \in msg : row.hash = h}, view |-> Unread] :
     h \in {row.hash : row \in msg}}

\* Mutant: no second query of a block is started beside one under way.
SignerMessageListenerCoalescing(msg) ==
  LET busy == {q.hash : q \in BagToSet(queries)} IN
  /\ queries' = IF api # "listening" \/ sockets = {} THEN queries
                ELSE queries (+) SetToBag({q \in QueriesFor(msg) : q.hash \notin busy})
  /\ told' = [c \in Clients |-> IF c \in sockets THEN told[c] \cup msg ELSE told[c]]
  /\ UNCHANGED <<api, sockets, seen, failed, failedBroadcasts>>

SignerMessageListener(msg) ==
  /\ queries' = IF api # "listening" \/ sockets = {} THEN queries
                ELSE queries (+) SetToBag(QueriesFor(msg))
  /\ told' = [c \in Clients |-> IF c \in sockets THEN told[c] \cup msg ELSE told[c]]
  /\ UNCHANGED <<api, sockets, seen, failed, failedBroadcasts>>

Finish(q) == queries' = queries (-) SetToBag({q})

\* The statement of getBlockProposal sees one committed database.
GetBlockProposal(q) ==
  /\ q.view = Unread
  /\ queries' = (queries (-) SetToBag({q}))
                  (+) SetToBag({[q EXCEPT !.view = RowsOf(db, q.hash)]})
  /\ UNCHANGED <<clientVars, failed, failedBroadcasts, notifyVars>>

\* emit() reaches those who are connected by then; without a row for the
\* proposal there is nothing to emit.
BroadcastBlockProposal(q) ==
  /\ q.view # Unread
  /\ Finish(q)
  /\ seen' = IF ProposalRow(q.hash) \in q.view
             THEN [c \in Clients |-> IF c \in sockets THEN seen[c] \cup q.view ELSE seen[c]]
             ELSE seen
  /\ UNCHANGED <<api, sockets, told, failed, failedBroadcasts, notifyVars>>

\* The transaction does not begin, or its query fails: logged, not repeated.
BroadcastFails(q) ==
  /\ q.view = Unread
  /\ failedBroadcasts < MaxFailedBroadcasts
  /\ failedBroadcasts' = failedBroadcasts + 1
  /\ Finish(q)
  /\ failed' = failed \cup {q.hash}
  /\ UNCHANGED <<clientVars, notifyVars>>

\* onListen
StartListening ==
  /\ api = "starting"
  /\ api' = "listening"
  /\ UNCHANGED <<sockets, told, seen, queryVars, notifyVars>>

DisconnectAll ==
  /\ sockets' = {}
  /\ told' = [c \in Clients |-> {}] /\ seen' = [c \in Clients |-> {}]

\* Mutant: clients stay connected to a server that no longer listens.
PreCloseKeepingClients ==
  /\ api = "listening"
  /\ api' = "closed"
  /\ UNCHANGED <<sockets, told, seen, queryVars, notifyVars>>

\* preClose: the listener goes and every client is disconnected.
PreClose ==
  /\ api = "listening"
  /\ api' = "closed"
  /\ DisconnectAll
  /\ UNCHANGED <<queryVars, notifyVars>>

Connect(c) ==
  /\ api = "listening"
  /\ c \notin sockets
  /\ sockets' = sockets \cup {c}
  /\ UNCHANGED <<api, told, seen, queryVars, notifyVars>>

Disconnect(c) ==
  /\ c \in sockets
  /\ sockets' = sockets \ {c}
  /\ told' = [told EXCEPT ![c] = {}]
  /\ seen' = [seen EXCEPT ![c] = {}]
  /\ UNCHANGED <<api, queryVars, notifyVars>>
------------------------------------------------------------------------------
(* NotificationPgStore                                                     *)

\* Mutant: the message goes out in one NOTIFY.
WholeMessage(msg) == {{msg}}

\* The ways batchIterate can cut the rows of a message, by the order of its chunks:
\* batches of BatchSize, and what is left over.
Batches(msg) ==
  {cut \in SUBSET (SUBSET msg) :
     /\ UNION cut = msg
     /\ \A b1, b2 \in cut : b1 # b2 => b1 \cap b2 = {}
     /\ \A b \in cut : Cardinality(b) \in 1..BatchSize
     /\ Cardinality({b \in cut : Cardinality(b) < BatchSize}) <= 1}

NotifyListener(msg) ==
  IF EnableListenNotify
  THEN /\ \E cut \in Batches(msg) : notifying' = notifying (+) SetToBag(cut)
       /\ relaying' = relaying \cup msg
       /\ UNCHANGED <<relayed, failedNotifies>>
  ELSE UNCHANGED notifyVars

\* The batch comes back on the LISTEN connection and is emitted by a timer.
OnNotification(b) ==
  /\ notifying' = notifying (-) SetToBag({b})
  /\ relayed' = relayed (+) SetToBag({b})
  /\ UNCHANGED <<clientVars, queryVars, relaying, failedNotifies>>

\* The NOTIFY is rejected, or its notification meets no LISTEN connection.
NotifyFails(b) ==
  /\ failedNotifies < MaxFailedNotifies
  /\ failedNotifies' = failedNotifies + 1
  /\ notifying' = notifying (-) SetToBag({b})
  /\ UNCHANGED <<clientVars, queryVars, relayed, relaying>>
------------------------------------------------------------------------------
\* The events emitter calls its listeners one after the other.
EmitToListeners ==
  /\ EmitSignerMessages
  /\ NotifyListener(Head(timers))
  /\ SignerMessageListener(Head(timers))

\* The process dies with its connections, and starts again.
CrashListeners ==
  /\ Crash
  /\ api' = "starting"
  /\ DisconnectAll
  /\ queries' = EmptyBag /\ notifying' = EmptyBag /\ relayed' = EmptyBag
  /\ relaying' = {} /\ failed' = {}
  /\ UNCHANGED <<failedBroadcasts, failedNotifies>>

Ingest ==
  \/ HandlerStep
  \/ HandlerFails
  \/ \E c \in Cycles : StackerSetFetched(c) \/ StackerSetPrePox4(c)
  \/ \E pox \in PoxInfos : UpdatePoxInfo(pox)
  \/ \E m \in Messages : Publish(m)
  \/ AwaitMessages

Listen ==
  \/ StartListening \/ PreClose
  \/ \E c \in Clients : Connect(c) \/ Disconnect(c)
  \/ \E q \in BagToSet(queries) :
       GetBlockProposal(q) \/ BroadcastBlockProposal(q) \/ BroadcastFails(q)
  \/ \E b \in BagToSet(notifying) : OnNotification(b) \/ NotifyFails(b)

ListenersInit ==
  /\ Init
  /\ api = "starting"
  /\ sockets = {}
  /\ queries = EmptyBag /\ notifying = EmptyBag /\ relayed = EmptyBag
  /\ told = [c \in Clients |-> {}] /\ seen = [c \in Clients |-> {}]
  /\ relaying = {} /\ failed = {}
  /\ failedBroadcasts = 0 /\ failedNotifies = 0

ListenersNext ==
  \/ Ingest /\ UNCHANGED listenerVars
  \/ Listen /\ UNCHANGED vars
  \/ EmitToListeners
  \/ CrashListeners

ListenersSpec == ListenersInit /\ [][ListenersNext]_allVars
------------------------------------------------------------------------------
(* Properties                                                              *)

\* Every variable of the listeners has its type, and a query that has read is
\* about rows of its own block.
ListenersTypeOK ==
  /\ api \in {"starting", "listening", "closed"}
  /\ sockets \subseteq Clients /\ (sockets # {} => api = "listening")
  /\ IsABag(queries) /\ BagToSet(queries) \subseteq Query
  /\ IsABag(notifying) /\ IsABag(relayed)
  /\ told \in [Clients -> SUBSET Row] /\ seen \in [Clients -> SUBSET Row]
  /\ \A c \in Clients \ sockets : told[c] = {} /\ seen[c] = {}
  /\ relaying \subseteq Row /\ failed \subseteq Hashes
  /\ \A q \in BagToSet(queries) : \A row \in q.announced : row.hash = q.hash

\* A query started by an event sees what the event announced: the timer runs after
\* the COMMIT, on whatever connection the query runs. So no broadcast shows a block
\* as it was before the message that caused it.
BroadcastsFollowCommits ==
  \A q \in BagToSet(queries) : q.view # Unread => q.announced \subseteq q.view

WillShow(q, row) == q.hash = row.hash /\ (q.view = Unread \/ row \in q.view)

\* Nothing a connected client should see is lost between its queries: a row that
\* was announced while it is connected has been in an entry it received, or is in
\* one to come, however the queries of the block overlap, and even if the row
\* arrived before the proposal. Only a failed query, or a proposal that has not
\* been announced itself, keeps it back.
AnnouncedRowsAreShown ==
  \A c \in sockets : \A row \in told[c] :
    \/ row \in seen[c]
    \/ \E q \in BagToSet(queries) : WillShow(q, row)
    \/ row.hash \in failed
    \/ ProposalRow(row.hash) \notin heard

Relayed   == UNION BagToSet(relayed)
Notifying == UNION BagToSet(notifying)

\* A NOTIFY that fails costs the listeners its own batch and no more, and none is
\* relayed twice.
FailedNotifiesLoseOneBatch ==
  /\ \A b \in BagToSet(relayed) : relayed[b] = 1
  /\ \A b1, b2 \in BagToSet(relayed) : b1 # b2 => b1 \cap b2 = {}
  /\ Cardinality(relaying \ (Relayed \cup Notifying)) <= BatchSize * failedNotifies
==============================================================================
