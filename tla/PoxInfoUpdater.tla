---------------------------- MODULE PoxInfoUpdater ----------------------------
(***************************************************************************)
(* runPoxInfoBackgroundJob (pox-info-updater.ts): a loop that copies the   *)
(* PoX parameters of the node into chain_tip, every 30 seconds or, while   *)
(* the database is known to have none, 3 seconds after a failure. `at` is  *)
(* the await the loop is suspended at.                                     *)
(***************************************************************************)
EXTENDS Naturals

CONSTANTS
  PoxInfos,     \* the PoX parameters a node may report
  NoRow,        \* SQL NULL
  Unknown,      \* isDbMissingPoxInfo before the database was read (null)
  MaxChanges,   \* bound: times the node's parameters change
  MaxFailures   \* bound: failures of the database and the RPC

ASSUME UpdaterAssumption ==
  /\ NoRow \notin PoxInfos
  /\ Unknown \notin BOOLEAN
  /\ MaxChanges \in Nat /\ MaxFailures \in Nat

VARIABLES
  at,
  isDbMissingPoxInfo,
  rpcPoxInfo,   \* what fetchRpcPoxInfo returned last
  dbPoxInfo,    \* chain_tip.first_burnchain_block_height, reward_cycle_length
  nodePoxInfo,  \* what the node would report now
  aborted,      \* close() was called
  changes, failures

environment == <<nodePoxInfo, changes>>
vars == <<at, isDbMissingPoxInfo, rpcPoxInfo, dbPoxInfo, environment, aborted, failures>>

\* "interval" and "retry" are the waits of 30 and of 3 seconds in the catch block.
Awaits == {"getPoxInfo", "fetch", "update", "sleep", "interval", "retry"}

Init ==
  /\ at = "getPoxInfo"
  /\ isDbMissingPoxInfo = Unknown
  /\ rpcPoxInfo = NoRow
  /\ dbPoxInfo \in PoxInfos \cup {NoRow}
  /\ nodePoxInfo \in PoxInfos
  /\ aborted = FALSE
  /\ changes = 0
  /\ failures = 0
------------------------------------------------------------------------------
\* Mutant: the database is only read when the job starts.
LoopToFetch == "fetch"

\* The loop's body up to its first await.
Loop == IF isDbMissingPoxInfo = Unknown THEN "getPoxInfo" ELSE "fetch"

GetPoxInfo ==
  /\ at = "getPoxInfo"
  /\ isDbMissingPoxInfo' = (dbPoxInfo = NoRow)
  /\ at' = "fetch"
  /\ UNCHANGED <<rpcPoxInfo, dbPoxInfo, environment, aborted, failures>>

\* An aborted fetch is rejected, see Throws.
FetchRpcPoxInfo ==
  /\ at = "fetch" /\ ~aborted
  /\ rpcPoxInfo' = nodePoxInfo
  /\ at' = "update"
  /\ UNCHANGED <<isDbMissingPoxInfo, dbPoxInfo, environment, aborted, failures>>

\* Mutant: a row is written only where there is none.
UpdatePoxInfoOnce ==
  /\ at = "update"
  /\ dbPoxInfo' = IF dbPoxInfo = NoRow THEN rpcPoxInfo ELSE dbPoxInfo
  /\ isDbMissingPoxInfo' = FALSE
  /\ at' = IF aborted THEN "returned" ELSE "sleep"
  /\ UNCHANGED <<rpcPoxInfo, environment, aborted, failures>>

\* db.updatePoxInfo writes what differs. A sleep() that is already aborted rejects,
\* and the catch block returns.
UpdatePoxInfo ==
  /\ at = "update"
  /\ dbPoxInfo' = rpcPoxInfo
  /\ isDbMissingPoxInfo' = FALSE
  /\ at' = IF aborted THEN "returned" ELSE "sleep"
  /\ UNCHANGED <<rpcPoxInfo, environment, aborted, failures>>

\* An update may fail before or after the statement took effect.
Throws ==
  \/ at = "fetch" /\ aborted /\ UNCHANGED <<dbPoxInfo, failures>>
  \/ /\ failures < MaxFailures
     /\ failures' = failures + 1
     /\ \/ at = "getPoxInfo" /\ UNCHANGED dbPoxInfo
        \/ at = "fetch" /\ ~aborted /\ UNCHANGED dbPoxInfo
        \/ at = "update" /\ dbPoxInfo' \in {dbPoxInfo, rpcPoxInfo}

\* Mutants: the loop goes on at once, aborted or not; an error is taken as a sign
\* that there is nothing to update.
CatchAtOnce ==
  /\ Throws
  /\ at' = Loop
  /\ UNCHANGED <<isDbMissingPoxInfo, rpcPoxInfo, environment, aborted>>

CatchAsPresent ==
  /\ Throws
  /\ at' = IF aborted THEN "returned" ELSE "interval"
  /\ isDbMissingPoxInfo' = FALSE
  /\ UNCHANGED <<rpcPoxInfo, environment, aborted>>

\* Not yet knowing whether the database has PoX info counts as having it.
Catch ==
  /\ Throws
  /\ at' = CASE aborted -> "returned"
             [] ~aborted /\ isDbMissingPoxInfo = TRUE -> "retry"
             [] ~aborted /\ isDbMissingPoxInfo # TRUE -> "interval"
  /\ UNCHANGED <<isDbMissingPoxInfo, rpcPoxInfo, environment, aborted>>

\* A wait ends, or is aborted: in the try block the catch block returns for it; in
\* the catch block nothing does, and the job's promise is rejected.
Wake ==
  /\ at \in {"sleep", "interval", "retry"}
  /\ at' = CASE ~aborted -> Loop
             [] aborted /\ at = "sleep" -> "returned"
             [] aborted /\ at # "sleep" -> "rejected"
  /\ UNCHANGED <<isDbMissingPoxInfo, rpcPoxInfo, dbPoxInfo, environment, aborted, failures>>

\* The handle's close().
Close ==
  /\ ~aborted
  /\ aborted' = TRUE
  /\ UNCHANGED <<at, isDbMissingPoxInfo, rpcPoxInfo, dbPoxInfo, environment, failures>>

\* The node is replaced by one of another network or configuration.
NodeChanges ==
  /\ changes < MaxChanges
  /\ changes' = changes + 1
  /\ nodePoxInfo' \in PoxInfos
  /\ UNCHANGED <<at, isDbMissingPoxInfo, rpcPoxInfo, dbPoxInfo, aborted, failures>>

JobStep == GetPoxInfo \/ FetchRpcPoxInfo \/ UpdatePoxInfo \/ Catch \/ Wake

Next == JobStep \/ Close \/ NodeChanges

Spec == Init /\ [][Next]_vars

\* Queries and fetches end, and due timers run.
FairSpec == Spec /\ WF_vars(JobStep)
------------------------------------------------------------------------------
\* Every variable has its type, the loop is past the database's answer before it
\* fetches, and has an answer of the RPC before it updates.
TypeOK ==
  /\ at \in Awaits \cup {"returned", "rejected"}
  /\ isDbMissingPoxInfo \in BOOLEAN \cup {Unknown}
  /\ rpcPoxInfo \in PoxInfos \cup {NoRow} /\ dbPoxInfo \in PoxInfos \cup {NoRow}
  /\ nodePoxInfo \in PoxInfos
  /\ aborted \in BOOLEAN /\ changes \in Nat /\ failures \in Nat
  /\ at \in {"fetch", "update", "sleep", "retry"} => isDbMissingPoxInfo # Unknown
  /\ at = "update" => rpcPoxInfo # NoRow

\* With an empty table the job takes one of its long waits only while it could never
\* read the table. Once it has, it comes back after 3 seconds until the parameters
\* are stored, whatever fails and whatever an update that failed has done: blocks of
\* the meantime count no missed proposals (pg-write-store.ts:385).
SlowOnlyUnread ==
  at \in {"sleep", "interval"} /\ dbPoxInfo = NoRow => isDbMissingPoxInfo = Unknown

\* As long as the job runs, the database comes to hold what the node reports,
\* whatever failed before and however often the node changed.
PoxInfoConverges == <>[](dbPoxInfo = nodePoxInfo) \/ <>aborted

\* close() ends the job.
CloseEndsJob == aborted ~> at \in {"returned", "rejected"}
==============================================================================
