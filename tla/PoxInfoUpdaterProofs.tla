------------------------ MODULE PoxInfoUpdaterProofs ------------------------
(***************************************************************************)
(* Proofs about PoxInfoUpdater, for every set of PoX parameters a node may *)
(* report, however often it changes them and whatever fails.               *)
(***************************************************************************)
EXTENDS PoxInfoUpdater, TLAPS

\* The job believes the database has PoX info only when it has, and takes a long wait
\* only when it believes so or knows nothing.
BeliefsAreTrue ==
  /\ isDbMissingPoxInfo = FALSE => dbPoxInfo # NoRow
  /\ at \in {"sleep", "interval"} => isDbMissingPoxInfo # TRUE

Inv == TypeOK /\ BeliefsAreTrue

\* The invariant holds at first.
LEMMA InitInv == Init => Inv
<1> SUFFICES ASSUME Init PROVE Inv
  OBVIOUS
<1>1. TypeOK
  BY DEF Init, TypeOK, Awaits
<1>2. Unknown # FALSE
  BY UpdaterAssumption, Zenon
<1>3. isDbMissingPoxInfo # FALSE
  BY <1>2, Zenon DEF Init
<1>4. QED
  BY <1>1, <1>3, Zenon DEF Inv, BeliefsAreTrue, Init

\* A failed round keeps the invariant.
LEMMA CatchInv ==
  ASSUME Inv, Catch
  PROVE  Inv'
<1> USE UpdaterAssumption DEF Inv, TypeOK, BeliefsAreTrue, Awaits
<1>1. /\ UNCHANGED <<isDbMissingPoxInfo, rpcPoxInfo, nodePoxInfo, changes, aborted>>
      /\ at' \in {"returned", "retry", "interval"}
      /\ at' = "retry" => isDbMissingPoxInfo = TRUE
      /\ at' = "interval" => isDbMissingPoxInfo # TRUE
  BY DEF Catch, environment
<1>2. /\ dbPoxInfo' = dbPoxInfo \/ (at = "update" /\ dbPoxInfo' = rpcPoxInfo)
      /\ failures' \in Nat
  BY DEF Catch, Throws
<1>3. QED
  BY <1>1, <1>2

\* Every step keeps the invariant.
LEMMA NextInv == Inv /\ [Next]_vars => Inv'
<1> SUFFICES ASSUME Inv, [Next]_vars PROVE Inv'
  OBVIOUS
<1> USE UpdaterAssumption DEF Inv, TypeOK, BeliefsAreTrue, Awaits, environment
<1>1. CASE GetPoxInfo
  BY <1>1 DEF GetPoxInfo
<1>2. CASE FetchRpcPoxInfo
  BY <1>2 DEF FetchRpcPoxInfo
<1>3. CASE UpdatePoxInfo
  BY <1>3 DEF UpdatePoxInfo
<1>4. CASE Catch
  BY <1>4, CatchInv
<1>5. CASE Wake
  <2>1. at' \in {Loop, "returned", "rejected"}
    BY <1>5 DEF Wake
  <2>2. /\ Loop \in {"getPoxInfo", "fetch"}
        /\ Loop = "fetch" => isDbMissingPoxInfo # Unknown
    BY DEF Loop
  <2>3. UNCHANGED <<isDbMissingPoxInfo, rpcPoxInfo, dbPoxInfo, environment, aborted, failures>>
    BY <1>5 DEF Wake
  <2>4. /\ at' \notin {"update", "sleep", "interval", "retry"}
        /\ at' = "fetch" => isDbMissingPoxInfo # Unknown
        /\ at' \in {"getPoxInfo", "fetch", "returned", "rejected"}
    BY <2>1, <2>2
  <2> HIDE DEF Loop
  <2> QED
    BY <2>3, <2>4
<1>6. CASE Close
  BY <1>6 DEF Close
<1>7. CASE NodeChanges
  <2>1. changes' \in Nat /\ nodePoxInfo' \in PoxInfos
    BY <1>7 DEF NodeChanges
  <2>2. UNCHANGED <<at, isDbMissingPoxInfo, rpcPoxInfo, dbPoxInfo, aborted, failures>>
    BY <1>7 DEF NodeChanges
  <2> QED
    BY <2>1, <2>2
<1>8. CASE UNCHANGED vars
  BY <1>8 DEF vars
<1>9. QED
  BY <1>1, <1>2, <1>3, <1>4, <1>5, <1>6, <1>7, <1>8 DEF Next, JobStep

\* Every reachable state satisfies the invariant.
LEMMA Invariance == Spec => []Inv
<1>1. QED
  BY InitInv, NextInv, PTL DEF Spec

\* Every variable keeps its type, the job fetches only when it has read the
\* database, and updates only with an answer of the RPC.
THEOREM TypeCorrect == Spec => []TypeOK
<1>1. Inv => TypeOK
  BY DEF Inv
<1>2. QED
  BY <1>1, Invariance, PTL

\* With an empty table the job waits long only while it could never read the table,
\* so that otherwise blocks wait no longer than need be for the parameters.
THEOREM AlwaysSlowOnlyUnread == Spec => []SlowOnlyUnread
<1>1. Inv => SlowOnlyUnread
  BY DEF Inv, TypeOK, BeliefsAreTrue, SlowOnlyUnread
<1>2. QED
  BY <1>1, Invariance, PTL
==============================================================================
