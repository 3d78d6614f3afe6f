-------------------------- MODULE StackerSetUpdator --------------------------
(***************************************************************************)
(* StackerSetUpdator (stacker-set-updater.ts): for each cycle whose signer *)
(* set insertBlock misses, a job on a PQueue fetches the set from the      *)
(* stacks-core RPC and writes it. A job that fails sleeps, still holding   *)
(* its slot, and then sets a timer that queues the cycle again. An action  *)
(* is what runs between two awaits.                                        *)
(***************************************************************************)
EXTENDS Naturals, Sequences

CONSTANTS
  Cycles,       \* reward cycle numbers
  Concurrency,  \* FETCH_STACKER_SET_CONCURRENCY_LIMIT
  PrePox4,      \* cycles the node answers "Pre-PoX-4" for
  Unavailable,  \* cycles the node has no answer for, ever
  NoJob,        \* a free slot
  MaxRequests,  \* bound: 'missingStackerSet' events
  MaxFailures   \* bound: failures of fetches and writes that could succeed

At == {"fetch", "write", "acknowledge", "sleep"}

Job == [cycle : Cycles, at : At]

ASSUME UpdatorAssumption ==
  /\ Concurrency \in Nat \ {0}
  /\ PrePox4 \subseteq Cycles /\ Unavailable \subseteq Cycles
  /\ NoJob \notin Job
  /\ MaxRequests \in Nat /\ MaxFailures \in Nat

Slots == 1..Concurrency

VARIABLES
  queued,    \* queuedCycleNumbers
  queue,     \* cycles whose jobs wait in the PQueue
  slots,     \* the running jobs
  timers,    \* cycles waiting in the setTimeout that adds them again
  phase,     \* "running"; "stopping": aborted, stop() awaits onIdle; "stopped"
  stored,    \* commits of each cycle's set (history)
  requests, failures

pqueue == <<queue, slots>>
vars   == <<queued, pqueue, timers, phase, stored, requests, failures>>

IsAborted == phase # "running"

Init ==
  /\ queued = {}
  /\ queue = <<>>
  /\ slots = [i \in Slots |-> NoJob]
  /\ timers = <<>>
  /\ phase = "running"
  /\ stored = [c \in Cycles |-> 0]
  /\ requests = 0
  /\ failures = 0
------------------------------------------------------------------------------
(* The PQueue: first come first served, at most Concurrency jobs at a time *)

NewJob(c) == [cycle |-> c, at |-> "fetch"]

IsFree(i) == slots[i] = NoJob

Enqueue(c) ==
  \/ \E i \in Slots : IsFree(i) /\ slots' = [slots EXCEPT ![i] = NewJob(c)] /\ UNCHANGED queue
  \/ (\A i \in Slots : ~IsFree(i)) /\ queue' = Append(queue, c) /\ UNCHANGED slots

\* Mutant: the end of a job starts no other.
EndJobOnly(i) == slots' = [slots EXCEPT ![i] = NoJob] /\ UNCHANGED queue

\* The job in slot i ends: the first waiting one takes its place.
EndJob(i) ==
  IF queue = <<>>
  THEN slots' = [slots EXCEPT ![i] = NoJob] /\ UNCHANGED queue
  ELSE slots' = [slots EXCEPT ![i] = NewJob(Head(queue))] /\ queue' = Tail(queue)

GoTo(i, at) == slots' = [slots EXCEPT ![i].at = at] /\ UNCHANGED queue

Runs(i, at) == ~IsFree(i) /\ slots[i].at = at

CycleIn(i) == slots[i].cycle
------------------------------------------------------------------------------
\* Mutant: a cycle already queued is no reason not to add it.
AddAgain(known, c) ==
  IF IsAborted THEN queued' = known /\ UNCHANGED pqueue
  ELSE queued' = known \cup {c} /\ Enqueue(c)

\* add(), when `known` is queuedCycleNumbers.
Add(known, c) ==
  IF c \in known \/ IsAborted THEN queued' = known /\ UNCHANGED pqueue
  ELSE queued' = known \cup {c} /\ Enqueue(c)

\* The listener of 'missingStackerSet'.
MissingStackerSet(c) ==
  /\ requests < MaxRequests
  /\ requests' = requests + 1
  /\ Add(queued, c)
  /\ UNCHANGED <<timers, phase, stored, failures>>

FetchSucceeds(i) ==
  /\ Runs(i, "fetch") /\ ~IsAborted
  /\ CycleIn(i) \notin PrePox4 \cup Unavailable
  /\ GoTo(i, "write")
  /\ UNCHANGED <<queued, timers, phase, stored, requests, failures>>

FetchPrePox4(i) ==
  /\ Runs(i, "fetch") /\ ~IsAborted
  /\ CycleIn(i) \in PrePox4 \ Unavailable
  /\ queued' = queued \ {CycleIn(i)}
  /\ EndJob(i)
  /\ UNCHANGED <<timers, phase, stored, requests, failures>>

\* insertRewardSetSigners and the COMMIT; the job hears of it a step later.
WriteCommits(i) ==
  /\ Runs(i, "write")
  /\ stored' = [stored EXCEPT ![CycleIn(i)] = @ + 1]
  /\ GoTo(i, "acknowledge")
  /\ UNCHANGED <<queued, timers, phase, requests, failures>>

\* Mutant: the cycle is not deleted from queuedCycleNumbers.
WriteAcknowledgedOnly(i) ==
  /\ Runs(i, "acknowledge")
  /\ EndJob(i)
  /\ UNCHANGED <<queued, timers, phase, stored, requests, failures>>

WriteAcknowledged(i) ==
  /\ Runs(i, "acknowledge")
  /\ queued' = queued \ {CycleIn(i)}
  /\ EndJob(i)
  /\ UNCHANGED <<timers, phase, stored, requests, failures>>

\* What can be thrown to the catch block: the fetch fails or is aborted, the
\* transaction fails, or its COMMIT is never acknowledged.
Throws(i) ==
  \/ /\ Runs(i, "fetch") /\ (IsAborted \/ CycleIn(i) \in Unavailable)
     /\ UNCHANGED failures
  \/ /\ \/ Runs(i, "fetch") /\ ~IsAborted
        \/ Runs(i, "write") \/ Runs(i, "acknowledge")
     /\ failures < MaxFailures
     /\ failures' = failures + 1

\* Mutants: the fetch is repeated until it succeeds, aborted or not; the error is
\* swallowed and the cycle forgotten.
CatchAndRepeat(i) ==
  /\ Throws(i)
  /\ GoTo(i, "fetch")
  /\ UNCHANGED <<queued, timers, phase, stored, requests>>

CatchAndForget(i) ==
  /\ Throws(i)
  /\ queued' = queued \ {CycleIn(i)}
  /\ EndJob(i)
  /\ UNCHANGED <<timers, phase, stored, requests>>

Catch(i) ==
  /\ Throws(i)
  /\ IF IsAborted THEN EndJob(i) ELSE GoTo(i, "sleep")
  /\ UNCHANGED <<queued, timers, phase, stored, requests>>

\* Mutant: the job starts over in its slot.
WakeInPlace(i) ==
  /\ Runs(i, "sleep")
  /\ IF IsAborted THEN EndJob(i) ELSE GoTo(i, "fetch")
  /\ UNCHANGED <<queued, timers, phase, stored, requests, failures>>

\* The sleep is over, or aborted: its rejection ends the job without a timer.
Wake(i) ==
  /\ Runs(i, "sleep")
  /\ timers' = IF IsAborted THEN timers ELSE Append(timers, CycleIn(i))
  /\ EndJob(i)
  /\ UNCHANGED <<queued, phase, stored, requests, failures>>

RetryTimer ==
  /\ timers # <<>>
  /\ timers' = Tail(timers)
  /\ Add(queued \ {Head(timers)}, Head(timers))
  /\ UNCHANGED <<phase, stored, requests, failures>>

\* stop(): aborts and awaits onIdle ...
Stop ==
  /\ phase = "running"
  /\ phase' = "stopping"
  /\ UNCHANGED <<queued, pqueue, timers, stored, requests, failures>>

\* Mutant: stop() does not wait for the jobs.
StoppedAtOnce ==
  /\ phase = "stopping"
  /\ phase' = "stopped"
  /\ UNCHANGED <<queued, pqueue, timers, stored, requests, failures>>

\* ... which resolves when no job runs or waits, and then pauses the queue.
Stopped ==
  /\ phase = "stopping"
  /\ queue = <<>> /\ \A i \in Slots : IsFree(i)
  /\ phase' = "stopped"
  /\ UNCHANGED <<queued, pqueue, timers, stored, requests, failures>>
------------------------------------------------------------------------------
JobStep(i) ==
  \/ FetchSucceeds(i) \/ FetchPrePox4(i)
  \/ WriteCommits(i) \/ WriteAcknowledged(i)
  \/ Catch(i) \/ Wake(i)

Next ==
  \/ \E c \in Cycles : MissingStackerSet(c)
  \/ \E i \in Slots : JobStep(i)
  \/ RetryTimer
  \/ Stop
  \/ Stopped

Spec == Init /\ [][Next]_vars

\* Fetches, transactions and sleeps end, due timers run, and so do the
\* continuations of stop().
Fairness ==
  /\ \A i \in Slots : WF_vars(JobStep(i))
  /\ WF_vars(RetryTimer)
  /\ WF_vars(Stopped)

FairSpec == Spec /\ Fairness
------------------------------------------------------------------------------
Elements(seq) == {seq[i] : i \in 1..Len(seq)}

\* Every variable has its type, and no slot idles while jobs wait: only the end of
\* a job starts one, so that a waiting job might else never start.
TypeOK ==
  /\ queued \subseteq Cycles
  /\ queue \in Seq(Cycles)
  /\ slots \in [Slots -> Job \cup {NoJob}]
  /\ timers \in Seq(Cycles)
  /\ phase \in {"running", "stopping", "stopped"}
  /\ stored \in [Cycles -> Nat]
  /\ requests \in Nat /\ failures \in Nat
  /\ queue # <<>> => \A i \in Slots : ~IsFree(i)

IsDistinct(seq) == \A i, j \in 1..Len(seq) : i # j => seq[i] # seq[j]

Running == {slots[i].cycle : i \in {j \in Slots : ~IsFree(j)}}

\* A cycle is fetched by one job at a time: it never runs, waits and is due for a
\* retry at once, nor any of it twice, so that no two of the updater's own
\* transactions replace the same set concurrently.
OneJobPerCycle ==
  /\ \A i, j \in Slots : i # j /\ ~IsFree(i) /\ ~IsFree(j) => CycleIn(i) # CycleIn(j)
  /\ IsDistinct(queue) /\ IsDistinct(timers)
  /\ Running \cap Elements(queue) = {}
  /\ Running \cap Elements(timers) = {}
  /\ Elements(queue) \cap Elements(timers) = {}

\* queuedCycleNumbers never blocks a cycle for good: as long as the updater runs,
\* a cycle in it has a job or a timer that will take it out again.
QueuedIsPending ==
  ~IsAborted => queued = Running \cup Elements(queue) \cup Elements(timers)

\* Once stop() has returned no job is left that could still use the database,
\* which is closed after it (index.ts:100), and the retry timers start none.
QuietAfterStop ==
  phase = "stopped" => queue = <<>> /\ \A i \in Slots : IsFree(i)

\* Every request is settled, or the updater stopped: two cycles that fail for
\* ever do not keep the others out, because a retry goes to the end of the queue.
RequestsSettle ==
  \A c \in Cycles \ Unavailable : c \in queued ~> c \notin queued \/ IsAborted

\* stop() returns.
StopReturns == phase = "stopping" ~> phase = "stopped"

\* The queue implements the requests the ingestion relies on.
Requests == INSTANCE StackerSetRequests WITH wanted <- queued

ImplementsRequests == Requests!Spec
==============================================================================
