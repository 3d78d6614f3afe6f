----------------------- MODULE StackerSetUpdatorProofs -----------------------
(***************************************************************************)
(* Proofs about StackerSetUpdator, for every number of slots, every set of *)
(* cycles, whichever of them the node never answers for, and any number of *)
(* requests and failures.                                                  *)
(***************************************************************************)
EXTENDS StackerSetUpdator, SequenceTheorems, TLAPS

\* The jobs the PQueue holds, running or waiting.
Jobs == Running \cup Elements(queue)

\* The part of the invariant that only the PQueue's own operations touch.
PQueueOK ==
  /\ queue \in Seq(Cycles)
  /\ slots \in [Slots -> Job \cup {NoJob}]
  /\ queue # <<>> => \A i \in Slots : ~IsFree(i)
  /\ \A i, j \in Slots : i # j /\ ~IsFree(i) /\ ~IsFree(j) => CycleIn(i) # CycleIn(j)
  /\ IsDistinct(queue)
  /\ Running \cap Elements(queue) = {}

TimersOK ==
  /\ timers \in Seq(Cycles)
  /\ IsDistinct(timers)
  /\ Jobs \cap Elements(timers) = {}

\* What has a job or a timer is in queuedCycleNumbers, aborted or not.
HeldIsQueued == Jobs \cup Elements(timers) \subseteq queued

\* A job that awaits the COMMIT's answer has written its cycle.
AcknowledgedIsStored ==
  \A i \in Slots : Runs(i, "acknowledge") => stored[CycleIn(i)] > 0

Inv == TypeOK /\ OneJobPerCycle /\ HeldIsQueued /\ QueuedIsPending /\ QuietAfterStop
       /\ AcknowledgedIsStored

\* The invariant, part by part.
LEMMA InvParts ==
  Inv <=> /\ PQueueOK /\ TimersOK /\ HeldIsQueued /\ QueuedIsPending
          /\ QuietAfterStop /\ AcknowledgedIsStored
          /\ queued \subseteq Cycles
          /\ phase \in {"running", "stopping", "stopped"}
          /\ stored \in [Cycles -> Nat]
          /\ requests \in Nat /\ failures \in Nat
<1>1. Jobs \cap Elements(timers) = {} <=> Running \cap Elements(timers) = {}
                                          /\ Elements(queue) \cap Elements(timers) = {}
  BY DEF Jobs
<1>2. QED
  BY <1>1 DEF Inv, TypeOK, OneJobPerCycle, PQueueOK, TimersOK
------------------------------------------------------------------------------
(* Sequences without duplicates                                            *)

\* A new element is appended to distinct ones.
LEMMA AppendDistinct ==
  ASSUME NEW S, NEW seq \in Seq(S), NEW x \in S, IsDistinct(seq), x \notin Elements(seq)
  PROVE  /\ Append(seq, x) \in Seq(S)
         /\ IsDistinct(Append(seq, x))
         /\ Elements(Append(seq, x)) = Elements(seq) \cup {x}
<1> DEFINE longer == Append(seq, x)
<1>1. longer \in Seq(S) /\ Len(longer) = Len(seq) + 1 /\ Len(seq) \in Nat
  BY AppendProperties
<1>2. \A i \in 1..Len(seq) : longer[i] = seq[i]
  BY AppendProperties
<1>3. longer[Len(seq) + 1] = x
  BY AppendProperties
<1> HIDE DEF longer
<1>4. 1..Len(longer) = 1..Len(seq) \cup {Len(seq) + 1}
  BY <1>1
<1>5. Elements(longer) = Elements(seq) \cup {x}
  BY <1>2, <1>3, <1>4 DEF Elements
<1>6. IsDistinct(longer)
  <2> SUFFICES ASSUME NEW i \in 1..Len(longer), NEW j \in 1..Len(longer), i # j
               PROVE  longer[i] # longer[j]
    BY DEF IsDistinct
  <2>1. CASE i \in 1..Len(seq) /\ j \in 1..Len(seq)
    BY <2>1, <1>2 DEF IsDistinct
  <2>2. CASE i \in 1..Len(seq) /\ j = Len(seq) + 1
    BY <2>2, <1>2, <1>3 DEF Elements
  <2>3. CASE i = Len(seq) + 1 /\ j \in 1..Len(seq)
    BY <2>3, <1>2, <1>3 DEF Elements
  <2>4. QED
    BY <2>1, <2>2, <2>3, <1>4
<1>7. QED
  BY <1>1, <1>5, <1>6 DEF longer

\* Distinct elements without the first are the others.
LEMMA TailDistinct ==
  ASSUME NEW S, NEW seq \in Seq(S), seq # <<>>, IsDistinct(seq)
  PROVE  /\ Head(seq) \in S /\ Head(seq) \in Elements(seq)
         /\ Tail(seq) \in Seq(S)
         /\ IsDistinct(Tail(seq))
         /\ Elements(Tail(seq)) = Elements(seq) \ {Head(seq)}
<1> DEFINE rest == Tail(seq)
<1>1. /\ Head(seq) = seq[1] /\ Head(seq) \in S /\ Len(seq) \in Nat /\ Len(seq) > 0
      /\ rest \in Seq(S) /\ Len(rest) = Len(seq) - 1
  BY HeadTailProperties, EmptySeq
<1>2. \A i \in 1..Len(rest) : rest[i] = seq[i + 1]
  BY HeadTailProperties
<1> HIDE DEF rest
<1>3. IsDistinct(rest)
  BY <1>1, <1>2 DEF IsDistinct
<1>4. Elements(rest) = Elements(seq) \ {Head(seq)}
  <2>1. ASSUME NEW x \in Elements(rest) PROVE x \in Elements(seq) /\ x # Head(seq)
    <3>1. PICK i \in 1..Len(rest) : x = rest[i]
      BY DEF Elements
    <3>2. i + 1 \in 1..Len(seq) /\ i + 1 # 1 /\ x = seq[i + 1]
      BY <3>1, <1>1, <1>2
    <3>3. 1 \in 1..Len(seq)
      BY <1>1
    <3>4. QED
      BY <3>2, <3>3, <1>1 DEF Elements, IsDistinct
  <2>2. ASSUME NEW x \in Elements(seq), x # Head(seq) PROVE x \in Elements(rest)
    <3>1. PICK i \in 1..Len(seq) : x = seq[i]
      BY DEF Elements
    <3>2. i - 1 \in 1..Len(rest) /\ (i - 1) + 1 = i
      BY <3>1, <2>2, <1>1
    <3>3. rest[i - 1] = x
      BY <3>1, <3>2, <1>2
    <3>4. QED
      BY <3>2, <3>3 DEF Elements
  <2>3. QED
    BY <2>1, <2>2
<1>5. Head(seq) \in Elements(seq)
  BY <1>1 DEF Elements
<1>6. QED
  BY <1>1, <1>3, <1>4, <1>5 DEF rest
------------------------------------------------------------------------------
(* The PQueue's operations                                                 *)

\* The cycle of a job in a slot is running.
LEMMA RunningMember ==
  ASSUME NEW i \in Slots, ~IsFree(i)
  PROVE  CycleIn(i) \in Running
  BY DEF Running, CycleIn

\* A new job is one, at its fetch.
LEMMA NewJobType ==
  ASSUME NEW c \in Cycles
  PROVE  /\ NewJob(c) \in Job /\ NewJob(c) # NoJob
         /\ NewJob(c).cycle = c /\ NewJob(c).at = "fetch"
  BY UpdatorAssumption DEF NewJob, Job, At

\* A slot that is not free has the job of a cycle.
LEMMA SlotType ==
  ASSUME PQueueOK, NEW i \in Slots, ~IsFree(i)
  PROVE  slots[i] \in Job /\ CycleIn(i) \in Cycles
  BY DEF PQueueOK, IsFree, CycleIn, Job

\* A step that puts a job of another cycle, or none, into slot i.
LEMMA FillSlot ==
  ASSUME PQueueOK, NEW i \in Slots, NEW c \in Cycles,
         slots' = [slots EXCEPT ![i] = NewJob(c)],
         \A j \in Slots : j # i /\ ~IsFree(j) => CycleIn(j) # c
  PROVE  /\ slots' \in [Slots -> Job \cup {NoJob}]
         /\ ~IsFree(i)'
         /\ \A j \in Slots : j # i => (IsFree(j)' <=> IsFree(j)) /\ slots'[j] = slots[j]
         /\ \A j, k \in Slots : j # k /\ ~IsFree(j)' /\ ~IsFree(k)' => CycleIn(j)' # CycleIn(k)'
         /\ Running' = {CycleIn(j) : j \in {k \in Slots : k # i /\ ~IsFree(k)}} \cup {c}
         /\ \A j \in Slots : Runs(j, "acknowledge")' =>
              Runs(j, "acknowledge") /\ CycleIn(j)' = CycleIn(j)
<1>1. /\ slots' \in [Slots -> Job \cup {NoJob}]
      /\ slots'[i] = NewJob(c)
      /\ \A j \in Slots : j # i => slots'[j] = slots[j]
  BY NewJobType DEF PQueueOK
<1>2. ~IsFree(i)' /\ \A j \in Slots : j # i => (IsFree(j)' <=> IsFree(j))
  BY <1>1, NewJobType DEF IsFree
<1>3. CycleIn(i)' = c /\ \A j \in Slots : j # i => CycleIn(j)' = CycleIn(j)
  BY <1>1, NewJobType DEF CycleIn
<1>4. \A j, k \in Slots : j # k /\ ~IsFree(j)' /\ ~IsFree(k)' => CycleIn(j)' # CycleIn(k)'
  BY <1>2, <1>3 DEF PQueueOK
<1>5. Running' = {CycleIn(j)' : j \in {k \in Slots : ~IsFree(k)'}}
  BY DEF Running, CycleIn, IsFree
<1>6. Running' = {CycleIn(j) : j \in {k \in Slots : k # i /\ ~IsFree(k)}} \cup {c}
  BY <1>2, <1>3, <1>5
<1>7. ASSUME NEW j \in Slots, Runs(j, "acknowledge")'
      PROVE  Runs(j, "acknowledge") /\ CycleIn(j)' = CycleIn(j)
  <2>1. j # i
    BY <1>1, <1>7, NewJobType DEF Runs
  <2>2. QED
    BY <1>1, <1>2, <1>3, <1>7, <2>1 DEF Runs
<1>8. QED
  BY <1>1, <1>2, <1>4, <1>6, <1>7

\* A job that ends leaves its slot free and the others as they are.
LEMMA EmptySlot ==
  ASSUME PQueueOK, NEW i \in Slots, slots' = [slots EXCEPT ![i] = NoJob]
  PROVE  /\ slots' \in [Slots -> Job \cup {NoJob}]
         /\ \A j, k \in Slots : j # k /\ ~IsFree(j)' /\ ~IsFree(k)' => CycleIn(j)' # CycleIn(k)'
         /\ Running' = {CycleIn(j) : j \in {k \in Slots : k # i /\ ~IsFree(k)}}
         /\ \A j \in Slots : Runs(j, "acknowledge")' =>
              Runs(j, "acknowledge") /\ CycleIn(j)' = CycleIn(j)
<1>1. /\ slots' \in [Slots -> Job \cup {NoJob}]
      /\ slots'[i] = NoJob
      /\ \A j \in Slots : j # i => slots'[j] = slots[j]
  BY DEF PQueueOK
<1>2. IsFree(i)' /\ \A j \in Slots : j # i => (IsFree(j)' <=> IsFree(j))
  BY <1>1 DEF IsFree
<1>3. \A j \in Slots : j # i => CycleIn(j)' = CycleIn(j)
  BY <1>1 DEF CycleIn
<1>4. \A j, k \in Slots : j # k /\ ~IsFree(j)' /\ ~IsFree(k)' => CycleIn(j)' # CycleIn(k)'
  BY <1>2, <1>3 DEF PQueueOK
<1>5. Running' = {CycleIn(j)' : j \in {k \in Slots : ~IsFree(k)'}}
  BY DEF Running, CycleIn, IsFree
<1>6. Running' = {CycleIn(j) : j \in {k \in Slots : k # i /\ ~IsFree(k)}}
  BY <1>2, <1>3, <1>5
<1>7. \A j \in Slots : Runs(j, "acknowledge")' =>
        Runs(j, "acknowledge") /\ CycleIn(j)' = CycleIn(j)
  BY <1>1, <1>2, <1>3 DEF Runs
<1>8. QED
  BY <1>1, <1>4, <1>6, <1>7

\* The cycles that run beside the job in slot i.
LEMMA Others ==
  ASSUME PQueueOK, NEW i \in Slots
  PROVE  /\ ~IsFree(i) => {CycleIn(j) : j \in {k \in Slots : k # i /\ ~IsFree(k)}}
                            = Running \ {CycleIn(i)}
         /\ IsFree(i) => {CycleIn(j) : j \in {k \in Slots : k # i /\ ~IsFree(k)}} = Running
<1>1. Running = {CycleIn(j) : j \in {k \in Slots : ~IsFree(k)}}
  BY DEF Running, CycleIn
<1>2. ASSUME ~IsFree(i)
      PROVE  {CycleIn(j) : j \in {k \in Slots : k # i /\ ~IsFree(k)}} = Running \ {CycleIn(i)}
  BY <1>1, <1>2 DEF PQueueOK
<1>3. QED
  BY <1>1, <1>2

\* What every operation of the queue keeps, and how it changes the jobs.
KeepsAcknowledged ==
  \A j \in Slots : Runs(j, "acknowledge")' =>
    Runs(j, "acknowledge") /\ CycleIn(j)' = CycleIn(j)

\* Adding a job of a cycle that has none.
LEMMA EnqueueEffect ==
  ASSUME PQueueOK, NEW c \in Cycles, c \notin Jobs, Enqueue(c)
  PROVE  PQueueOK' /\ Jobs' = Jobs \cup {c} /\ KeepsAcknowledged
<1>1. ASSUME NEW i \in Slots, IsFree(i), slots' = [slots EXCEPT ![i] = NewJob(c)],
             UNCHANGED queue
      PROVE  PQueueOK' /\ Jobs' = Jobs \cup {c} /\ KeepsAcknowledged
  <2>1. \A j \in Slots : j # i /\ ~IsFree(j) => CycleIn(j) # c
    BY RunningMember DEF Jobs
  <2>2. Running' = Running \cup {c}
    BY <1>1, <2>1, FillSlot, Others
  <2>3. queue = <<>> /\ Elements(queue)' = Elements(queue) /\ IsDistinct(queue)'
    BY <1>1 DEF PQueueOK, Elements, IsDistinct
  <2>4. Running' \cap Elements(queue)' = {}
    BY <2>2, <2>3 DEF PQueueOK, Jobs
  <2>5. PQueueOK'
    BY <1>1, <2>1, <2>3, <2>4, FillSlot DEF PQueueOK
  <2>6. Jobs' = Jobs \cup {c}
    BY <2>2, <2>3 DEF Jobs
  <2>7. KeepsAcknowledged
    BY <1>1, <2>1, FillSlot DEF KeepsAcknowledged
  <2>8. QED
    BY <2>5, <2>6, <2>7
<1>2. ASSUME \A i \in Slots : ~IsFree(i), queue' = Append(queue, c), UNCHANGED slots
      PROVE  PQueueOK' /\ Jobs' = Jobs \cup {c} /\ KeepsAcknowledged
  <2>1. /\ queue' \in Seq(Cycles) /\ IsDistinct(queue)'
        /\ Elements(queue)' = Elements(queue) \cup {c}
    BY <1>2, AppendDistinct DEF PQueueOK, Jobs, IsDistinct, Elements
  <2>2. Running' = Running /\ \A i \in Slots : (IsFree(i)' <=> IsFree(i)) /\ CycleIn(i)' = CycleIn(i)
    BY <1>2 DEF Running, IsFree, CycleIn
  <2>3. PQueueOK'
    BY <1>2, <2>1, <2>2 DEF PQueueOK, Jobs
  <2>4. Jobs' = Jobs \cup {c}
    BY <2>1, <2>2 DEF Jobs
  <2>5. KeepsAcknowledged
    BY <1>2, <2>2 DEF KeepsAcknowledged, Runs
  <2>6. QED
    BY <2>3, <2>4, <2>5
<1>3. QED
  BY <1>1, <1>2 DEF Enqueue

\* Ending a job takes its cycle, and no other, from the queue.
LEMMA EndJobEffect ==
  ASSUME PQueueOK, NEW i \in Slots, ~IsFree(i), EndJob(i)
  PROVE  PQueueOK' /\ Jobs' = Jobs \ {CycleIn(i)} /\ KeepsAcknowledged
<1>0. CycleIn(i) \in Running /\ CycleIn(i) \notin Elements(queue)
  BY RunningMember DEF PQueueOK
<1>1. CASE queue = <<>>
  <2>1. slots' = [slots EXCEPT ![i] = NoJob] /\ UNCHANGED queue
    BY <1>1 DEF EndJob
  <2>2. Running' = Running \ {CycleIn(i)}
    BY <2>1, EmptySlot, Others
  <2>3. Elements(queue)' = Elements(queue) /\ IsDistinct(queue)'
    BY <2>1 DEF Elements, IsDistinct, PQueueOK
  <2>4. PQueueOK'
    BY <1>1, <2>1, <2>2, <2>3, EmptySlot DEF PQueueOK
  <2>5. Jobs' = Jobs \ {CycleIn(i)}
    BY <1>0, <2>2, <2>3 DEF Jobs
  <2>6. QED
    BY <2>1, <2>4, <2>5, EmptySlot DEF KeepsAcknowledged
<1>2. CASE queue # <<>>
  <2> DEFINE c == Head(queue)
  <2>1. slots' = [slots EXCEPT ![i] = NewJob(c)] /\ queue' = Tail(queue)
    BY <1>2 DEF EndJob
  <2>2. /\ c \in Cycles /\ c \in Elements(queue)
        /\ queue' \in Seq(Cycles) /\ IsDistinct(queue)'
        /\ Elements(queue)' = Elements(queue) \ {c}
    BY <1>2, <2>1, TailDistinct DEF PQueueOK, IsDistinct, Elements
  <2> HIDE DEF c
  <2>3. \A j \in Slots : j # i /\ ~IsFree(j) => CycleIn(j) # c
    BY <2>2, RunningMember DEF PQueueOK
  <2>4. Running' = (Running \ {CycleIn(i)}) \cup {c}
    BY <2>1, <2>2, <2>3, FillSlot, Others
  <2>5. \A j \in Slots : ~IsFree(j)'
    BY <1>2, <2>1, <2>2, <2>3, FillSlot DEF PQueueOK
  <2>6. Running' \cap Elements(queue)' = {}
    BY <2>2, <2>4 DEF PQueueOK
  <2>7. PQueueOK'
    BY <2>1, <2>2, <2>3, <2>5, <2>6, FillSlot DEF PQueueOK
  <2>8. Jobs' = Jobs \ {CycleIn(i)}
    BY <1>0, <2>2, <2>4 DEF Jobs
  <2>9. KeepsAcknowledged
    BY <2>1, <2>2, <2>3, FillSlot DEF KeepsAcknowledged
  <2>10. QED
    BY <2>7, <2>8, <2>9
<1>3. QED
  BY <1>1, <1>2

\* A job that goes on stays in its slot.
LEMMA GoToEffect ==
  ASSUME PQueueOK, NEW i \in Slots, ~IsFree(i), NEW at \in At, GoTo(i, at)
  PROVE  /\ PQueueOK' /\ Jobs' = Jobs
         /\ \A j \in Slots : CycleIn(j)' = CycleIn(j)
         /\ \A j \in Slots : j # i /\ Runs(j, "acknowledge")' => Runs(j, "acknowledge")
         /\ Runs(i, "acknowledge")' => at = "acknowledge"
<1>1. /\ slots[i] \in Job
      /\ slots' = [slots EXCEPT ![i] = [slots[i] EXCEPT !.at = at]] /\ UNCHANGED queue
  BY SlotType DEF GoTo
<1>2. [slots[i] EXCEPT !.at = at] \in Job
  BY <1>1 DEF Job
<1>3. /\ slots' \in [Slots -> Job \cup {NoJob}]
      /\ slots'[i] = [slots[i] EXCEPT !.at = at]
      /\ \A j \in Slots : j # i => slots'[j] = slots[j]
  BY <1>1, <1>2 DEF PQueueOK
<1>4. /\ slots'[i] # NoJob /\ slots'[i].cycle = slots[i].cycle /\ slots'[i].at = at
  BY <1>1, <1>2, <1>3, UpdatorAssumption DEF Job
<1>5. \A j \in Slots : (IsFree(j)' <=> IsFree(j)) /\ CycleIn(j)' = CycleIn(j)
  BY <1>3, <1>4 DEF IsFree, CycleIn
<1>6. Running' = Running
  BY <1>5 DEF Running, CycleIn, IsFree
<1>7. Elements(queue)' = Elements(queue) /\ IsDistinct(queue)'
  BY <1>1 DEF Elements, IsDistinct, PQueueOK
<1>8. PQueueOK'
  BY <1>1, <1>3, <1>5, <1>6, <1>7 DEF PQueueOK
<1>9. Jobs' = Jobs
  BY <1>6, <1>7 DEF Jobs
<1>10. /\ \A j \in Slots : j # i /\ Runs(j, "acknowledge")' => Runs(j, "acknowledge")
       /\ Runs(i, "acknowledge")' => at = "acknowledge"
  BY <1>3, <1>4, <1>5 DEF Runs
<1>11. QED
  BY <1>5, <1>8, <1>9, <1>10
------------------------------------------------------------------------------
(* The invariant                                                           *)

\* What is left to show of a step once its effect on the queue is known.
LEMMA InvFromParts ==
  ASSUME PQueueOK', TimersOK', HeldIsQueued', QueuedIsPending', QuietAfterStop',
         AcknowledgedIsStored', queued' \subseteq Cycles,
         phase' \in {"running", "stopping", "stopped"}, stored' \in [Cycles -> Nat],
         requests' \in Nat, failures' \in Nat
  PROVE  Inv'
<1>1. Jobs' \cap Elements(timers)' = {} <=> Running' \cap Elements(timers)' = {}
                                            /\ Elements(queue)' \cap Elements(timers)' = {}
  BY DEF Jobs
<1>2. QED
  BY <1>1 DEF Inv, TypeOK, OneJobPerCycle, PQueueOK, TimersOK

\* A job is that of a cycle.
LEMMA JobsAreCycles ==
  ASSUME PQueueOK
  PROVE  Jobs \subseteq Cycles
<1>1. Running \subseteq Cycles
  BY SlotType DEF Running, CycleIn
<1>2. Elements(queue) \subseteq Cycles
  BY DEF PQueueOK, Elements
<1>3. QED
  BY <1>1, <1>2 DEF Jobs

\* A step beside the queue.
LEMMA QueueUnchanged ==
  ASSUME PQueueOK, UNCHANGED pqueue
  PROVE  PQueueOK' /\ Jobs' = Jobs /\ KeepsAcknowledged
<1>1. UNCHANGED queue /\ UNCHANGED slots
  BY DEF pqueue
<1>2. QED
  BY <1>1 DEF PQueueOK, Jobs, KeepsAcknowledged, Running, Elements, IsDistinct, IsFree,
              CycleIn, Runs

\* Timers that are left alone stay those of cycles without a job.
LEMMA TimersUnchanged ==
  ASSUME TimersOK, UNCHANGED timers, Jobs' \cap Elements(timers) = {}
  PROVE  TimersOK' /\ Elements(timers)' = Elements(timers)
  BY DEF TimersOK, Elements, IsDistinct

\* What is acknowledged stays stored.
LEMMA StoredKept ==
  ASSUME AcknowledgedIsStored, KeepsAcknowledged, UNCHANGED stored
  PROVE  AcknowledgedIsStored'
  BY DEF AcknowledgedIsStored, KeepsAcknowledged

\* add() of a cycle that has no job: `known` is queuedCycleNumbers at the call.
LEMMA AddEffect ==
  ASSUME PQueueOK, NEW c \in Cycles, NEW known \in SUBSET Cycles,
         Jobs \subseteq known, Add(known, c)
  PROVE  /\ PQueueOK' /\ KeepsAcknowledged /\ queued' \subseteq Cycles
         /\ IsAborted => Jobs' = Jobs /\ queued' = known
         /\ ~IsAborted => Jobs' = Jobs \cup ({c} \ known) /\ queued' = known \cup {c}
         /\ c \in known \/ IsAborted => UNCHANGED pqueue
<1>1. CASE c \in known \/ IsAborted
  <2>1. queued' = known /\ UNCHANGED pqueue
    BY <1>1 DEF Add
  <2>2. QED
    BY <1>1, <2>1, QueueUnchanged
<1>2. CASE ~(c \in known \/ IsAborted)
  <2>1. queued' = known \cup {c} /\ Enqueue(c)
    BY <1>2 DEF Add
  <2>2. QED
    BY <1>2, <2>1, EnqueueEffect
<1>3. QED
  BY <1>1, <1>2

\* The invariant holds at first.
LEMMA InitInv == Init => Inv
<1> SUFFICES ASSUME Init PROVE Inv
  OBVIOUS
<1>1. \A i \in Slots : IsFree(i)
  BY DEF Init, IsFree
<1>2. Running = {} /\ Elements(queue) = {} /\ Elements(timers) = {}
  BY <1>1 DEF Init, Running, Elements
<1>3. IsDistinct(queue) /\ IsDistinct(timers)
  BY DEF Init, IsDistinct
<1>4. TypeOK
  BY <1>1 DEF Init, TypeOK
<1>5. OneJobPerCycle
  BY <1>1, <1>2, <1>3 DEF OneJobPerCycle
<1>6. HeldIsQueued /\ QueuedIsPending /\ QuietAfterStop /\ AcknowledgedIsStored
  BY <1>1, <1>2 DEF Init, HeldIsQueued, QueuedIsPending, QuietAfterStop,
                    AcknowledgedIsStored, Runs, Jobs
<1>7. QED
  BY <1>4, <1>5, <1>6 DEF Inv

\* A request for a stacker set keeps the invariant.
LEMMA MissingStackerSetInv ==
  ASSUME Inv, NEW c \in Cycles, MissingStackerSet(c)
  PROVE  Inv'
<1> USE InvParts
<1>1. /\ Add(queued, c) /\ requests' = requests + 1
      /\ UNCHANGED timers /\ UNCHANGED phase /\ UNCHANGED stored /\ UNCHANGED failures
  BY DEF MissingStackerSet
<1>2. Jobs \subseteq queued /\ Elements(timers) \subseteq queued
  BY DEF HeldIsQueued
<1>3. /\ PQueueOK' /\ KeepsAcknowledged /\ queued' \subseteq Cycles
      /\ IsAborted => Jobs' = Jobs /\ queued' = queued
      /\ ~IsAborted => Jobs' = Jobs \cup ({c} \ queued) /\ queued' = queued \cup {c}
      /\ c \in queued \/ IsAborted => UNCHANGED pqueue
  BY <1>1, <1>2, AddEffect
<1>4. Jobs' \cap Elements(timers) = {}
  BY <1>2, <1>3 DEF TimersOK
<1>5. TimersOK' /\ Elements(timers)' = Elements(timers)
  BY <1>1, <1>4, TimersUnchanged
<1>6. HeldIsQueued'
  BY <1>2, <1>3, <1>5 DEF HeldIsQueued
<1>7. QueuedIsPending'
  BY <1>1, <1>3, <1>5 DEF QueuedIsPending, IsAborted, Jobs
<1>8. QuietAfterStop'
  BY <1>1, <1>3 DEF QuietAfterStop, IsAborted, pqueue, IsFree
<1>9. AcknowledgedIsStored'
  BY <1>1, <1>3, StoredKept
<1>10. requests' \in Nat
  BY <1>1
<1>11. QED
  BY <1>1, <1>3, <1>5, <1>6, <1>7, <1>8, <1>9, <1>10, InvFromParts

\* A job cannot run once stop() has returned.
LEMMA NotStopped ==
  ASSUME Inv, NEW i \in Slots, ~IsFree(i)
  PROVE  phase # "stopped"
  BY DEF Inv, QuietAfterStop

\* The steps that move a job from one await to the next.
LEMMA GoToInv ==
  ASSUME Inv, NEW i \in Slots, ~IsFree(i), NEW at \in At, GoTo(i, at),
         UNCHANGED <<queued, timers, phase, requests>>, failures' \in Nat,
         stored' \in [Cycles -> Nat], \A c \in Cycles : stored'[c] >= stored[c],
         at = "acknowledge" => stored'[CycleIn(i)] > 0
  PROVE  Inv'
<1> USE InvParts
<1>1. /\ PQueueOK' /\ Jobs' = Jobs
      /\ \A j \in Slots : CycleIn(j)' = CycleIn(j)
      /\ \A j \in Slots : j # i /\ Runs(j, "acknowledge")' => Runs(j, "acknowledge")
      /\ Runs(i, "acknowledge")' => at = "acknowledge"
  BY GoToEffect
<1>2. TimersOK' /\ Elements(timers)' = Elements(timers)
  BY <1>1, TimersUnchanged DEF TimersOK
<1>3. HeldIsQueued'
  BY <1>1, <1>2 DEF HeldIsQueued
<1>4. QueuedIsPending'
  BY <1>1, <1>2 DEF QueuedIsPending, IsAborted, Jobs
<1>5. QuietAfterStop'
  BY NotStopped DEF QuietAfterStop
<1>6. AcknowledgedIsStored'
  <2> SUFFICES ASSUME NEW j \in Slots, Runs(j, "acknowledge")'
               PROVE  stored'[CycleIn(j)'] > 0
    BY DEF AcknowledgedIsStored
  <2>1. CASE j = i
    BY <1>1, <2>1
  <2>2. CASE j # i
    <3>1. Runs(j, "acknowledge") /\ CycleIn(j)' = CycleIn(j)
      BY <1>1, <2>2
    <3>2. CycleIn(j) \in Cycles /\ stored[CycleIn(j)] > 0
      BY <3>1, SlotType DEF AcknowledgedIsStored, Runs
    <3>3. stored[CycleIn(j)] \in Nat /\ stored'[CycleIn(j)] \in Nat
      BY <3>2
    <3>4. QED
      BY <3>1, <3>2, <3>3
  <2>3. QED
    BY <2>1, <2>2
<1>7. QED
  BY <1>1, <1>2, <1>3, <1>4, <1>5, <1>6, InvFromParts

\* The steps that end a job, settled (its cycle leaves queuedCycleNumbers) or not.
LEMMA EndJobInv ==
  ASSUME Inv, NEW i \in Slots, ~IsFree(i), EndJob(i),
         queued' = queued \ {CycleIn(i)} \/ (queued' = queued /\ IsAborted),
         UNCHANGED <<timers, phase, stored, requests>>, failures' \in Nat
  PROVE  Inv'
<1> USE InvParts
<1>1. PQueueOK' /\ Jobs' = Jobs \ {CycleIn(i)} /\ KeepsAcknowledged
  BY EndJobEffect
<1>2. CycleIn(i) \in Jobs
  BY RunningMember DEF Jobs
<1>3. TimersOK' /\ Elements(timers)' = Elements(timers)
  BY <1>1, TimersUnchanged DEF TimersOK
<1>4. CycleIn(i) \notin Elements(timers)
  BY <1>2 DEF TimersOK
<1>5. HeldIsQueued'
  BY <1>1, <1>3, <1>4 DEF HeldIsQueued
<1>6. QueuedIsPending'
  BY <1>1, <1>3, <1>4 DEF QueuedIsPending, IsAborted, Jobs
<1>7. QuietAfterStop'
  BY NotStopped DEF QuietAfterStop
<1>8. AcknowledgedIsStored'
  BY <1>1, StoredKept
<1>9. QED
  BY <1>1, <1>3, <1>5, <1>6, <1>7, <1>8, InvFromParts

\* So does a delay that ends.
LEMMA WakeInv ==
  ASSUME Inv, NEW i \in Slots, Wake(i), ~IsAborted
  PROVE  Inv'
<1> USE InvParts
<1>1. /\ ~IsFree(i) /\ EndJob(i) /\ timers' = Append(timers, CycleIn(i))
      /\ UNCHANGED queued /\ UNCHANGED phase /\ UNCHANGED stored
      /\ UNCHANGED requests /\ UNCHANGED failures
  BY DEF Wake, Runs
<1>2. PQueueOK' /\ Jobs' = Jobs \ {CycleIn(i)} /\ KeepsAcknowledged
  BY <1>1, EndJobEffect
<1>3. CycleIn(i) \in Jobs /\ CycleIn(i) \in Cycles
  BY <1>1, RunningMember, SlotType DEF Jobs
<1>4. CycleIn(i) \notin Elements(timers)
  BY <1>3 DEF TimersOK
<1>5. /\ timers' \in Seq(Cycles) /\ IsDistinct(timers)'
      /\ Elements(timers)' = Elements(timers) \cup {CycleIn(i)}
  BY <1>1, <1>3, <1>4, AppendDistinct DEF TimersOK, IsDistinct, Elements
<1>6. TimersOK'
  BY <1>2, <1>5 DEF TimersOK
<1>7. HeldIsQueued'
  BY <1>1, <1>2, <1>3, <1>5 DEF HeldIsQueued
<1>8. QueuedIsPending'
  BY <1>1, <1>2, <1>3, <1>5 DEF QueuedIsPending, IsAborted, Jobs
<1>9. QuietAfterStop'
  BY <1>1, NotStopped DEF QuietAfterStop
<1>10. AcknowledgedIsStored'
  BY <1>1, <1>2, StoredKept
<1>11. QED
  BY <1>1, <1>2, <1>6, <1>7, <1>8, <1>9, <1>10, InvFromParts

\* So does a retry's timer.
LEMMA RetryTimerInv ==
  ASSUME Inv, RetryTimer
  PROVE  Inv'
<1> DEFINE c == Head(timers)
           known == queued \ {c}
<1>1. /\ timers # <<>> /\ timers' = Tail(timers) /\ Add(known, c)
      /\ UNCHANGED phase /\ UNCHANGED stored /\ UNCHANGED requests /\ UNCHANGED failures
  BY DEF RetryTimer
<1>0. timers \in Seq(Cycles) /\ IsDistinct(timers)
  BY InvParts DEF TimersOK
<1>2. /\ c \in Cycles /\ c \in Elements(timers)
      /\ timers' \in Seq(Cycles) /\ IsDistinct(timers)'
      /\ Elements(timers)' = Elements(timers) \ {c}
  <2>1. /\ c \in Cycles /\ c \in Elements(timers)
        /\ Tail(timers) \in Seq(Cycles) /\ IsDistinct(Tail(timers))
        /\ Elements(Tail(timers)) = Elements(timers) \ {c}
    BY <1>0, <1>1, TailDistinct
  <2>2. QED
    BY <1>1, <2>1 DEF IsDistinct, Elements
<1> HIDE DEF c
<1> USE InvParts
<1>3. c \notin Jobs /\ Jobs \subseteq known /\ Elements(timers)' \subseteq known
  BY <1>2 DEF TimersOK, HeldIsQueued
<1>4. /\ PQueueOK' /\ KeepsAcknowledged /\ queued' \subseteq Cycles
      /\ IsAborted => Jobs' = Jobs /\ queued' = known
      /\ ~IsAborted => Jobs' = Jobs \cup ({c} \ known) /\ queued' = known \cup {c}
      /\ c \in known \/ IsAborted => UNCHANGED pqueue
  BY <1>1, <1>2, <1>3, AddEffect
<1>5. TimersOK'
  BY <1>2, <1>4 DEF TimersOK
<1>6. HeldIsQueued'
  <2>1. CASE IsAborted
    BY <1>3, <1>4, <2>1 DEF HeldIsQueued
  <2>2. CASE ~IsAborted
    BY <1>3, <1>4, <2>2 DEF HeldIsQueued
  <2>3. QED
    BY <2>1, <2>2
<1>7. QueuedIsPending'
  BY <1>1, <1>2, <1>4 DEF QueuedIsPending, IsAborted, Jobs
<1>8. QuietAfterStop'
  BY <1>1, <1>4 DEF QuietAfterStop, IsAborted, pqueue, IsFree
<1>9. AcknowledgedIsStored'
  BY <1>1, <1>4, StoredKept
<1>10. QED
  BY <1>1, <1>4, <1>5, <1>6, <1>7, <1>8, <1>9, InvFromParts

\* So does the stop.
LEMMA PhaseInv ==
  ASSUME Inv, Stop \/ Stopped
  PROVE  Inv'
<1> USE InvParts
<1>1. /\ UNCHANGED queued /\ UNCHANGED pqueue /\ UNCHANGED timers /\ UNCHANGED stored
      /\ UNCHANGED requests /\ UNCHANGED failures /\ phase' \in {"stopping", "stopped"}
  BY DEF Stop, Stopped
<1>2. PQueueOK' /\ Jobs' = Jobs /\ KeepsAcknowledged
  BY <1>1, QueueUnchanged
<1>3. TimersOK' /\ Elements(timers)' = Elements(timers)
  BY <1>1, <1>2, TimersUnchanged DEF TimersOK
<1>4. HeldIsQueued'
  BY <1>1, <1>2, <1>3 DEF HeldIsQueued
<1>5. QueuedIsPending'
  BY <1>1 DEF QueuedIsPending, IsAborted
<1>6. QuietAfterStop'
  BY <1>1 DEF QuietAfterStop, Stop, Stopped, pqueue, IsFree
<1>7. AcknowledgedIsStored'
  BY <1>1, <1>2, StoredKept
<1>8. QED
  BY <1>1, <1>2, <1>3, <1>4, <1>5, <1>6, <1>7, InvFromParts

\* So does every step of a job.
LEMMA JobStepInv ==
  ASSUME Inv, NEW i \in Slots, JobStep(i)
  PROVE  Inv'
<1>0. /\ stored \in [Cycles -> Nat] /\ failures \in Nat
      /\ \A c \in Cycles : stored[c] >= stored[c]
  BY DEF Inv, TypeOK
<1>1. CASE FetchSucceeds(i)
  <2>1. /\ ~IsFree(i) /\ GoTo(i, "write") /\ "write" \in At
        /\ UNCHANGED <<queued, timers, phase, requests>> /\ stored' = stored
        /\ failures' = failures
    BY <1>1 DEF FetchSucceeds, Runs, At
  <2>2. QED
    BY <1>0, <2>1, GoToInv
<1>2. CASE FetchPrePox4(i)
  BY <1>0, <1>2, EndJobInv DEF FetchPrePox4, Runs
<1>3. CASE WriteCommits(i)
  <2> DEFINE c == CycleIn(i)
  <2>1. /\ ~IsFree(i) /\ GoTo(i, "acknowledge") /\ "acknowledge" \in At
        /\ UNCHANGED <<queued, timers, phase, requests>>
        /\ stored' = [stored EXCEPT ![c] = @ + 1]
        /\ failures' = failures
    BY <1>3 DEF WriteCommits, Runs, At
  <2>2. c \in Cycles
    BY <2>1, InvParts, SlotType
  <2> HIDE DEF c
  <2>3. /\ stored' \in [Cycles -> Nat] /\ \A d \in Cycles : stored'[d] >= stored[d]
        /\ stored'[c] > 0
    BY <1>0, <2>1, <2>2
  <2>4. QED
    BY <1>0, <2>1, <2>3, GoToInv DEF c
<1>4. CASE WriteAcknowledged(i)
  BY <1>0, <1>4, EndJobInv DEF WriteAcknowledged, Runs
<1>5. CASE Catch(i)
  <2>1. ~IsFree(i) /\ failures' \in Nat
    BY <1>0, <1>5 DEF Catch, Throws, Runs
  <2>2. CASE IsAborted
    BY <1>5, <2>1, <2>2, EndJobInv DEF Catch
  <2>3. CASE ~IsAborted
    <3>1. /\ GoTo(i, "sleep") /\ "sleep" \in At
          /\ UNCHANGED <<queued, timers, phase, requests>> /\ stored' = stored
      BY <1>5, <2>3 DEF Catch, At
    <3>2. QED
      BY <1>0, <2>1, <3>1, GoToInv
  <2>4. QED
    BY <2>2, <2>3
<1>6. CASE Wake(i)
  <2>1. CASE IsAborted
    BY <1>0, <1>6, <2>1, EndJobInv DEF Wake, Runs
  <2>2. CASE ~IsAborted
    BY <1>6, <2>2, WakeInv
  <2>3. QED
    BY <2>1, <2>2
<1>7. QED
  BY <1>1, <1>2, <1>3, <1>4, <1>5, <1>6 DEF JobStep

\* So does a step that changes nothing.
LEMMA StutterInv == Inv /\ UNCHANGED vars => Inv'
<1> SUFFICES ASSUME Inv, UNCHANGED vars PROVE Inv'
  OBVIOUS
<1> USE InvParts
<1>1. /\ UNCHANGED queued /\ UNCHANGED pqueue /\ UNCHANGED timers /\ UNCHANGED stored
      /\ UNCHANGED requests /\ UNCHANGED failures /\ UNCHANGED phase
  BY DEF vars
<1>2. PQueueOK' /\ Jobs' = Jobs /\ KeepsAcknowledged
  BY <1>1, QueueUnchanged
<1>3. TimersOK' /\ Elements(timers)' = Elements(timers)
  BY <1>1, <1>2, TimersUnchanged DEF TimersOK
<1>4. HeldIsQueued' /\ QueuedIsPending' /\ QuietAfterStop'
  BY <1>1, <1>2, <1>3 DEF HeldIsQueued, QueuedIsPending, IsAborted, Jobs, QuietAfterStop,
                          pqueue, IsFree
<1>5. QED
  BY <1>1, <1>2, <1>3, <1>4, StoredKept, InvFromParts

\* Every step keeps the invariant.
LEMMA NextInv == Inv /\ [Next]_vars => Inv'
<1> SUFFICES ASSUME Inv, [Next]_vars PROVE Inv'
  OBVIOUS
<1>1. ASSUME NEW c \in Cycles, MissingStackerSet(c) PROVE Inv'
  BY <1>1, MissingStackerSetInv
<1>2. ASSUME NEW i \in Slots, JobStep(i) PROVE Inv'
  BY <1>2, JobStepInv
<1>3. CASE RetryTimer
  BY <1>3, RetryTimerInv
<1>4. CASE Stop \/ Stopped
  BY <1>4, PhaseInv
<1>5. CASE UNCHANGED vars
  BY <1>5, StutterInv
<1>6. QED
  BY <1>1, <1>2, <1>3, <1>4, <1>5 DEF Next

\* Every reachable state satisfies the invariant.
LEMMA Invariance == Spec => []Inv
<1>1. QED
  BY InitInv, NextInv, PTL DEF Spec
------------------------------------------------------------------------------
(* Theorems                                                                *)

\* Every variable keeps its type, and no slot idles while a job waits for one
\* (PQueue starts waiting jobs only where another ends).
THEOREM TypeCorrect == Spec => []TypeOK
<1>1. Inv => TypeOK
  BY DEF Inv
<1>2. QED
  BY <1>1, Invariance, PTL

\* No cycle is fetched by two jobs, nor by a job while its retry is due: add() and
\* the retry timer together keep queuedCycleNumbers a lock.
THEOREM OneJobForEachCycle == Spec => []OneJobPerCycle
<1>1. Inv => OneJobPerCycle
  BY DEF Inv
<1>2. QED
  BY <1>1, Invariance, PTL

\* A cycle stays in queuedCycleNumbers only as long as a job or a timer is there to
\* take it out: add() never refuses a cycle for good.
THEOREM QueuedCyclesArePending == Spec => []QueuedIsPending
<1>1. Inv => QueuedIsPending
  BY DEF Inv
<1>2. QED
  BY <1>1, Invariance, PTL

\* Nothing runs or waits once stop() has returned, whatever timers are still due.
THEOREM NothingRunsAfterStop == Spec => []QuietAfterStop
<1>1. Inv => QuietAfterStop
  BY DEF Inv
<1>2. QED
  BY <1>1, Invariance, PTL

\* Nothing is requested at first.
LEMMA InitRefines == Init => Requests!Init
  BY DEF Init, Requests!Init

\* A request is one of the abstract specification, or none if it is pending.
LEMMA AddRefines ==
  ASSUME NEW c \in Cycles, MissingStackerSet(c)
  PROVE  [Requests!Next]_Requests!vars
<1>1. UNCHANGED phase /\ UNCHANGED stored
  BY DEF MissingStackerSet
<1>2. CASE c \in queued \/ IsAborted
  BY <1>1, <1>2 DEF MissingStackerSet, Add, Requests!vars
<1>3. CASE ~(c \in queued \/ IsAborted)
  <2>1. Requests!Request(c)
    BY <1>1, <1>3 DEF MissingStackerSet, Add, IsAborted, Requests!Request
  <2>2. QED
    BY <2>1 DEF Requests!Next
<1>4. QED
  BY <1>2, <1>3

\* A step of a job answers its request, or leaves it pending.
LEMMA JobStepRefines ==
  ASSUME Inv, NEW i \in Slots, JobStep(i)
  PROVE  [Requests!Next]_Requests!vars
<1> DEFINE c == CycleIn(i)
<1>1. ~IsFree(i)
  BY DEF JobStep, FetchSucceeds, FetchPrePox4, WriteCommits, WriteAcknowledged, Catch,
         Throws, Wake, Runs
<1>2. c \in Cycles /\ c \in queued /\ phase # "stopped"
  BY <1>1, InvParts, SlotType, RunningMember, NotStopped DEF HeldIsQueued, Jobs
<1>3. CASE FetchPrePox4(i)
  <2>1. Requests!Settle(c)
    BY <1>2, <1>3 DEF FetchPrePox4, Requests!Settle
  <2>2. QED
    BY <1>2, <2>1 DEF Requests!Next
<1>4. CASE WriteCommits(i)
  <2>1. Requests!Store(c)
    BY <1>2, <1>4 DEF WriteCommits, Requests!Store
  <2>2. QED
    BY <1>2, <2>1 DEF Requests!Next
<1>5. CASE WriteAcknowledged(i)
  <2>1. stored[c] > 0
    BY <1>5, InvParts DEF WriteAcknowledged, AcknowledgedIsStored
  <2>2. Requests!Settle(c)
    BY <1>2, <1>5, <2>1 DEF WriteAcknowledged, Requests!Settle
  <2>3. QED
    BY <1>2, <2>2 DEF Requests!Next
<1>6. CASE FetchSucceeds(i) \/ Catch(i) \/ Wake(i)
  BY <1>6 DEF FetchSucceeds, Catch, Wake, Requests!vars
<1>7. QED
  BY <1>3, <1>4, <1>5, <1>6 DEF JobStep

\* A retry's timer leaves the requests as they are.
LEMMA RetryTimerRefines ==
  ASSUME Inv, RetryTimer
  PROVE  [Requests!Next]_Requests!vars
<1> DEFINE c == Head(timers)
<1>1. c \in Cycles /\ c \in Elements(timers)
  BY InvParts, TailDistinct DEF TimersOK, RetryTimer
<1>2. c \in queued
  BY <1>1, InvParts DEF HeldIsQueued
<1>3. CASE IsAborted
  <2>1. Requests!Drop(c)
    BY <1>3 DEF RetryTimer, Add, IsAborted, Requests!Drop
  <2>2. QED
    BY <1>1, <2>1 DEF Requests!Next
<1>4. CASE ~IsAborted
  <2>1. queued' = queued
    BY <1>2, <1>4 DEF RetryTimer, Add
  <2>2. QED
    BY <2>1 DEF RetryTimer, Requests!vars
<1>5. QED
  BY <1>3, <1>4

\* Every step is one of the requests' specification, or a stutter.
LEMMA NextRefines == Inv /\ [Next]_vars => [Requests!Next]_Requests!vars
<1> SUFFICES ASSUME Inv, [Next]_vars PROVE [Requests!Next]_Requests!vars
  OBVIOUS
<1>1. ASSUME NEW c \in Cycles, MissingStackerSet(c) PROVE [Requests!Next]_Requests!vars
  BY <1>1, AddRefines
<1>2. ASSUME NEW i \in Slots, JobStep(i) PROVE [Requests!Next]_Requests!vars
  BY <1>2, JobStepRefines
<1>3. CASE RetryTimer
  BY <1>3, RetryTimerRefines
<1>4. CASE Stop
  BY <1>4 DEF Stop, Requests!Stop, Requests!Next
<1>5. CASE Stopped
  BY <1>5 DEF Stopped, Requests!Stopped, Requests!Next
<1>6. CASE UNCHANGED vars
  BY <1>6 DEF vars, Requests!vars
<1>7. QED
  BY <1>1, <1>2, <1>3, <1>4, <1>5, <1>6 DEF Next

\* The queue, its retries and its timers implement the requests the ingestion
\* relies on: only requested cycles are written, none is given up before it is
\* written or known to have no set, and nothing is written after stop().
THEOREM UpdatorImplementsRequests == Spec => ImplementsRequests
<1>1. QED
  BY InitRefines, NextRefines, Invariance, PTL DEF Spec, ImplementsRequests, Requests!Spec
==============================================================================
