-------------------------- MODULE ThreadPoolProofs --------------------------
(***************************************************************************)
(* Proofs about ThreadPool for every number of workers, submitters and     *)
(* jobs and every buffer size.                                             *)
(***************************************************************************)
EXTENDS ThreadPool, SequenceFacts, FiniteSetTheorems

(***************************************************************************)
(* The parts of the inductive invariant that no property states.           *)
(***************************************************************************)

\* The call of enqueue_sync_job a job is offered in, and only that one, holds it
OfferedJobs ==
  /\ \A s \in Submitters : spc[s] = "idle" <=> sjob[s] = NULL
  /\ \A s \in Submitters : sjob[s] # NULL => fate[sjob[s]] = "offered"
  /\ \A j \in Jobs : fate[j] = "offered" => \E s \in Submitters : sjob[s] = j
  /\ \A r, s \in Submitters : sjob[r] = sjob[s] /\ sjob[r] # NULL => r = s

\* A worker holds a job exactly while it synchronises it
RunningJobs ==
  /\ \A w \in Workers : wpc[w] = "sync" <=> wjob[w] # NULL
  /\ \A w \in Workers : wjob[w] # NULL => fate[wjob[w]] = "running"
  /\ \A j \in Jobs : fate[j] = "running" => \E w \in Workers : wjob[w] = j
  /\ \A v, w \in Workers : wjob[v] = wjob[w] /\ wjob[v] # NULL => v = w

\* The list holds the queued jobs, each once; none was ever thrown away
QueuedJobs ==
  /\ \A j \in Jobs :
       fate[j] = "queued" <=> \E i \in DOMAIN job_queue : job_queue[i] = j
  /\ \A i, k \in DOMAIN job_queue : job_queue[i] = job_queue[k] => i = k
  /\ \A j \in Jobs : fate[j] # "discarded"

\* The condition a thread is about to wait for still fails: it holds the mutex
SleepReason ==
  /\ \A w \in Workers : wpc[w] = "sleep" => job_queue = <<>>
  /\ \A s \in Submitters : spc[s] = "sleep" => Len(job_queue) = BufferSize

\* What the place of the controller says about the rest
Phases ==
  /\ cpc \in {"alloc", "create", "run", "signal"} => ~shutdown
  /\ cpc \in {"broadcast", "unwind", "stopped", "join", "gone"} => shutdown
  /\ cpc \in {"alloc", "create", "broadcast", "unwind", "null", "close", "join", "gone"} =>
       \A s \in Submitters : spc[s] = "idle"
  /\ cpc \in {"alloc", "create", "broadcast", "unwind", "null"} =>
       job_queue = <<>> /\ \A j \in Jobs : fate[j] = "new"
  /\ cpc = "alloc" => \A w \in Workers : wpc[w] = "unborn"
  /\ cpc = "null" => \A w \in Workers : wpc[w] \in {"unborn", "exited"}
  /\ cpc = "gone" => \A w \in Workers : wpc[w] = "exited"
  /\ \A w \in Workers : wpc[w] = "exited" => shutdown /\ job_queue = <<>>

IInv ==
  /\ TypeOK
  /\ MutualExclusion
  /\ ListConsistent
  /\ OfferedJobs
  /\ RunningJobs
  /\ QueuedJobs
  /\ SleepReason
  /\ ShutdownWakesAll
  /\ Phases
-----------------------------------------------------------------------------
(***************************************************************************)
(* Lemmas about the list operations.                                       *)
(***************************************************************************)

\* With the tail pointer where it belongs, the new job becomes the last one
LEMMA LinkAppends ==
  ASSUME NEW q \in Seq(Jobs), NEW j \in Jobs, NEW tail,
         tail = IF q = <<>> THEN NULL ELSE q[Len(q)]
  PROVE  Link(q, tail, j) = Append(q, j)
<1>1. CASE q = <<>>
  BY <1>1, AppendProperties DEF Link
<1>2. CASE q # <<>>
  <2>1. Len(q) \in DOMAIN q
    BY <1>2, LenProperties, EmptySeq
  <2>2. q[Len(q)] \in Jobs
    BY <2>1, ElementOfSeq
  <2>3. tail # NULL
    BY <1>2, <2>2, PoolAssumption
  <2>. QED
    BY <1>2, <2>3 DEF Link
<1>. QED
  BY <1>1, <1>2
-----------------------------------------------------------------------------
(***************************************************************************)
(* IInv is inductive.                                                      *)
(***************************************************************************)
\* A pool that is about to be created satisfies it
LEMMA InitIInv == Init => IInv
<1>. SUFFICES ASSUME Init PROVE IInv
  OBVIOUS
<1>1. <<>> \in Seq(Jobs) /\ Len(<<>>) = 0 /\ DOMAIN <<>> = {}
  BY EmptySeq
<1>2. TypeOK
  <2>1. job_queue \in Seq(Jobs) /\ queue_size \in 0..BufferSize
    BY <1>1, PoolAssumption DEF Init
  <2>. QED
    BY <2>1 DEF Init, TypeOK, WorkerPC, SubmitterPC, ControllerPC, Fates
<1>3. MutualExclusion
  BY PoolAssumption DEF Init, MutualExclusion
<1>4. ListConsistent
  BY <1>1 DEF Init, ListConsistent
<1>5. OfferedJobs /\ RunningJobs
  BY DEF Init, OfferedJobs, RunningJobs
<1>6. QueuedJobs
  BY <1>1 DEF Init, QueuedJobs
<1>7. SleepReason /\ ShutdownWakesAll /\ Phases
  BY DEF Init, SleepReason, ShutdownWakesAll, Phases
<1>. QED
  BY <1>2, <1>3, <1>4, <1>5, <1>6, <1>7 DEF IInv

\* The controller: creation, its error path, shutdown and destruction
LEMMA ControllerIInv == IInv /\ ControllerStep => IInv'
<1>. SUFFICES ASSUME IInv, ControllerStep PROVE IInv'
  OBVIOUS
<1>. USE PoolAssumption
     DEF IInv, TypeOK, MutualExclusion, ListConsistent, OfferedJobs,
         RunningJobs, QueuedJobs, SleepReason, ShutdownWakesAll, Phases,
         WorkerPC, SubmitterPC, ControllerPC, Fates, Threads, poolvars
<1>1. CASE Allocate
  BY <1>1 DEF Allocate
<1>2. CASE CreateFails
  BY <1>2 DEF CreateFails, created
<1>3. CASE AbortBroadcast
  BY <1>3 DEF AbortBroadcast, Woken, queue_not_empty
<1>4. CASE AbortJoin
  BY <1>4 DEF AbortJoin, created
<1>5. CASE CreateReturns
  BY <1>5 DEF CreateReturns
<1>6. CASE SignalShutdownLock
  BY <1>6 DEF SignalShutdownLock, LockedBy
<1>7. CASE SignalShutdown
  BY <1>7 DEF SignalShutdown, BroadcastBoth, Unlock, Woken, queue_not_empty,
              queue_not_full
<1>8. CASE DestroyLock
  BY <1>8 DEF DestroyLock, LockedBy
<1>9. CASE DestroyShutdown
  BY <1>9 DEF DestroyShutdown, BroadcastBoth, Unlock, Woken, queue_not_empty,
              queue_not_full
<1>10. CASE DestroyFree
  \* every worker has exited, so the queue is empty and nothing is discarded
  BY <1>10, EmptySeq DEF DestroyFree, Joined
<1>. QED
  BY <1>1, <1>2, <1>3, <1>4, <1>5, <1>6, <1>7, <1>8, <1>9, <1>10
  DEF ControllerStep

\* enqueue_sync_job puts the job at the end of the list
LEMMA EnqueueAddsIInv ==
  ASSUME IInv, NEW s \in Submitters, EnqueueAdds(s)
  PROVE  IInv'
<1>. DEFINE j == sjob[s]
<1>1. /\ j \in Jobs /\ j # NULL
      /\ fate[j] = "offered"
      /\ \A i \in DOMAIN job_queue : job_queue[i] # j
  BY PoolAssumption
  DEF IInv, TypeOK, OfferedJobs, QueuedJobs, EnqueueAdds, Fates
<1>2. job_queue' = Append(job_queue, j)
  BY <1>1, LinkAppends DEF IInv, TypeOK, ListConsistent, EnqueueAdds
<1>3. /\ job_queue' \in Seq(Jobs) /\ job_queue' # <<>>
      /\ Len(job_queue) \in Nat /\ Len(job_queue') = Len(job_queue) + 1
      /\ DOMAIN job_queue = 1..Len(job_queue)
      /\ DOMAIN job_queue' = 1..(Len(job_queue) + 1)
      /\ \A i \in 1..Len(job_queue) : job_queue'[i] = job_queue[i]
      /\ job_queue'[Len(job_queue) + 1] = j
  BY <1>1, <1>2, AppendIndices, LenProperties DEF IInv, TypeOK
<1>4. \A w \in Workers :
        /\ wpc'[w] # wpc[w] => wpc[w] = "blocked" /\ wpc'[w] = "lock"
        /\ wpc'[w] \in WorkerPC
  BY DEF IInv, TypeOK, EnqueueAdds, SignalNotEmpty, Signalled, Woken,
         queue_not_empty, WorkerPC
<1>5. wpc' \in [Workers -> WorkerPC]
  BY <1>4 DEF IInv, TypeOK, EnqueueAdds, SignalNotEmpty, Woken
<1>6. TypeOK'
  BY <1>1, <1>3, <1>5, PoolAssumption
  DEF IInv, TypeOK, ListConsistent, EnqueueAdds, Unlock, Full, Fates,
      SubmitterPC
<1>7. MutualExclusion'
  BY <1>4, PoolAssumption
  DEF IInv, TypeOK, MutualExclusion, EnqueueAdds, Unlock
<1>8. ListConsistent'
  BY <1>3 DEF IInv, ListConsistent, EnqueueAdds
<1>9. OfferedJobs'
  BY <1>1 DEF IInv, TypeOK, OfferedJobs, EnqueueAdds
<1>10. RunningJobs'
  BY <1>1, <1>4 DEF IInv, TypeOK, RunningJobs, EnqueueAdds
<1>11. QueuedJobs'
  <2>1. \A k \in Jobs : fate'[k] = IF k = j THEN "queued" ELSE fate[k]
    BY <1>1 DEF IInv, TypeOK, EnqueueAdds
  <2>2. \A i \in DOMAIN job_queue' :
          job_queue'[i] = IF i = Len(job_queue) + 1 THEN j ELSE job_queue[i]
    BY <1>3
  <2>3. \A k \in Jobs : fate'[k] = "queued"
                          <=> \E i \in DOMAIN job_queue' : job_queue'[i] = k
    BY <2>1, <2>2, <1>1, <1>3 DEF IInv, QueuedJobs
  <2>4. \A i, k \in DOMAIN job_queue' :
          job_queue'[i] = job_queue'[k] => i = k
    BY <2>2, <1>1, <1>3 DEF IInv, QueuedJobs
  <2>. QED
    BY <2>1, <2>3, <2>4 DEF IInv, QueuedJobs
<1>12. SleepReason'
  BY <1>4, PoolAssumption
  DEF IInv, TypeOK, MutualExclusion, SleepReason, EnqueueAdds
<1>13. ShutdownWakesAll'
  BY <1>4 DEF IInv, ShutdownWakesAll, EnqueueAdds
<1>14. Phases'
  BY <1>4 DEF IInv, TypeOK, Phases, EnqueueAdds
<1>. QED
  BY <1>6, <1>7, <1>8, <1>9, <1>10, <1>11, <1>12, <1>13, <1>14 DEF IInv

\* The other steps of enqueue_sync_job leave the list alone
LEMMA SubmitterIInv ==
  ASSUME IInv, NEW s \in Submitters, SubmitterStep(s)
  PROVE  IInv'
<1>1. CASE EnqueueAdds(s)
  BY <1>1, EnqueueAddsIInv
<1>. USE PoolAssumption
     DEF IInv, TypeOK, MutualExclusion, ListConsistent, OfferedJobs,
         RunningJobs, QueuedJobs, SleepReason, ShutdownWakesAll, Phases,
         WorkerPC, SubmitterPC, ControllerPC, Fates, Threads, poolvars
<1>2. CASE \E j \in Jobs : Submit(s, j)
  BY <1>2 DEF Submit
<1>3. CASE EnqueueLock(s)
  BY <1>3 DEF EnqueueLock, LockedBy
<1>4. CASE EnqueueRefuses(s)
  BY <1>4 DEF EnqueueRefuses, Unlock
<1>5. CASE EnqueueMustWait(s)
  BY <1>5 DEF EnqueueMustWait, Full
<1>6. CASE EnqueueWaits(s)
  BY <1>6 DEF EnqueueWaits, Unlock
<1>7. CASE EnqueueSpuriousWakeup(s)
  BY <1>7 DEF EnqueueSpuriousWakeup, Woken, queue_not_full
<1>. QED
  BY <1>1, <1>2, <1>3, <1>4, <1>5, <1>6, <1>7 DEF SubmitterStep

\* dequeue_sync_job takes the job at the head of the list
LEMMA DequeueTakesIInv ==
  ASSUME IInv, NEW w \in Workers, DequeueTakes(w)
  PROVE  IInv'
<1>. DEFINE j == Head(job_queue)
<1>1. /\ Len(job_queue) \in Nat \ {0}
      /\ j = job_queue[1] /\ j \in Jobs
      /\ job_queue' = Tail(job_queue) /\ job_queue' \in Seq(Jobs)
      /\ Len(job_queue') = Len(job_queue) - 1
      /\ DOMAIN job_queue = 1..Len(job_queue)
      /\ DOMAIN job_queue' = 1..(Len(job_queue) - 1)
      /\ \A i \in 1..(Len(job_queue) - 1) : job_queue'[i] = job_queue[i + 1]
      /\ job_queue' = <<>> <=> Len(job_queue) = 1
  BY TailIndices DEF IInv, TypeOK, DequeueTakes
<1>2. fate[j] = "queued" /\ j # NULL /\ wjob[w] = NULL
  BY SMTT(30), <1>1, PoolAssumption
  DEF IInv, TypeOK, QueuedJobs, RunningJobs, DequeueTakes
<1>3. \A s \in Submitters :
        /\ spc'[s] # spc[s] => spc[s] = "blocked" /\ spc'[s] = "lock"
        /\ spc'[s] \in SubmitterPC
  BY DEF IInv, TypeOK, DequeueTakes, SignalNotFull, Signalled, Woken,
         queue_not_full, SubmitterPC
<1>4. spc' \in [Submitters -> SubmitterPC]
  BY <1>3 DEF IInv, TypeOK, DequeueTakes, SignalNotFull, Woken
<1>5. \A k \in Jobs : fate'[k] = IF k = j THEN "running" ELSE fate[k]
  BY <1>1 DEF IInv, TypeOK, DequeueTakes
<1>6. TypeOK'
  BY <1>1, <1>2, <1>4, PoolAssumption
  DEF IInv, TypeOK, ListConsistent, DequeueTakes, Unlock, TailAfterUnlink,
      Fates, WorkerPC
<1>7. MutualExclusion'
  BY <1>3, PoolAssumption
  DEF IInv, TypeOK, MutualExclusion, DequeueTakes, Unlock
<1>8. ListConsistent'
  BY <1>1 DEF IInv, ListConsistent, DequeueTakes, TailAfterUnlink
<1>9. OfferedJobs'
  BY <1>1, <1>2, <1>3 DEF IInv, TypeOK, OfferedJobs, DequeueTakes
<1>10. RunningJobs'
  <2>1. /\ wjob' = [wjob EXCEPT ![w] = j] /\ wpc' = [wpc EXCEPT ![w] = "sync"]
        /\ wjob \in [Workers -> Jobs \cup {NULL}]
        /\ wpc \in [Workers -> WorkerPC]
    BY DEF IInv, TypeOK, DequeueTakes
  <2>2. \A v \in Workers : wjob[v] # j
    BY <1>2 DEF IInv, RunningJobs
  <2>3. \A v \in Workers : wpc'[v] = "sync" <=> wjob'[v] # NULL
    BY <2>1, <1>2 DEF IInv, RunningJobs
  <2>4. \A v \in Workers : wjob'[v] # NULL => fate'[wjob'[v]] = "running"
    BY <2>1, <1>1, <1>5 DEF IInv, RunningJobs
  <2>5. \A k \in Jobs : fate'[k] = "running" => \E v \in Workers : wjob'[v] = k
    BY <2>1, <1>2, <1>5, PoolAssumption DEF IInv, RunningJobs
  <2>6. \A u, v \in Workers : wjob'[u] = wjob'[v] /\ wjob'[u] # NULL => u = v
    BY <2>1, <2>2 DEF IInv, RunningJobs
  <2>. QED
    BY <2>3, <2>4, <2>5, <2>6 DEF RunningJobs
<1>11. QueuedJobs'
  <2>1. \A i, k \in DOMAIN job_queue' : job_queue'[i] = job_queue'[k] => i = k
    BY <1>1 DEF IInv, QueuedJobs
  <2>2. ASSUME NEW k \in Jobs
        PROVE  fate'[k] = "queued"
                 <=> \E i \in DOMAIN job_queue' : job_queue'[i] = k
    <3>1. CASE k = j
      \* the head is in the list only once
      <4>1. \A i \in DOMAIN job_queue' : job_queue'[i] # k
        BY <3>1, <1>1 DEF IInv, QueuedJobs
      <4>. QED
        BY <4>1, <3>1, <1>5
    <3>2. CASE k # j
      <4>1. ASSUME NEW i \in DOMAIN job_queue, job_queue[i] = k
            PROVE  i - 1 \in DOMAIN job_queue' /\ job_queue'[i - 1] = k
        BY <4>1, <3>2, <1>1
      <4>2. ASSUME NEW i \in DOMAIN job_queue', job_queue'[i] = k
            PROVE  i + 1 \in DOMAIN job_queue /\ job_queue[i + 1] = k
        BY <4>2, <1>1
      <4>. QED
        BY <4>1, <4>2, <3>2, <1>5 DEF IInv, QueuedJobs
    <3>. QED
      BY <3>1, <3>2
  <2>3. \A k \in Jobs : fate'[k] # "discarded"
    BY <1>5 DEF IInv, QueuedJobs
  <2>. QED
    BY <2>1, <2>2, <2>3 DEF QueuedJobs
<1>12. SleepReason'
  BY <1>3, PoolAssumption
  DEF IInv, TypeOK, MutualExclusion, SleepReason, DequeueTakes
<1>13. ShutdownWakesAll'
  BY <1>3 DEF IInv, TypeOK, ShutdownWakesAll, DequeueTakes
<1>14. Phases'
  BY <1>3 DEF IInv, TypeOK, Phases, DequeueTakes
<1>. QED
  BY <1>6, <1>7, <1>8, <1>9, <1>10, <1>11, <1>12, <1>13, <1>14 DEF IInv

\* The other steps of a worker leave the list alone
LEMMA WorkerIInv ==
  ASSUME IInv, NEW w \in Workers, WorkerStep(w)
  PROVE  IInv'
<1>1. CASE DequeueTakes(w)
  BY <1>1, DequeueTakesIInv
<1>0. queue_size = 0 <=> job_queue = <<>>
  BY EmptySeq DEF IInv, TypeOK, ListConsistent
<1>. USE PoolAssumption
     DEF IInv, TypeOK, MutualExclusion, ListConsistent, OfferedJobs,
         RunningJobs, QueuedJobs, SleepReason, ShutdownWakesAll, Phases,
         WorkerPC, SubmitterPC, ControllerPC, Fates, Threads, poolvars
<1>2. CASE CreateWorker(w)
  BY <1>2 DEF CreateWorker
<1>3. CASE DequeueLock(w)
  BY <1>3 DEF DequeueLock, LockedBy
<1>4. CASE DequeueMustWait(w)
  BY <1>4, <1>0 DEF DequeueMustWait
<1>5. CASE WorkerExits(w)
  BY <1>5, <1>0 DEF WorkerExits, NothingToDequeue, Unlock
<1>6. CASE DequeueWaits(w)
  BY <1>6 DEF DequeueWaits, Unlock
<1>7. CASE DequeueSpuriousWakeup(w)
  BY <1>7 DEF DequeueSpuriousWakeup, Woken, queue_not_empty
<1>8. CASE FinishSync(w)
  BY <1>8 DEF FinishSync
<1>. QED
  BY <1>1, <1>2, <1>3, <1>4, <1>5, <1>6, <1>7, <1>8 DEF WorkerStep

\* Nothing else changes
LEMMA StutterIInv == IInv /\ UNCHANGED vars => IInv'
  BY DEF vars, IInv, TypeOK, MutualExclusion, ListConsistent, OfferedJobs,
         RunningJobs, QueuedJobs, SleepReason, ShutdownWakesAll, Phases,
         WorkerPC, SubmitterPC, ControllerPC, Fates, Threads

\* Every step of every thread preserves it
LEMMA NextIInv == IInv /\ [Next]_vars => IInv'
<1>. SUFFICES ASSUME IInv, [Next]_vars PROVE IInv'
  OBVIOUS
<1>1. CASE ControllerStep
  BY <1>1, ControllerIInv
<1>2. CASE \E s \in Submitters : SubmitterStep(s)
  BY <1>2, SubmitterIInv
<1>3. CASE \E w \in Workers : WorkerStep(w)
  BY <1>3, WorkerIInv
<1>4. CASE Terminated \/ UNCHANGED vars
  BY <1>4, StutterIInv DEF Terminated
<1>. QED
  BY <1>1, <1>2, <1>3, <1>4 DEF Next

\* The inductive invariant holds in every reachable state of the pool
THEOREM PoolInvariant == Spec => []IInv
<1>. QED
  BY InitIInv, NextIInv, PTL DEF Spec
-----------------------------------------------------------------------------
(***************************************************************************)
(* The properties that TLC checks on small pools, for every pool.          *)
(***************************************************************************)

\* The variables of the pool keep their types, and queue_size its bound
THEOREM TypeCorrect == Spec => []TypeOK
<1>1. IInv => TypeOK
  BY DEF IInv
<1>. QED
  BY <1>1, PoolInvariant, PTL

\* The critical sections of thread_pool.c exclude each other
THEOREM Exclusion == Spec => []MutualExclusion
<1>1. IInv => MutualExclusion
  BY DEF IInv
<1>. QED
  BY <1>1, PoolInvariant, PTL

\* Head, tail and size of the linked list always agree
THEOREM ListAlwaysConsistent == Spec => []ListConsistent
<1>1. IInv => ListConsistent
  BY DEF IInv
<1>. QED
  BY <1>1, PoolInvariant, PTL

\* Accepted jobs are neither lost nor copied nor handed to two workers
THEOREM JobsConserved == Spec => []JobConservation
<1>1. IInv => JobConservation
  BY DEF IInv, TypeOK, QueuedJobs, RunningJobs, JobConservation
<1>. QED
  BY <1>1, PoolInvariant, PTL

\* An orderly shutdown leaves no thread in, or on its way to, a wait
THEOREM ShutdownLeavesNoWaiter == Spec => []ShutdownWakesAll
<1>1. IInv => ShutdownWakesAll
  BY DEF IInv
<1>. QED
  BY <1>1, PoolInvariant, PTL

\* destroy_thread_pool throws no accepted job away
THEOREM ShutdownIsGraceful == Spec => []GracefulShutdown
<1>1. IInv => GracefulShutdown
  <2>. SUFFICES ASSUME IInv, cpc = "gone", NEW j \in Jobs
                PROVE  fate[j] \in {"new", "refused", "done"}
    BY DEF GracefulShutdown
  <2>1. job_queue = <<>> /\ \A w \in Workers : wpc[w] = "exited"
    BY PoolAssumption DEF IInv, Phases
  <2>2. fate[j] # "queued"
    BY <2>1 DEF IInv, QueuedJobs
  <2>3. fate[j] # "running"
    BY <2>1, PoolAssumption DEF IInv, RunningJobs
  <2>4. fate[j] # "offered"
    BY PoolAssumption DEF IInv, OfferedJobs, Phases
  <2>5. fate[j] \in Fates /\ fate[j] # "discarded"
    BY DEF IInv, TypeOK, QueuedJobs
  <2>. QED
    BY <2>2, <2>3, <2>4, <2>5 DEF Fates
<1>. QED
  BY <1>1, PoolInvariant, PTL

\* The pool is freed, on both paths, only when no thread can use it
THEOREM FreedPoolIsUnused == Spec => []FreedPoolUnused
<1>1. IInv => FreedPoolUnused
  BY PoolAssumption
  DEF IInv, TypeOK, MutualExclusion, Phases, FreedPoolUnused, Threads
<1>. QED
  BY <1>1, PoolInvariant, PTL
-----------------------------------------------------------------------------
(***************************************************************************)
(* No wakeup is lost.  The two properties are inductive relative to IInv;  *)
(* the argument counts the threads that are awake.                         *)
(***************************************************************************)

\* The sets that are counted are finite
LEMMA AwakeFinite ==
  /\ IsFiniteSet(AwakeWorkers) /\ Cardinality(AwakeWorkers) \in Nat
  /\ IsFiniteSet(AwakeSubmitters) /\ Cardinality(AwakeSubmitters) \in Nat
<1>1. AwakeWorkers \subseteq Workers /\ AwakeSubmitters \subseteq Submitters
  BY DEF AwakeWorkers, AwakeSubmitters
<1>2. IsFiniteSet(AwakeWorkers) /\ IsFiniteSet(AwakeSubmitters)
  BY <1>1, PoolAssumption, FS_Subset
<1>. QED
  BY <1>2, FS_CardinalityType

\* ... in the next state, too
LEMMA AwakeFiniteNext ==
  /\ IsFiniteSet(AwakeWorkers') /\ Cardinality(AwakeWorkers') \in Nat
  /\ IsFiniteSet(AwakeSubmitters') /\ Cardinality(AwakeSubmitters') \in Nat
<1>1. AwakeWorkers' \subseteq Workers /\ AwakeSubmitters' \subseteq Submitters
  BY DEF AwakeWorkers, AwakeSubmitters
<1>2. IsFiniteSet(AwakeWorkers') /\ IsFiniteSet(AwakeSubmitters')
  BY <1>1, PoolAssumption, FS_Subset
<1>. QED
  BY <1>2, FS_CardinalityType

\* A step that adds no job, puts no worker to sleep or to work loses nothing
LEMMA JobWakeupQuiet ==
  ASSUME IInv, NoLostJobWakeup, job_queue' = job_queue,
         queue_not_empty' \subseteq queue_not_empty,
         AwakeWorkers \subseteq AwakeWorkers'
  PROVE  NoLostJobWakeup'
<1>1. Cardinality(AwakeWorkers) <= Cardinality(AwakeWorkers')
  BY AwakeFiniteNext, FS_Subset
<1>2. Len(job_queue) \in Nat
  BY LenProperties DEF IInv, TypeOK
<1>. QED
  BY <1>1, <1>2, AwakeFinite, AwakeFiniteNext DEF NoLostJobWakeup

\* With an empty queue, or with no worker that waits, there is none to lose
LEMMA JobWakeupIdle ==
  ASSUME job_queue' = <<>> \/ queue_not_empty' = {}
  PROVE  NoLostJobWakeup'
<1>1. Len(<<>>) = 0
  BY EmptySeq
<1>. QED
  BY <1>1, AwakeFiniteNext DEF NoLostJobWakeup

\* No step of any thread loses the wakeup of a worker
LEMMA NextJobWakeup ==
  ASSUME IInv, NoLostJobWakeup, [Next]_vars
  PROVE  NoLostJobWakeup'
<1>1. CASE ControllerStep
  <2>1. CASE AbortBroadcast \/ SignalShutdown \/ DestroyShutdown
    <3>1. queue_not_empty' = {}
      BY <2>1 DEF AbortBroadcast, SignalShutdown, DestroyShutdown,
                  BroadcastBoth, Woken, queue_not_empty, IInv, TypeOK
    <3>. QED
      BY <3>1, JobWakeupIdle
  <2>2. CASE DestroyFree
    BY <2>2, JobWakeupIdle DEF DestroyFree
  <2>3. CASE Allocate \/ CreateFails \/ AbortJoin \/ CreateReturns
               \/ SignalShutdownLock \/ DestroyLock
    <3>1. wpc' = wpc /\ job_queue' = job_queue
      BY <2>3 DEF Allocate, CreateFails, AbortJoin, CreateReturns,
                  SignalShutdownLock, DestroyLock, poolvars
    <3>. QED
      BY <3>1, JobWakeupQuiet DEF queue_not_empty, AwakeWorkers
  <2>. QED
    BY <1>1, <2>1, <2>2, <2>3 DEF ControllerStep
<1>2. CASE \E s \in Submitters : SubmitterStep(s)
  <2>. PICK s \in Submitters : SubmitterStep(s)
    BY <1>2
  <2>1. CASE EnqueueAdds(s)
    <3>1. CASE queue_not_empty = {}
      BY <3>1, <2>1, JobWakeupIdle
      DEF EnqueueAdds, SignalNotEmpty, Signalled, Woken, queue_not_empty,
          IInv, TypeOK
    <3>2. CASE queue_not_empty # {}
      <4>1. PICK t \in queue_not_empty : wpc' = Woken(wpc, {t})
        BY <3>2, <2>1 DEF EnqueueAdds, SignalNotEmpty, Signalled
      <4>2. AwakeWorkers' = AwakeWorkers \cup {t} /\ t \notin AwakeWorkers
        BY <4>1 DEF AwakeWorkers, queue_not_empty, Woken, IInv, TypeOK
      <4>3. Cardinality(AwakeWorkers') = Cardinality(AwakeWorkers) + 1
        BY <4>2, AwakeFinite, FS_AddElement
      <4>4. Len(job_queue) \in Nat /\ Len(job_queue') = Len(job_queue) + 1
        BY <2>1, EnqueueAddsIInv, LenProperties
        DEF IInv, TypeOK, ListConsistent, EnqueueAdds
      <4>. QED
        BY <4>3, <4>4, <3>2, AwakeFinite DEF NoLostJobWakeup
    <3>. QED
      BY <3>1, <3>2
  <2>2. CASE \/ \E j \in Jobs : Submit(s, j)
             \/ EnqueueLock(s) \/ EnqueueRefuses(s) \/ EnqueueMustWait(s)
             \/ EnqueueWaits(s) \/ EnqueueSpuriousWakeup(s)
    <3>1. wpc' = wpc /\ job_queue' = job_queue
      BY <2>2 DEF Submit, EnqueueLock, EnqueueRefuses, EnqueueMustWait,
                  EnqueueWaits, EnqueueSpuriousWakeup, poolvars
    <3>. QED
      BY <3>1, JobWakeupQuiet DEF queue_not_empty, AwakeWorkers
  <2>. QED
    BY <2>1, <2>2 DEF SubmitterStep
<1>3. CASE \E w \in Workers : WorkerStep(w)
  <2>. PICK w \in Workers : WorkerStep(w)
    BY <1>3
  <2>1. CASE DequeueTakes(w)
    <3>1. /\ AwakeWorkers' = AwakeWorkers \ {w} /\ w \in AwakeWorkers
          /\ queue_not_empty' = queue_not_empty
      BY <2>1 DEF DequeueTakes, AwakeWorkers, queue_not_empty, IInv, TypeOK
    <3>2. Cardinality(AwakeWorkers') = Cardinality(AwakeWorkers) - 1
      BY <3>1, AwakeFinite, FS_RemoveElement
    <3>3. Len(job_queue) \in Nat /\ Len(job_queue') = Len(job_queue) - 1
      BY <2>1, DequeueTakesIInv, LenProperties
      DEF IInv, TypeOK, ListConsistent, DequeueTakes
    <3>. QED
      BY <3>1, <3>2, <3>3, AwakeFinite DEF NoLostJobWakeup
  <2>2. CASE DequeueMustWait(w) \/ DequeueWaits(w) \/ WorkerExits(w)
    <3>1. job_queue' = <<>>
      BY <2>2, WorkerIInv, EmptySeq
      DEF DequeueMustWait, DequeueWaits, WorkerExits, NothingToDequeue,
          poolvars, IInv, TypeOK, ListConsistent, SleepReason
    <3>. QED
      BY <3>1, JobWakeupIdle
  <2>3. CASE CreateWorker(w) \/ DequeueLock(w) \/ FinishSync(w)
               \/ DequeueSpuriousWakeup(w)
    <3>1. /\ job_queue' = job_queue
          /\ queue_not_empty' \subseteq queue_not_empty
          /\ AwakeWorkers \subseteq AwakeWorkers'
      BY <2>3 DEF CreateWorker, DequeueLock, FinishSync,
                  DequeueSpuriousWakeup, Woken, poolvars, queue_not_empty,
                  AwakeWorkers, IInv, TypeOK
    <3>. QED
      BY <3>1, JobWakeupQuiet
  <2>. QED
    BY <2>1, <2>2, <2>3 DEF WorkerStep
<1>4. CASE Terminated \/ UNCHANGED vars
  <2>1. wpc' = wpc /\ job_queue' = job_queue
    BY <1>4 DEF Terminated, vars
  <2>. QED
    BY <2>1, JobWakeupQuiet DEF queue_not_empty, AwakeWorkers
<1>. QED
  BY <1>1, <1>2, <1>3, <1>4 DEF Next

\* While a worker sleeps, each queued job has a worker awake of its own
THEOREM JobWakeupsKept == Spec => []NoLostJobWakeup
<1>1. Init => NoLostJobWakeup
  BY EmptySeq DEF Init, NoLostJobWakeup, queue_not_empty
<1>2. IInv /\ NoLostJobWakeup /\ [Next]_vars => NoLostJobWakeup'
  BY NextJobWakeup
<1>. QED
  BY <1>1, <1>2, PoolInvariant, PTL DEF Spec

\* A step that takes no job and lets no submitter sleep or return loses nothing
LEMMA SlotWakeupQuiet ==
  ASSUME IInv, NoLostSlotWakeup, job_queue' = job_queue,
         queue_not_full' \subseteq queue_not_full,
         AwakeSubmitters \subseteq AwakeSubmitters'
  PROVE  NoLostSlotWakeup'
<1>1. Cardinality(AwakeSubmitters) <= Cardinality(AwakeSubmitters')
  BY AwakeFiniteNext, FS_Subset
<1>2. Len(job_queue) \in Nat
  BY LenProperties DEF IInv, TypeOK
<1>. QED
  BY <1>1, <1>2, AwakeFinite, AwakeFiniteNext, PoolAssumption
  DEF NoLostSlotWakeup

\* With a full queue, or with no submitter that waits, there is none to lose
LEMMA SlotWakeupIdle ==
  ASSUME Len(job_queue') = BufferSize \/ queue_not_full' = {}
  PROVE  NoLostSlotWakeup'
  BY AwakeFiniteNext, PoolAssumption DEF NoLostSlotWakeup

\* No step of any thread loses the wakeup of a submitter
LEMMA NextSlotWakeup ==
  ASSUME IInv, NoLostSlotWakeup, [Next]_vars
  PROVE  NoLostSlotWakeup'
<1>1. CASE ControllerStep
  <2>1. CASE SignalShutdown \/ DestroyShutdown
    <3>1. queue_not_full' = {}
      BY <2>1 DEF SignalShutdown, DestroyShutdown, BroadcastBoth, Woken,
                  queue_not_full, IInv, TypeOK
    <3>. QED
      BY <3>1, SlotWakeupIdle
  <2>2. CASE DestroyFree
    <3>1. queue_not_full' = {}
      BY <2>2 DEF DestroyFree, queue_not_full, IInv, Phases
    <3>. QED
      BY <3>1, SlotWakeupIdle
  <2>3. CASE Allocate \/ CreateFails \/ AbortBroadcast \/ AbortJoin
               \/ CreateReturns \/ SignalShutdownLock \/ DestroyLock
    <3>1. spc' = spc /\ job_queue' = job_queue
      BY <2>3 DEF Allocate, CreateFails, AbortBroadcast, AbortJoin,
                  CreateReturns, SignalShutdownLock, DestroyLock, poolvars
    <3>. QED
      BY <3>1, SlotWakeupQuiet DEF queue_not_full, AwakeSubmitters
  <2>. QED
    BY <1>1, <2>1, <2>2, <2>3 DEF ControllerStep
<1>2. CASE \E s \in Submitters : SubmitterStep(s)
  <2>. PICK s \in Submitters : SubmitterStep(s)
    BY <1>2
  <2>1. CASE EnqueueAdds(s)
    <3>1. /\ AwakeSubmitters' = AwakeSubmitters \ {s} /\ s \in AwakeSubmitters
          /\ queue_not_full' = queue_not_full
      BY <2>1 DEF EnqueueAdds, AwakeSubmitters, queue_not_full, IInv, TypeOK
    <3>2. Cardinality(AwakeSubmitters') = Cardinality(AwakeSubmitters) - 1
      BY <3>1, AwakeFinite, FS_RemoveElement
    <3>3. Len(job_queue) \in Nat /\ Len(job_queue') = Len(job_queue) + 1
      BY <2>1, EnqueueAddsIInv, LenProperties
      DEF IInv, TypeOK, ListConsistent, EnqueueAdds
    <3>. QED
      BY <3>1, <3>2, <3>3, AwakeFinite, PoolAssumption DEF NoLostSlotWakeup
  <2>2. CASE EnqueueRefuses(s)
    \* the shutdown that refuses the job has woken everyone before
    <3>1. shutdown /\ spc[s] = "test"
      BY <2>2 DEF EnqueueRefuses
    <3>2. cpc \in {"stopped", "close"}
      BY <3>1 DEF IInv, TypeOK, Phases, ControllerPC
    <3>3. queue_not_full' = {}
      BY <3>1, <3>2, <2>2
      DEF EnqueueRefuses, queue_not_full, IInv, TypeOK, ShutdownWakesAll
    <3>. QED
      BY <3>3, SlotWakeupIdle
  <2>3. CASE EnqueueMustWait(s) \/ EnqueueWaits(s)
    <3>1. Len(job_queue') = BufferSize
      BY <2>3, PoolAssumption
      DEF EnqueueMustWait, EnqueueWaits, Full, poolvars, IInv, TypeOK,
          ListConsistent, SleepReason
    <3>. QED
      BY <3>1, SlotWakeupIdle
  <2>4. CASE (\E j \in Jobs : Submit(s, j)) \/ EnqueueLock(s)
               \/ EnqueueSpuriousWakeup(s)
    <3>1. /\ job_queue' = job_queue
          /\ queue_not_full' \subseteq queue_not_full
          /\ AwakeSubmitters \subseteq AwakeSubmitters'
      BY <2>4 DEF Submit, EnqueueLock, EnqueueSpuriousWakeup, Woken, poolvars,
                  queue_not_full, AwakeSubmitters, IInv, TypeOK
    <3>. QED
      BY <3>1, SlotWakeupQuiet
  <2>. QED
    BY <2>1, <2>2, <2>3, <2>4 DEF SubmitterStep
<1>3. CASE \E w \in Workers : WorkerStep(w)
  <2>. PICK w \in Workers : WorkerStep(w)
    BY <1>3
  <2>1. CASE DequeueTakes(w)
    <3>1. CASE queue_not_full = {}
      BY <3>1, <2>1, SlotWakeupIdle
      DEF DequeueTakes, SignalNotFull, Signalled, Woken, queue_not_full,
          IInv, TypeOK
    <3>2. CASE queue_not_full # {}
      <4>1. PICK t \in queue_not_full : spc' = Woken(spc, {t})
        BY <3>2, <2>1 DEF DequeueTakes, SignalNotFull, Signalled
      <4>2. /\ AwakeSubmitters' = AwakeSubmitters \cup {t}
            /\ t \notin AwakeSubmitters
        BY <4>1 DEF AwakeSubmitters, queue_not_full, Woken, IInv, TypeOK
      <4>3. Cardinality(AwakeSubmitters') = Cardinality(AwakeSubmitters) + 1
        BY <4>2, AwakeFinite, FS_AddElement
      <4>4. Len(job_queue) \in Nat /\ Len(job_queue') = Len(job_queue) - 1
        BY <2>1, DequeueTakesIInv, LenProperties
        DEF IInv, TypeOK, ListConsistent, DequeueTakes
      <4>. QED
        BY <4>3, <4>4, <3>2, AwakeFinite, PoolAssumption DEF NoLostSlotWakeup
    <3>. QED
      BY <3>1, <3>2
  <2>2. CASE \/ CreateWorker(w) \/ DequeueLock(w) \/ DequeueMustWait(w)
             \/ WorkerExits(w) \/ DequeueWaits(w) \/ FinishSync(w)
             \/ DequeueSpuriousWakeup(w)
    <3>1. spc' = spc /\ job_queue' = job_queue
      BY <2>2 DEF CreateWorker, DequeueLock, DequeueMustWait, WorkerExits,
                  DequeueWaits, FinishSync, DequeueSpuriousWakeup, poolvars
    <3>. QED
      BY <3>1, SlotWakeupQuiet DEF queue_not_full, AwakeSubmitters
  <2>. QED
    BY <2>1, <2>2 DEF WorkerStep
<1>4. CASE Terminated \/ UNCHANGED vars
  <2>1. spc' = spc /\ job_queue' = job_queue
    BY <1>4 DEF Terminated, vars
  <2>. QED
    BY <2>1, SlotWakeupQuiet DEF queue_not_full, AwakeSubmitters
<1>. QED
  BY <1>1, <1>2, <1>3, <1>4 DEF Next

\* While a submitter sleeps, each free place has a submitter awake of its own
THEOREM SlotWakeupsKept == Spec => []NoLostSlotWakeup
<1>1. Init => NoLostSlotWakeup
  BY DEF Init, NoLostSlotWakeup, queue_not_full
<1>2. IInv /\ NoLostSlotWakeup /\ [Next]_vars => NoLostSlotWakeup'
  BY NextSlotWakeup
<1>. QED
  BY <1>1, <1>2, PoolInvariant, PTL DEF Spec
-----------------------------------------------------------------------------
(***************************************************************************)
(* The pool implements the closable FIFO.                                  *)
(***************************************************************************)
\* The pool to be created is an open, empty queue that nobody serves
LEMMA InitJobQueue == Init => JQ!JQInit
<1>. SUFFICES ASSUME Init PROVE JQ!JQInit
  OBVIOUS
<1>. QED
  BY DEF Init, JQ!JQInit

\* Each step of the pool is a step of the FIFO or leaves it unchanged
LEMMA NextJobQueue ==
  ASSUME IInv, [Next]_vars
  PROVE  [JQ!JQNext]_(JQ!jqvars)
<1>. USE DEF JQ!JQNext, JQ!jqvars
<1>1. CASE ControllerStep
  <2>1. CASE CreateFails \/ SignalShutdown \/ DestroyShutdown
    <3>1. JQ!Close
      BY <2>1
      DEF CreateFails, SignalShutdown, DestroyShutdown, BroadcastBoth, Woken,
          queue_not_empty, poolvars, JQ!Close, IInv, TypeOK
    <3>. QED
      BY <3>1
  <2>2. CASE DestroyFree
    <3>1. job_queue = <<>>
      BY <2>2, PoolAssumption DEF DestroyFree, Joined, IInv, Phases
    <3>2. job_queue' = job_queue /\ fate' = fate
      BY <3>1, <2>2 DEF DestroyFree, IInv, TypeOK
    <3>. QED
      BY <3>2, <2>2 DEF DestroyFree
  <2>3. CASE AbortBroadcast
    BY <2>3 DEF AbortBroadcast, Woken, queue_not_empty, poolvars, IInv, TypeOK
  <2>4. CASE Allocate \/ AbortJoin \/ CreateReturns \/ SignalShutdownLock
               \/ DestroyLock
    BY <2>4 DEF Allocate, AbortJoin, CreateReturns, SignalShutdownLock,
                DestroyLock, poolvars
  <2>. QED
    BY <1>1, <2>1, <2>2, <2>3, <2>4 DEF ControllerStep
<1>2. CASE \E s \in Submitters : SubmitterStep(s)
  <2>. PICK s \in Submitters : SubmitterStep(s)
    BY <1>2
  <2>1. CASE \E j \in Jobs : Submit(s, j)
    <3>1. \E j \in Jobs : JQ!Offer(j)
      BY <2>1 DEF Submit, poolvars, JQ!Offer
    <3>. QED
      BY <3>1
  <2>2. CASE EnqueueRefuses(s)
    <3>1. sjob[s] \in Jobs /\ fate[sjob[s]] = "offered"
      BY <2>2 DEF EnqueueRefuses, IInv, TypeOK, OfferedJobs
    <3>2. JQ!Refuse(sjob[s])
      BY <3>1, <2>2 DEF EnqueueRefuses, poolvars, JQ!Refuse
    <3>. QED
      BY <3>1, <3>2
  <2>3. CASE EnqueueAdds(s)
    <3>1. sjob[s] \in Jobs /\ fate[sjob[s]] = "offered"
      BY <2>3 DEF EnqueueAdds, IInv, TypeOK, OfferedJobs
    <3>2. job_queue' = Append(job_queue, sjob[s])
      BY <3>1, <2>3, LinkAppends DEF EnqueueAdds, IInv, TypeOK, ListConsistent
    <3>3. Len(job_queue) < BufferSize
      BY <2>3, PoolAssumption DEF EnqueueAdds, Full, IInv, TypeOK, ListConsistent
    <3>4. {w \in Workers : wpc[w] \notin {"unborn", "exited"}}'
            = {w \in Workers : wpc[w] \notin {"unborn", "exited"}}
      BY <2>3 DEF EnqueueAdds, SignalNotEmpty, Signalled, Woken,
                  queue_not_empty, IInv, TypeOK
    <3>5. JQ!Put(sjob[s])
      BY <3>1, <3>2, <3>3, <3>4, <2>3 DEF EnqueueAdds, JQ!Put
    <3>. QED
      BY <3>1, <3>5
  <2>4. CASE EnqueueLock(s) \/ EnqueueMustWait(s) \/ EnqueueWaits(s)
               \/ EnqueueSpuriousWakeup(s)
    BY <2>4 DEF EnqueueLock, EnqueueMustWait, EnqueueWaits,
                EnqueueSpuriousWakeup, poolvars
  <2>. QED
    BY <2>1, <2>2, <2>3, <2>4 DEF SubmitterStep
<1>3. CASE \E w \in Workers : WorkerStep(w)
  <2>. PICK w \in Workers : WorkerStep(w)
    BY <1>3
  <2>1. CASE CreateWorker(w)
    <3>1. JQ!Hire(w)
      BY <2>1 DEF CreateWorker, poolvars, JQ!Hire, IInv, TypeOK
    <3>. QED
      BY <3>1
  <2>2. CASE DequeueTakes(w)
    <3>1. Head(job_queue) \in Jobs /\ wjob[w] = NULL
      BY <2>2, TailIndices DEF DequeueTakes, IInv, TypeOK, RunningJobs
    <3>2. {v \in Workers : wpc[v] \notin {"unborn", "exited"}}'
            = {v \in Workers : wpc[v] \notin {"unborn", "exited"}}
      BY <2>2 DEF DequeueTakes, IInv, TypeOK
    <3>3. [v \in Workers |-> {wjob[v]} \ {NULL}]'
            = [[v \in Workers |-> {wjob[v]} \ {NULL}]
                 EXCEPT ![w] = {Head(job_queue)}]
      BY <3>1, <2>2, PoolAssumption DEF DequeueTakes, IInv, TypeOK
    <3>4. JQ!Take(w)
      BY <3>1, <3>2, <3>3, <2>2 DEF DequeueTakes, JQ!Take
    <3>. QED
      BY <3>4
  <2>3. CASE FinishSync(w)
    <3>1. wjob[w] \in Jobs /\ wjob[w] # NULL
      BY <2>3 DEF FinishSync, IInv, TypeOK, RunningJobs
    <3>2. JQ!Finish(w)
      BY <3>1, <2>3 DEF FinishSync, poolvars, JQ!Finish, IInv, TypeOK
    <3>. QED
      BY <3>2
  <2>4. CASE WorkerExits(w)
    <3>1. shutdown /\ job_queue = <<>> /\ wjob[w] = NULL
      BY <2>4, EmptySeq
      DEF WorkerExits, NothingToDequeue, IInv, TypeOK, ListConsistent,
          RunningJobs
    <3>2. JQ!Retire(w)
      BY <3>1, <2>4 DEF WorkerExits, poolvars, JQ!Retire, IInv, TypeOK
    <3>. QED
      BY <3>2
  <2>5. CASE DequeueLock(w) \/ DequeueMustWait(w) \/ DequeueWaits(w)
               \/ DequeueSpuriousWakeup(w)
    BY <2>5 DEF DequeueLock, DequeueMustWait, DequeueWaits,
                DequeueSpuriousWakeup, Woken, queue_not_empty, poolvars,
                IInv, TypeOK
  <2>. QED
    BY <2>1, <2>2, <2>3, <2>4, <2>5 DEF WorkerStep
<1>4. CASE Terminated \/ UNCHANGED vars
  BY <1>4 DEF Terminated, vars
<1>. QED
  BY <1>1, <1>2, <1>3, <1>4 DEF Next

\* The pool of threads, mutex, conditions and linked list is a closable FIFO
THEOREM PoolIsJobQueue == Spec => ImplementsJobQueue
<1>1. IInv /\ [Next]_vars => [JQ!JQNext]_(JQ!jqvars)
  BY NextJobQueue
<1>. QED
  BY <1>1, InitJobQueue, PoolInvariant, PTL
  DEF Spec, ImplementsJobQueue, JQ!JQSpec
=============================================================================
