----------------------------- MODULE ThreadPool -----------------------------
(***************************************************************************)
(* src/thread_pool.c: the pool of worker threads and its bounded job       *)
(* queue.  The threads are                                                 *)
(*   - the workers (worker_thread), which dequeue a job, synchronise one   *)
(*     file and start over;                                                *)
(*   - the submitters, threads that call enqueue_sync_job;                 *)
(*   - the controller, the thread that calls create_thread_pool,           *)
(*     signal_shutdown and destroy_thread_pool.                            *)
(*                                                                         *)
(* The grain of a step is what another thread can see: to acquire          *)
(* queue_mutex is a step, to test the condition of the wait loop under it  *)
(* is a step, and pthread_cond_wait (release the mutex and start to wait,  *)
(* atomically) is a step.  The distinction matters because the error path  *)
(* of create_thread_pool sets `shutdown' and broadcasts WITHOUT the mutex. *)
(* A critical section that does not wait ends with its unlock, in the step *)
(* of its test.  A waiting thread may wake up spuriously, as POSIX allows. *)
(*                                                                         *)
(* sync_single_file is here a step that takes some time; its protocol is   *)
(* in FileTransfer.                                                        *)
(*                                                                         *)
(* Definitions that no action uses (FullBeyondBound, SignalNoPut, ...) are *)
(* plausible faults of the definition that follows them, kept to show that *)
(* each property would notice one.                                         *)
(***************************************************************************)
EXTENDS Naturals, Sequences, FiniteSets

CONSTANTS Workers,      \* the thread_count slots of pool->threads
          Submitters,   \* the threads that call enqueue_sync_job
          Jobs,         \* the jobs made by create_sync_job over a run
          BufferSize,   \* pool->buffer_size
          Controller,   \* the thread that creates and destroys the pool
          NoThread,     \* the owner of a free mutex
          NULL          \* the null job pointer

\* parse_arguments accepts only worker_limit > 0 and buffer_size > 0
ASSUME PoolAssumption ==
  /\ IsFiniteSet(Workers) /\ Workers # {}
  /\ IsFiniteSet(Submitters)
  /\ BufferSize \in Nat \ {0}
  /\ Workers \cap Submitters = {}
  /\ {Controller, NoThread} \cap (Workers \cup Submitters) = {}
  /\ Controller # NoThread
  /\ NULL \notin Jobs

VARIABLES cpc,             \* where the controller is
          wpc,             \* where each worker is
          spc,             \* where each submitter is
          queue_mutex,     \* the thread that holds the mutex, or NoThread
          job_queue,       \* the jobs reached from job_queue_head by next
          job_queue_tail,  \* the last job of the list, or NULL
          queue_size,
          shutdown,
          wjob,            \* the local `job' of each worker
          sjob,            \* the argument `job' of each submitter's call
          fate             \* history: what became of each job

poolvars == <<job_queue, job_queue_tail, queue_size>>
vars == <<cpc, wpc, spc, queue_mutex, job_queue, job_queue_tail, queue_size,
          shutdown, wjob, sjob, fate>>

(***************************************************************************)
(* A thread that is in "lock" asks for queue_mutex; in "test" it holds it  *)
(* and is about to evaluate the condition of its wait loop; in "sleep" it  *)
(* has found that it must wait and still holds the mutex; in "blocked" it  *)
(* is inside pthread_cond_wait.                                            *)
(***************************************************************************)
WorkerPC == {"unborn", "lock", "test", "sleep", "blocked", "sync", "exited"}
SubmitterPC == {"idle", "lock", "test", "sleep", "blocked"}
ControllerPC == {"alloc", "create", "broadcast", "unwind", "null",
                 "run", "signal", "stopped", "close", "join", "gone"}
Fates == {"new", "offered", "queued", "running", "done", "refused",
          "discarded"}

Threads == Workers \cup Submitters \cup {Controller}

\* The threads that wait on each of the two condition variables
queue_not_empty == {w \in Workers : wpc[w] = "blocked"}
queue_not_full == {s \in Submitters : spc[s] = "blocked"}

created == {w \in Workers : wpc[w] # "unborn"}

\* pthread_cond_signal unblocks one waiting thread, if there is one
Signalled(waiting) == IF waiting = {} THEN {{}} ELSE {{t} : t \in waiting}

\* A thread that is woken asks for the mutex again
Woken(pc, woken) == [t \in DOMAIN pc |-> IF t \in woken THEN "lock" ELSE pc[t]]

LockedBy(t) == queue_mutex = NoThread /\ queue_mutex' = t
Unlock == queue_mutex' = NoThread

Init ==
  /\ cpc = "alloc"
  /\ wpc = [w \in Workers |-> "unborn"]
  /\ spc = [s \in Submitters |-> "idle"]
  /\ queue_mutex = NoThread
  /\ job_queue = <<>>
  /\ job_queue_tail = NULL
  /\ queue_size = 0
  /\ shutdown = FALSE
  /\ wjob = [w \in Workers |-> NULL]
  /\ sjob = [s \in Submitters |-> NULL]
  /\ fate = [j \in Jobs |-> "new"]
-----------------------------------------------------------------------------
(***************************************************************************)
(* create_thread_pool                                                      *)
(***************************************************************************)

\* malloc and the initialisation of the mutex and the conditions: on a
\* failure everything made so far is undone and NULL is returned
Allocate ==
  /\ cpc = "alloc"
  /\ cpc' \in {"create", "null"}
  /\ UNCHANGED <<wpc, spc, queue_mutex, poolvars, shutdown, wjob, sjob, fate>>

CreateWorker(w) ==
  /\ cpc = "create"
  /\ wpc[w] = "unborn"
  /\ wpc' = [wpc EXCEPT ![w] = "lock"]
  /\ UNCHANGED <<cpc, spc, queue_mutex, poolvars, shutdown, wjob, sjob, fate>>

\* pthread_create fails: shutdown is set without the mutex
CreateFails ==
  /\ cpc = "create"
  /\ created # Workers
  /\ shutdown' = TRUE
  /\ cpc' = "broadcast"
  /\ UNCHANGED <<wpc, spc, queue_mutex, poolvars, wjob, sjob, fate>>

\* ... and so is the broadcast that is to wake the workers made so far
AbortBroadcast ==
  /\ cpc = "broadcast"
  /\ wpc' = Woken(wpc, queue_not_empty)
  /\ cpc' = "unwind"
  /\ UNCHANGED <<spc, queue_mutex, poolvars, shutdown, wjob, sjob, fate>>

\* the workers made so far are joined, the pool is freed, NULL is returned
AbortJoin ==
  /\ cpc = "unwind"
  /\ \A w \in created : wpc[w] = "exited"
  /\ cpc' = "null"
  /\ UNCHANGED <<wpc, spc, queue_mutex, poolvars, shutdown, wjob, sjob, fate>>

CreateReturns ==
  /\ cpc = "create"
  /\ created = Workers
  /\ cpc' = "run"
  /\ UNCHANGED <<wpc, spc, queue_mutex, poolvars, shutdown, wjob, sjob, fate>>
-----------------------------------------------------------------------------
(***************************************************************************)
(* signal_shutdown and destroy_thread_pool.  Both set `shutdown' and wake  *)
(* everyone under the mutex.  destroy_thread_pool frees the pool, so its   *)
(* caller must know that no thread is in enqueue_sync_job or will call it; *)
(* in nfs_manager the caller is the only submitter itself.                 *)
(***************************************************************************)
BroadcastNotEmptyOnly ==
  /\ wpc' = Woken(wpc, queue_not_empty)
  /\ UNCHANGED spc

SignalNotBroadcast ==
  /\ \E woken \in Signalled(queue_not_empty) : wpc' = Woken(wpc, woken)
  /\ \E woken \in Signalled(queue_not_full) : spc' = Woken(spc, woken)

BroadcastBoth ==
  /\ wpc' = Woken(wpc, queue_not_empty)
  /\ spc' = Woken(spc, queue_not_full)

SignalShutdownLock ==
  /\ cpc = "run"
  /\ LockedBy(Controller)
  /\ cpc' = "signal"
  /\ UNCHANGED <<wpc, spc, poolvars, shutdown, wjob, sjob, fate>>

SignalShutdown ==
  /\ cpc = "signal"
  /\ shutdown' = TRUE
  /\ BroadcastBoth
  /\ Unlock
  /\ cpc' = "stopped"
  /\ UNCHANGED <<poolvars, wjob, sjob, fate>>

DestroyLock ==
  /\ cpc \in {"run", "stopped"}
  /\ \A s \in Submitters : spc[s] = "idle"
  /\ LockedBy(Controller)
  /\ cpc' = "close"
  /\ UNCHANGED <<wpc, spc, poolvars, shutdown, wjob, sjob, fate>>

DestroyShutdown ==
  /\ cpc = "close"
  /\ shutdown' = TRUE
  /\ BroadcastBoth
  /\ Unlock
  /\ cpc' = "join"
  /\ UNCHANGED <<poolvars, wjob, sjob, fate>>

\* What joining only the first of the threads would wait for
JoinedOne == \E w \in Workers : wpc[w] = "exited"

\* The join loop is over once every thread has returned
Joined == \A w \in Workers : wpc[w] = "exited"

\* All threads are joined; jobs left in the list are freed, then the pool
DestroyFree ==
  /\ cpc = "join"
  /\ Joined
  /\ queue_mutex = NoThread
  /\ job_queue' = <<>>
  /\ fate' = [j \in Jobs |-> IF \E i \in DOMAIN job_queue : job_queue[i] = j
                              THEN "discarded" ELSE fate[j]]
  /\ cpc' = "gone"
  /\ UNCHANGED <<wpc, spc, queue_mutex, job_queue_tail, queue_size, shutdown,
                 wjob, sjob>>
-----------------------------------------------------------------------------
(***************************************************************************)
(* enqueue_sync_job                                                        *)
(***************************************************************************)

\* The caller made a job with create_sync_job and passes it on
Submit(s, j) ==
  /\ cpc \in {"run", "signal", "stopped"}
  /\ spc[s] = "idle"
  /\ fate[j] = "new"
  /\ fate' = [fate EXCEPT ![j] = "offered"]
  /\ sjob' = [sjob EXCEPT ![s] = j]
  /\ spc' = [spc EXCEPT ![s] = "lock"]
  /\ UNCHANGED <<cpc, wpc, queue_mutex, poolvars, shutdown, wjob>>

EnqueueLock(s) ==
  /\ spc[s] = "lock"
  /\ LockedBy(s)
  /\ spc' = [spc EXCEPT ![s] = "test"]
  /\ UNCHANGED <<cpc, wpc, poolvars, shutdown, wjob, sjob, fate>>

FullBeyondBound == queue_size > BufferSize

Full == queue_size >= BufferSize

\* shutdown: the job stays the caller's, who frees it
EnqueueRefuses(s) ==
  /\ spc[s] = "test"
  /\ shutdown
  /\ fate' = [fate EXCEPT ![sjob[s]] = "refused"]
  /\ sjob' = [sjob EXCEPT ![s] = NULL]
  /\ spc' = [spc EXCEPT ![s] = "idle"]
  /\ Unlock
  /\ UNCHANGED <<cpc, wpc, poolvars, shutdown, wjob>>

EnqueueMustWait(s) ==
  /\ spc[s] = "test"
  /\ Full /\ ~shutdown
  /\ spc' = [spc EXCEPT ![s] = "sleep"]
  /\ UNCHANGED <<cpc, wpc, queue_mutex, poolvars, shutdown, wjob, sjob, fate>>

LinkAlwaysAtHead(queue, tail, j) == <<j>>

(***************************************************************************)
(* `if (tail) tail->next = job; else head = job;': when the tail pointer   *)
(* is not the last job of the list, the new job hangs off a job that is no *)
(* longer in it and cannot be reached from the head.                       *)
(***************************************************************************)
Link(queue, tail, j) ==
  IF tail = NULL THEN <<j>>
  ELSE IF queue # <<>> /\ tail = queue[Len(queue)] THEN Append(queue, j)
  ELSE queue

\* A put that signals only when it makes the empty queue non-empty
SignalFirstPutOnly ==
  \E woken \in IF queue_size = 0 THEN Signalled(queue_not_empty) ELSE {{}} :
    wpc' = Woken(wpc, woken)

\* A put that forgets to signal
SignalNoPut == UNCHANGED wpc

\* pthread_cond_signal(&pool->queue_not_empty)
SignalNotEmpty ==
  \E woken \in Signalled(queue_not_empty) : wpc' = Woken(wpc, woken)

EnqueueAdds(s) ==
  /\ spc[s] = "test"
  /\ ~Full /\ ~shutdown
  /\ job_queue' = Link(job_queue, job_queue_tail, sjob[s])
  /\ job_queue_tail' = sjob[s]
  /\ queue_size' = queue_size + 1
  /\ fate' = [fate EXCEPT ![sjob[s]] = "queued"]
  /\ SignalNotEmpty
  /\ Unlock
  /\ sjob' = [sjob EXCEPT ![s] = NULL]
  /\ spc' = [spc EXCEPT ![s] = "idle"]
  /\ UNCHANGED <<cpc, shutdown, wjob>>

\* pthread_cond_wait(&pool->queue_not_full, &pool->queue_mutex)
EnqueueWaits(s) ==
  /\ spc[s] = "sleep"
  /\ spc' = [spc EXCEPT ![s] = "blocked"]
  /\ Unlock
  /\ UNCHANGED <<cpc, wpc, poolvars, shutdown, wjob, sjob, fate>>

EnqueueSpuriousWakeup(s) ==
  /\ s \in queue_not_full
  /\ spc' = Woken(spc, {s})
  /\ UNCHANGED <<cpc, wpc, queue_mutex, poolvars, shutdown, wjob, sjob, fate>>
-----------------------------------------------------------------------------
(***************************************************************************)
(* worker_thread and dequeue_sync_job                                      *)
(***************************************************************************)

\* A dequeue that does not take the mutex
DequeueWithoutLock(w) ==
  /\ wpc[w] = "lock"
  /\ queue_mutex' = w
  /\ wpc' = [wpc EXCEPT ![w] = "test"]
  /\ UNCHANGED <<cpc, spc, poolvars, shutdown, wjob, sjob, fate>>

DequeueLock(w) ==
  /\ wpc[w] = "lock"
  /\ LockedBy(w)
  /\ wpc' = [wpc EXCEPT ![w] = "test"]
  /\ UNCHANGED <<cpc, spc, poolvars, shutdown, wjob, sjob, fate>>

DequeueMustWait(w) ==
  /\ wpc[w] = "test"
  /\ queue_size = 0 /\ ~shutdown
  /\ wpc' = [wpc EXCEPT ![w] = "sleep"]
  /\ UNCHANGED <<cpc, spc, queue_mutex, poolvars, shutdown, wjob, sjob, fate>>

\* A dequeue that gives up as soon as the pool shuts down
ExitOnShutdown == shutdown

\* A dequeue that tests the condition with `if' instead of `while'
ExitOnEmpty == queue_size = 0

(***************************************************************************)
(* dequeue_sync_job returns NULL, and the worker leaves its loop, when the *)
(* pool is shut down and empty, or else when the list has no head.         *)
(***************************************************************************)
NothingToDequeue ==
  /\ queue_size = 0 => shutdown
  /\ queue_size # 0 => job_queue = <<>>

WorkerExits(w) ==
  /\ wpc[w] = "test"
  /\ NothingToDequeue
  /\ wpc' = [wpc EXCEPT ![w] = "exited"]
  /\ Unlock
  /\ UNCHANGED <<cpc, spc, poolvars, shutdown, wjob, sjob, fate>>

TailKept(queue, tail) == tail

\* `if (!head) tail = NULL', after the head was moved on
TailAfterUnlink(queue, tail) == IF Tail(queue) = <<>> THEN NULL ELSE tail

\* A take that signals only when it makes room in a full queue
SignalFirstTakeOnly ==
  \E woken \in IF Full THEN Signalled(queue_not_full) ELSE {{}} :
    spc' = Woken(spc, woken)

\* A take that forgets to signal
SignalNoTake == UNCHANGED spc

\* pthread_cond_signal(&pool->queue_not_full)
SignalNotFull ==
  \E woken \in Signalled(queue_not_full) : spc' = Woken(spc, woken)

DequeueTakes(w) ==
  /\ wpc[w] = "test"
  /\ queue_size # 0 /\ job_queue # <<>>
  /\ job_queue' = Tail(job_queue)
  /\ job_queue_tail' = TailAfterUnlink(job_queue, job_queue_tail)
  /\ queue_size' = queue_size - 1
  /\ wjob' = [wjob EXCEPT ![w] = Head(job_queue)]
  /\ fate' = [fate EXCEPT ![Head(job_queue)] = "running"]
  /\ SignalNotFull
  /\ Unlock
  /\ wpc' = [wpc EXCEPT ![w] = "sync"]
  /\ UNCHANGED <<cpc, shutdown, sjob>>

\* pthread_cond_wait(&pool->queue_not_empty, &pool->queue_mutex)
DequeueWaits(w) ==
  /\ wpc[w] = "sleep"
  /\ wpc' = [wpc EXCEPT ![w] = "blocked"]
  /\ Unlock
  /\ UNCHANGED <<cpc, spc, poolvars, shutdown, wjob, sjob, fate>>

DequeueSpuriousWakeup(w) ==
  /\ w \in queue_not_empty
  /\ wpc' = Woken(wpc, {w})
  /\ UNCHANGED <<cpc, spc, queue_mutex, poolvars, shutdown, wjob, sjob, fate>>

\* sync_single_file returns, whatever its result; the job is freed and the
\* loop goes on with the next dequeue
FinishSync(w) ==
  /\ wpc[w] = "sync"
  /\ fate' = [fate EXCEPT ![wjob[w]] = "done"]
  /\ wjob' = [wjob EXCEPT ![w] = NULL]
  /\ wpc' = [wpc EXCEPT ![w] = "lock"]
  /\ UNCHANGED <<cpc, spc, queue_mutex, poolvars, shutdown, sjob>>
-----------------------------------------------------------------------------
\* create_thread_pool returned NULL or the pool was freed: nothing is left
Terminated ==
  /\ cpc \in {"null", "gone"}
  /\ UNCHANGED vars

ControllerStep ==
  \/ Allocate \/ CreateFails \/ AbortBroadcast \/ AbortJoin \/ CreateReturns
  \/ SignalShutdownLock \/ SignalShutdown
  \/ DestroyLock \/ DestroyShutdown \/ DestroyFree

SubmitterStep(s) ==
  \/ \E j \in Jobs : Submit(s, j)
  \/ EnqueueLock(s) \/ EnqueueRefuses(s) \/ EnqueueMustWait(s)
  \/ EnqueueAdds(s) \/ EnqueueWaits(s) \/ EnqueueSpuriousWakeup(s)

WorkerStep(w) ==
  \/ CreateWorker(w)
  \/ DequeueLock(w) \/ DequeueMustWait(w) \/ WorkerExits(w)
  \/ DequeueTakes(w) \/ DequeueWaits(w) \/ DequeueSpuriousWakeup(w)
  \/ FinishSync(w)

Next ==
  \/ ControllerStep
  \/ \E s \in Submitters : SubmitterStep(s)
  \/ \E w \in Workers : WorkerStep(w)
  \/ Terminated

Spec == Init /\ [][Next]_vars

(***************************************************************************)
(* Fairness.  Every thread goes on while it can (weak fairness): the pool  *)
(* is created without a break, critical sections end, sync_single_file     *)
(* returns.  A thread that keeps asking for the mutex gets it some time    *)
(* (strong fairness), which the futex under pthread_mutex_lock gives in    *)
(* practice; without it one thread that keeps waking up spuriously could   *)
(* starve the others.  Nothing says that jobs are submitted, that the pool *)
(* is shut down, or that a spurious wakeup ever happens.                   *)
(***************************************************************************)
Fairness ==
  /\ WF_vars(Allocate) /\ WF_vars(AbortBroadcast) /\ WF_vars(AbortJoin)
  /\ WF_vars(CreateReturns)
  /\ WF_vars(\E w \in Workers : CreateWorker(w))
  /\ WF_vars(SignalShutdown) /\ WF_vars(DestroyShutdown)
  /\ WF_vars(DestroyFree)
  /\ \A s \in Submitters :
       /\ SF_vars(EnqueueLock(s))
       /\ WF_vars(EnqueueRefuses(s) \/ EnqueueMustWait(s)
                    \/ EnqueueAdds(s) \/ EnqueueWaits(s))
  /\ \A w \in Workers :
       /\ SF_vars(DequeueLock(w))
       /\ WF_vars(DequeueMustWait(w) \/ WorkerExits(w) \/ DequeueTakes(w)
                    \/ DequeueWaits(w) \/ FinishSync(w))

FairSpec == Spec /\ Fairness
-----------------------------------------------------------------------------
(***************************************************************************)
(* Type invariant: the bound of the queue holds, too (enqueue_sync_job).   *)
(***************************************************************************)
TypeOK ==
  /\ cpc \in ControllerPC
  /\ wpc \in [Workers -> WorkerPC]
  /\ spc \in [Submitters -> SubmitterPC]
  /\ queue_mutex \in Threads \cup {NoThread}
  /\ job_queue \in Seq(Jobs)
  /\ job_queue_tail \in Jobs \cup {NULL}
  /\ queue_size \in 0..BufferSize
  /\ shutdown \in BOOLEAN
  /\ wjob \in [Workers -> Jobs \cup {NULL}]
  /\ sjob \in [Submitters -> Jobs \cup {NULL}]
  /\ fate \in [Jobs -> Fates]

(***************************************************************************)
(* A thread that is between pthread_mutex_lock and the unlock or the wait  *)
(* that follows is the owner of the mutex, so no two threads ever work on  *)
(* the list at once, whichever path they took into the critical section.   *)
(***************************************************************************)
MutualExclusion ==
  /\ \A w \in Workers : wpc[w] \in {"test", "sleep"} <=> queue_mutex = w
  /\ \A s \in Submitters : spc[s] \in {"test", "sleep"} <=> queue_mutex = s
  /\ cpc \in {"signal", "close"} <=> queue_mutex = Controller

(***************************************************************************)
(* The three descriptions of the queue agree: job_queue_tail is the last   *)
(* job of the list that starts at job_queue_head (NULL when it is empty),  *)
(* and queue_size counts its jobs.                                         *)
(***************************************************************************)
ListConsistent ==
  /\ queue_size = Len(job_queue)
  /\ job_queue_tail = IF job_queue = <<>> THEN NULL
                      ELSE job_queue[Len(job_queue)]

(***************************************************************************)
(* No job is lost, copied or handed to two workers: a job enqueue_sync_job *)
(* accepted is once in the list until dequeue_sync_job hands it out, then  *)
(* in the hands of exactly one worker until that one frees it.             *)
(***************************************************************************)
JobConservation ==
  /\ \A j \in Jobs :
       fate[j] = "queued" <=> \E i \in DOMAIN job_queue : job_queue[i] = j
  /\ \A i, k \in DOMAIN job_queue : job_queue[i] = job_queue[k] => i = k
  /\ \A j \in Jobs : fate[j] = "running" => \E w \in Workers : wjob[w] = j
  /\ \A w \in Workers :
       wpc[w] = "sync" <=> (wjob[w] # NULL /\ fate[wjob[w]] = "running")
  /\ \A v, w \in Workers : wjob[v] = wjob[w] /\ wjob[v] # NULL => v = w

(***************************************************************************)
(* No wakeup of a worker is lost: while some worker sits in the wait of    *)
(* dequeue_sync_job, each queued job has a worker of its own that is awake *)
(* and on its way to the test, so no job waits for a worker that sleeps.   *)
(***************************************************************************)
AwakeWorkers == {w \in Workers : wpc[w] \in {"lock", "test"}}
NoLostJobWakeup ==
  queue_not_empty # {} => Len(job_queue) <= Cardinality(AwakeWorkers)

(***************************************************************************)
(* No wakeup of a submitter is lost: while some thread sits in the wait of *)
(* enqueue_sync_job, each free place of the queue has a submitter of its   *)
(* own that is awake and on its way to the test.                           *)
(***************************************************************************)
AwakeSubmitters == {s \in Submitters : spc[s] \in {"lock", "test"}}
NoLostSlotWakeup ==
  queue_not_full # {} =>
    BufferSize <= Len(job_queue) + Cardinality(AwakeSubmitters)

(***************************************************************************)
(* Once signal_shutdown or destroy_thread_pool has set the flag, no thread *)
(* is in a wait, or about to enter one, that nothing would end.            *)
(***************************************************************************)
ShutdownWakesAll ==
  cpc \in {"stopped", "close", "join", "gone"} /\ shutdown =>
    /\ \A w \in Workers : wpc[w] \notin {"sleep", "blocked"}
    /\ \A s \in Submitters : spc[s] \notin {"sleep", "blocked"}

(***************************************************************************)
(* Graceful shutdown: when destroy_thread_pool returns, every job that was *)
(* accepted has been worked on.  Its loop over the jobs left in the queue  *)
(* finds none, because the workers empty the queue before they exit.       *)
(***************************************************************************)
GracefulShutdown ==
  cpc = "gone" => \A j \in Jobs : fate[j] \in {"new", "refused", "done"}

(***************************************************************************)
(* When the pool, its mutex and its conditions are freed (by the error     *)
(* path of create_thread_pool or by destroy_thread_pool) no thread holds   *)
(* the mutex, waits on a condition or will touch the pool again.           *)
(***************************************************************************)
FreedPoolUnused ==
  cpc \in {"null", "gone"} =>
    /\ queue_mutex = NoThread
    /\ \A w \in Workers : wpc[w] \in {"unborn", "exited"}
    /\ \A s \in Submitters : spc[s] = "idle"

(***************************************************************************)
(* The pool implements the closable FIFO of JobQueue: jobs are handed out  *)
(* in the order they were accepted, never more than BufferSize wait, none  *)
(* is refused before the shutdown or accepted after it, and no worker      *)
(* leaves before the queue is closed and empty.                            *)
(***************************************************************************)
JQ == INSTANCE JobQueue WITH
        Capacity <- BufferSize,
        queue <- job_queue,
        closed <- shutdown,
        hand <- [w \in Workers |-> {wjob[w]} \ {NULL}],
        hired <- {w \in Workers : wpc[w] \notin {"unborn", "exited"}}
ImplementsJobQueue == JQ!JQSpec

(***************************************************************************)
(* destroy_thread_pool returns.                                            *)
(***************************************************************************)
DestroyCompletes == cpc = "join" ~> cpc = "gone"

(***************************************************************************)
(* Every job that enqueue_sync_job accepted is worked on.                  *)
(***************************************************************************)
AcceptedJobsSynced == \A j \in Jobs : fate[j] = "queued" ~> fate[j] = "done"

(***************************************************************************)
(* enqueue_sync_job blocks only until there is space or a shutdown: each   *)
(* call returns.                                                           *)
(***************************************************************************)
EnqueueReturns == \A s \in Submitters : spc[s] = "lock" ~> spc[s] = "idle"

(***************************************************************************)
(* create_thread_pool returns, with the pool or with NULL (the contract in *)
(* thread_pool.h).                                                         *)
(***************************************************************************)
CreateCompletes == cpc = "create" ~> cpc \in {"run", "null"}
=============================================================================
