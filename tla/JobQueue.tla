------------------------------ MODULE JobQueue ------------------------------
(***************************************************************************)
(* What the thread pool promises, without threads of control, mutex,       *)
(* condition variables or linked list: a bounded FIFO of synchronisation   *)
(* jobs that can be closed.  Every job that is put into the queue is taken *)
(* by exactly one worker, in the order of the puts; closing the queue      *)
(* refuses later jobs, lets the workers empty it, and only then lets them  *)
(* retire.  No job that was put is ever thrown away.                       *)
(*                                                                         *)
(* ThreadPool implements this module (ThreadPool!ImplementsJobQueue).      *)
(***************************************************************************)
EXTENDS Naturals, Sequences

CONSTANTS Jobs,        \* the sync_job_t objects that exist over a run
          Workers,     \* the slots of pool->threads
          Capacity     \* pool->buffer_size

VARIABLES queue,       \* the jobs that wait, oldest first
          closed,      \* shutdown was requested
          fate,        \* what became of each job
          hand,        \* the job a worker is busy with, as a set of <= 1 job
          hired        \* the workers that serve the queue

jqvars == <<queue, closed, fate, hand, hired>>

(***************************************************************************)
(* "new": not created yet, "offered": in a call of enqueue_sync_job,       *)
(* "queued", "running", "done": sync_single_file returned and the job was  *)
(* freed, "refused": enqueue_sync_job returned -1.                         *)
(***************************************************************************)
Fates == {"new", "offered", "queued", "running", "done", "refused"}

JQInit ==
  /\ queue = <<>>
  /\ closed = FALSE
  /\ fate = [j \in Jobs |-> "new"]
  /\ hand = [w \in Workers |-> {}]
  /\ hired = {}

Hire(w) ==
  /\ w \notin hired
  /\ hired' = hired \cup {w}
  /\ UNCHANGED <<queue, closed, fate, hand>>

Offer(j) ==
  /\ fate[j] = "new"
  /\ fate' = [fate EXCEPT ![j] = "offered"]
  /\ UNCHANGED <<queue, closed, hand, hired>>

Put(j) ==
  /\ ~closed
  /\ fate[j] = "offered"
  /\ Len(queue) < Capacity
  /\ queue' = Append(queue, j)
  /\ fate' = [fate EXCEPT ![j] = "queued"]
  /\ UNCHANGED <<closed, hand, hired>>

Refuse(j) ==
  /\ closed
  /\ fate[j] = "offered"
  /\ fate' = [fate EXCEPT ![j] = "refused"]
  /\ UNCHANGED <<queue, closed, hand, hired>>

Take(w) ==
  /\ w \in hired
  /\ hand[w] = {}
  /\ queue # <<>>
  /\ queue' = Tail(queue)
  /\ fate' = [fate EXCEPT ![Head(queue)] = "running"]
  /\ hand' = [hand EXCEPT ![w] = {Head(queue)}]
  /\ UNCHANGED <<closed, hired>>

Finish(w) ==
  /\ \E j \in hand[w] : fate' = [fate EXCEPT ![j] = "done"]
  /\ hand' = [hand EXCEPT ![w] = {}]
  /\ UNCHANGED <<queue, closed, hired>>

Close ==
  /\ closed' = TRUE
  /\ UNCHANGED <<queue, fate, hand, hired>>

Retire(w) ==
  /\ w \in hired
  /\ closed
  /\ queue = <<>>
  /\ hand[w] = {}
  /\ hired' = hired \ {w}
  /\ UNCHANGED <<queue, closed, fate, hand>>

JQNext ==
  \/ Close
  \/ \E j \in Jobs : Offer(j) \/ Put(j) \/ Refuse(j)
  \/ \E w \in Workers : Hire(w) \/ Take(w) \/ Finish(w) \/ Retire(w)

JQSpec == JQInit /\ [][JQNext]_jqvars
=============================================================================
