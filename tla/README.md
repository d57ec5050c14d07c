# A TLA+ model of NFS-System

This directory holds TLA+ modules that model NFS-System, a file synchroniser
written in C: a manager with a pool of worker threads copies files between
client processes over TCP. TLC checks the modules on small instances, TLAPS
proves their safety properties for every instance. All paths below are
relative to the repository, whose root is `src/`; so `src/thread_pool.c` is
listed in `PROJECT.json` as `src/src/thread_pool.c`.

## 1. The system

| Component | State | Operations |
|---|---|---|
| thread pool (`src/thread_pool.c`) | linked list of jobs (`job_queue_head`, `job_queue_tail`, `queue_size`), `shutdown`, a mutex, two condition variables, the worker threads | `create_thread_pool`, `enqueue_sync_job`, `dequeue_sync_job`, `worker_thread`, `signal_shutdown`, `destroy_thread_pool` |
| file transfer (`sync_single_file` in `src/thread_pool.c`) | two sockets, `file_size`, `total_transferred` | PULL from the source client, PUSH to the target client |
| client (`src/nfs_client.c`, `src/nfs_client_logic.c`) | the connection it serves, the file it writes (`static current_fd`), its files | accept loop, LIST, PULL, PUSH |
| manager (`src/nfs_manager.c`, `src/nfs_manager_logic.c`) | log file, store, pool, shutdown flags | initialisation, configuration, `add`, `cancel`, `shutdown`, signals, cleanup |
| store (`src/sync_info.c`) | linked list of sync pairs, `count`, a mutex | create, add, find, remove, deactivate, count, destroy (remove and count are offered and not used) |
| console (`src/nfs_console.c`) | a socket, a log file | parses a line, sends it, prints one answer |
| utilities (`src/utils.c`) | none | sockets, logging, parsing of `/path@host:port` |

How they interact. The main thread of the manager serves one console at a
time; the others wait in the listen queue. A console sends one command and waits
for one answer. `add`, and every line of the configuration file, enters a pair into the
store, asks the source client for its file names (LIST) and enqueues one job
for each of them; it waits while the queue is full and keeps the LIST
connection meanwhile. A worker takes a job, opens a connection to the source
and one to the target, and relays the file. A client serves one connection at
a time, from accept to the close of its peer. Shutdown sets flags that the
main loops poll; cleanup closes the queue, joins the workers and frees the
rest.

What is hard to get right, and hard to test:

* the interleavings of the pool: wakeups that get lost, the race between
  shutdown and waiting threads, the error path of the creation;
* everyone waiting for everyone: main thread, workers and single-threaded
  clients hold connections while they wait for others;
* TCP has no messages: how the stream is cut is up to the network;
* failures in the middle: a client that dies, a file that cannot be opened or
  written or changes while it is read, SIGPIPE, signals that interrupt system
  calls;
* two parsers for one line, in the console and in the manager, and answers that
  must stay in step with the commands when several consoles come and go;
* pointers into the store that outlive the critical section that found them.

`PROJECT.json` lists each of these hazards at its line, with the properties
that are about it.

## 2. The modules

    JobQueue        what the pool promises: a bounded FIFO that can be closed
      ^   ^
      |   +-- Manager      main thread + store + JobQueue + clients' queues
      |          ^   ^-- MCManager
      |          ManagerProofs
    ThreadPool      threads, mutex, condition variables, linked list
      ^   ^-- MCThreadPool
    ThreadPoolProofs

    FileCopy        what a transfer promises about the target's file
      ^
    FileTransfer    sync_single_file, clients and TCP streams
      ^   ^-- MCFileTransfer
    FileTransferProofs

    Console         consoles, TCP, and the manager's side of the dialogue
      ^   ^-- MCConsole
    ConsoleProofs

    PairStore       what the store promises: an atomic set of pairs
      ^
    SyncStore       linked list in the heap, several threads
      ^   ^-- MCSyncStore
    SyncStoreProofs

    SequenceFacts   lemmas about sequences, for the proofs of pool, manager,
                    transfer and console
    NumberFacts     least elements of sets of numbers, for those of console and store

`ThreadPool` implements `JobQueue`, and `Manager` uses `JobQueue` in the place of
the pool: the composition is not concerned with mutex and conditions. `FileTransfer`
implements `FileCopy`, in which a failed write and a stream that was mixed up are part of the
state, and `SyncStore` does what `PairStore` does under a condition that it states. All of this is checked and proved,
and also that the manager's steps on the pool are steps of `JobQueue`. `Console`
and `Manager` look at the same main thread from two sides: Manager at the work a
command starts, with the commands as given; Console at the way of commands and
answers, where an `add` that parses just succeeds or fails.

In each module some definitions are used by no action (`FullBeyondBound`,
`HeaderKept`, `MatchesActive`, ...). They are plausible faults of the definition
that follows them. `PROJECT.json` names, for each property, a fault that the
property detects.

### ThreadPool

One variable for each field of `thread_pool_t`, and a program counter for each
worker, each submitter and the controller (the thread that creates and destroys
the pool). A step is what another thread can observe: to get the mutex, to test
the wait condition, to enter `pthread_cond_wait`, the rest of a critical section
up to the unlock. Test and wait are separate steps, because the error path of
`create_thread_pool` (lines 55-69) sets the flag and broadcasts without the
mutex, so something can happen between them. `job_queue` is the list reached
from the head, `job_queue_tail` is kept apart, and `Link` says what happens when
they disagree. Waiting threads may wake up spuriously. `fate` is a history
variable. `wait_for_workers` is called by nobody and left out.

A pool may be used by any number of submitters; the caller of
`destroy_thread_pool` has to know that none is inside `enqueue_sync_job` and that
none will call it again (guards of `DestroyLock` and `Submit`). In nfs_manager the main thread is
controller and only submitter at once, so this is given.

### FileTransfer

A job is one call of `sync_single_file`. A connection is two bounded streams of
units: a command, the size header, or a unit of file data. `send` blocks while
the socket buffer (`SockBuf`) is full, `recv` returns any number of the units
that wait, up to `BufSize` (`MAX_BUFFER_SIZE`). A client is the handler it is in
(`hpc`), the connection it serves, its accept queue, and `current_fd`.
`Faults` switches on what the environment may do, `Mortal` names the clients
that may be killed, `Growing` the jobs whose source file may get one unit longer
after its size was taken. A `send` to a peer that is gone is lost, fails, or raises
SIGPIPE, which ends the process, since nothing in the program handles it. A write at the
target may fail and a later one succeed: `handle_push_command` gives up the chunk and
keeps the file open. `Interrupted` names the jobs whose worker SIGINT or SIGTERM may hit: the
handlers are installed without SA_RESTART, so a `connect`, `recv` or `send` that waits
fails. The worker then gives up (before the header), ends the file as if it were complete
(`RelayInterrupted`), or goes on without what it could not send (`SendLost`).

`harm` is a history variable: the jobs whose file shrank, could not be opened or had a
failed write ("shrink", "nowrite", "full"), whose `recv` was interrupted in the loop
("signal"), and whose stream was spoilt ("spoilt"), because one `recv` of a client
brought more than one send or because a signal cut a send short.

`FileCopy` says what a transfer does to the target's file, whatever happens: it is
left alone, or truncated once and then extended along the source file, without a gap
unless a write has failed, and a transfer that reports an error never touches it, not even later, when the target
works on what is left in its socket.

Abstractions: a command is a unit that arrives as a whole; `connect` succeeds
as soon as the client runs (the limit of ten connections in the listen queue is
not modelled); file data is never mistaken for a command but is "unknown" where
a command is expected; each job has a file of its own.

### Manager

`mpc` is where the main thread is: initialisation, configuration, main loop,
console, one of the three places of `handle_add_command`, cleanup. A client is
its queue of connections, of which it serves the first; a transfer is over when
its turn has come at the source and it was served. This is right for files that
fit the socket buffers of the target connection; FileTransfer shows what happens
otherwise. The store is the list of its entries; its mutex is not modelled, as
the main thread is its only user. Signals may interrupt any thread, once for
each of SIGINT and SIGTERM; the next one ends the process. `answer` and `lost`
are history variables; `lost` holds the files of an added directory that were passed over,
because the one `recv` of the list did not bring their name (fault "shortlist") or because
`create_sync_job` could not allocate their job (fault "nomem", action `SkipFile`).

Abstractions: a command that does not parse, and an `add` whose `create_sync_info`
fails, change nothing and are left out; LIST is answered by the names in one
piece, of which `recv` may bring only the beginning (fault "shortlist"); clients
do not die here.

### Console

A console is at its prompt or waits for an answer; `said` and `heard` are its log.
A connection is what is on the way in each direction and how each end was closed
(`fin`, or `rst` when something was left unread). The listen queue is `backlog`;
a console connects as soon as the manager listens, and may send and wait before
it is accepted. `mpc` is where the main thread is: `accept`, or `recv` and `send`
in `handle_console_connection`.

A text is the sequence of the words between its spaces, and a word is a sequence of
tokens; so `process_user_command`, the `sscanf` calls of both programs and
`parse_directory_spec` do to it what they do to characters, and differ where the
code differs: a line with a leading space is no command for the console, `cancel`
followed by spaces only is one, and the manager does not understand it.
`Denotes` is the meaning of `/path@host:port` against which the parser is checked.
On the connection of a console of `Cuttable` one `recv` may return a part of what was sent:
that of the manager a part of a command, or that of the console (`ReceivePart`) a part of an
answer, whose rest is then the first thing that the `recv` for the next command brings. `cut` and
`torn` remember to whom this has happened, once for each console; one disturbance is enough
to put all that follows out of step. The consoles of `Mortal` may be killed while they wait. The cut of a
command falls between two words or inside a number, where the first piece is a command of its own with another
port; a cut elsewhere in a word leaves nothing but invalid pieces. The pieces of an answer are all
alike. `Place` is what a source means to those who use it: the client skips a leading "/"
(`src/nfs_client_logic.c:5-9`) and `htons` keeps 16 bits of the port, while `find_sync_info`
compares texts. A `send`
to a peer that is gone is lost and brings a reset; after the reset, `send` fails or
raises SIGPIPE. What was received before a reset can still be read, as on Linux.

### SyncStore

`heap` holds the `sync_info_t` that are allocated, by address; an address that was
freed may be returned by the next `malloc`. A critical section is one action, since
all accesses to the list are under the store's mutex. `deactivate_sync_info` has two
critical sections and keeps a pointer between them; if another thread has removed that
entry meanwhile the write goes to freed memory, where nobody sees it, or to a new entry at
the same address. `stale` and `strayed` are history variables that record this. The
caller's obligations are those nfs_manager meets: an entry that was not
taken is freed by its creator (`handle_add_command`), and the store is destroyed
when no thread uses it. In nfs_manager the main thread is the only user; the header
offers the store to several threads, and SyncStore shows what that offer is worth.

## 3. The runs

| Run | Checks | Instance | Result |
|---|---|---|---|
| `pool` | nine invariants, the refinement of `JobQueue`, three liveness properties | 2 workers, 2 submitters, 4 jobs, queue of 2 | holds, 32,633 states |
| `pool_create` | `CreateCompletes` | a failing `pthread_create` | **violated** |
| `transfer` | five invariants, the refinement of `FileCopy`, two liveness properties | 2 files, same source and target, one may grow, all faults but "coalesce", both clients may die; one worker may be interrupted; files fit the buffers | holds, 459,755 states |
| `transfer_large` | `TransfersEnd` | socket buffers of 2 units | **violated** |
| `transfer_coalesce` | `SuccessIsStored` | one recv may return several sends | **violated** |
| `transfer_truncated` | `SuccessIsComplete` | the source may die | **violated** |
| `manager` | six invariants, three liveness properties | 2 workers, queue of 1, directories of 2 and 1 files on one client, all faults | holds, 135,065 states |
| `manager_deadlock` | `AddReturns` | 1 worker, queue of 1, a directory of 3 files | **violated** |
| `manager_missing` | `AddReturns` | a directory that does not exist | **violated** |
| `manager_cancel` | `CancelStops` | as `manager`, no faults | **violated** |
| `console` | six invariants, one liveness property | 2 consoles that send 2 and 1 of 5 commands each, among them three spellings of one directory, 6 lines that are not sent; one command or answer of the first may come in pieces, and it may be killed | holds, 609,380 states |
| `store` | two invariants, agreement with `PairStore` | 3 threads, 3 sources, 4 addresses, any number of calls | holds, 110,118 states up to symmetry |

Run one with `tlc -config ThreadPool.cfg MCThreadPool`, and so on.

What the passing runs show, where the conditions matter:

* `transfer`: every call of `sync_single_file` returns and every success is stored,
  with exceptions that are part of the properties. A file that shrinks after its size was
  announced hangs its worker and both clients, so another job that was logged as a
  success may not be stored either. A file that grows does no harm to what is
  stored, though its client may die of SIGPIPE, since it goes on sending after the worker
  has closed. A failed `open` or `write` at the target costs only its own file. A write that
  fails for a while leaves a gap in a file whose transfer is logged as a success
  (`StoredInOrder` allows this and no other gap), and a signal that hits the `recv` in the loop
  of `sync_single_file` leaves a part of the file, with the same report.
* `manager`: when the pool cannot be created, cleanup destroys the store a second
  time (`src/nfs_manager_logic.c:98` and `:460`); `CrashLosesNothing` says that
  this is the only way to that crash, and that no pair, job or connection is lost in it.
  `AddedMeansQueued` is about all files of the directory: `include/nfs_manager_logic.h:140` promises
  a job for each, and the two exceptions, which the console is not told of, are named in it.
  `ShutdownCompletes` holds for sizes at which `add` returns: in the configuration of
  `manager_deadlock` a manager that gets a signal does not end either, as its main thread
  waits in `enqueue_sync_job`.
* `console`: as long as neither a command nor an answer comes in pieces, each answer is shown for its own
  command, is true of the store, and no console that leaves takes the manager with it: the
  first `send` to a closed connection is only lost, and the next `recv` ends the
  dialogue. With a command or an answer in pieces each of the three can fail. A directory
  typed with and without a leading "/", or with a port beyond 16 bits, may be entered a second
  time; `SourcesApart` says that these are the only ways. A console that was never accepted
  is reset when the manager ends.
* `store`: `deactivate_sync_info` is atomic in effect unless a removal overtakes it; then it
  may switch off another source's entry, even one that is being added. The list itself
  stays sound in that case, too.

What the violated runs show (`PROJECT.json`, "findings", quotes the documentation
that says otherwise):

* `pool_create`: a worker has found the queue empty and the flag clear; the
  creator sets the flag, broadcasts, and joins the worker; the worker starts to
  wait. Nobody wakes it.
* `transfer_large`: two workers, the first accepted at the source, the second at
  the target. The first fills the buffers of its connection to the target, which
  is busy with the second; the second waits for the source, which is busy with
  the first.
* `transfer_coalesce`: PUSH -1 and the next PUSH, or a PUSH and its data, arrive
  in one `recv`; all but the first line is forgotten.
* `transfer_truncated`: `recv` returns 0 in the middle of a file, and SUCCESS is
  logged.
* `manager_deadlock`: the main thread waits for space in the queue, the workers
  for the client, the client for the main thread.
* `manager_missing`: the client answers LIST with nothing, and waits for the next
  command, while the manager waits for the answer.
* `manager_cancel`: `active` is cleared, and never read.

Why the bounds are enough for what is asked. The races of the pool involve two
threads at one condition variable and one more that changes the state; two
workers, two submitters and a queue that is shorter than the number of jobs give
every combination of full, empty and in between, and the proofs remove the bound
for the safety properties. In a transfer, two jobs at the same two clients are
the least that can disturb each other through `current_fd` or the accept queues;
two units make a file that arrives with its header, partly, or apart. In
the manager, with two workers and one queue slot for three files, the queue is
full and the workers are busy at the same time, and two sources make it possible to
find a known source behind a newer one.

In the console run (`MaxLines`) one console sends two commands and the other one, so that
a second answer can be out of step with its command, two consoles can meet over one
source, and one can wait behind the other; the lines are chosen where the parsers might
differ. In the store, three entries make a first, a middle and a last one, and the fourth
address lets another thread hold an entry of its own at the same time; calls are not bounded.

The constants of `manager` keep the number of files at workers plus
queue slots. That is the limit for `AddReturns`: one file more is
`manager_deadlock`.

`transfer` does not look for deadlock: with a file that shrinks the worker waits for
ever. The violation runs do not, either.

Fairness. In ThreadPool each thread goes on while it can (weak fairness), a thread
that asks for the mutex gets it if the mutex is free again and again (strong
fairness of the lock, what a mutex of a preemptive scheduler gives in practice),
and a file transfer ends. Nothing is assumed of spurious wakeups. In
FileTransfer the workers and the clients that run go on and TCP delivers; in Manager
the main thread and the workers go on and clients serve their connections; in
Console the manager and the consoles go on and TCP delivers (`select` with a timeout makes the
manager see a shutdown). SyncStore states none. Users,
signals and failures are under no obligation in any module.

## 4. The proofs

Each component has a module of proofs; check one with `tlapm ManagerProofs.tla`, and so on.
They prove every safety invariant that a passing run checks and the three
refinements, without the bounds of the runs: for any sets of threads, jobs, clients,
pairs, lines and addresses.

| Module | Proved of every behaviour |
|---|---|
| `ThreadPoolProofs` | the nine invariants of `pool`; the pool implements `JobQueue` |
| `ManagerProofs` | the six invariants of `manager`; its steps on the pool are those of `JobQueue` |
| `FileTransferProofs` | the five invariants of `transfer`; it implements `FileCopy` |
| `ConsoleProofs` | the six invariants of `console`; no entry of the store is removed, changed or activated again |
| `SyncStoreProofs` | the two invariants of `store`; it acts as `PairStore` |

The assumptions on the constants are named in the modules that declare them. Most give
types. Those with a content:

* `PoolAssumption`, `ManagerAssumption`: there is a worker, and the buffer has at least one place;
  `parse_arguments` refuses anything else (`src/nfs_manager_logic.c:39` and `:51`). The
  sets of threads of the pool are finite, as the wakeup theorems count them.
* `TransferAssumption`: buffers have room for a unit. File sizes may be anything, zero and
  more than the buffers included.
* `ConsoleAssumption`: a line that a user types has a (possibly empty) first word.
* `StoreAssumption`: memory is finite, and NULL is no address.

No theorem has a hypothesis besides these. The exceptions are part of the properties, as
history that the model records: a file that was spoilt (`StoredInOrder`, `FileCopy`; the run
`transfer_coalesce` shows how), a console whose dialogue was disturbed (`Disturbed`), and a
write to the store that went astray (`strayed`).

None of the invariants is inductive by itself. In each module `IInv` is the inductive
one; TLC has checked it on the instances of the runs before it was proved (`Frames`, whose
quantifiers are not bounded, in a form that TLC can evaluate).

**ThreadPool.** `IInv` is the conjunction of

* types, mutual exclusion (the program counters say who owns the mutex), and the agreement
  of list, tail and size;
* where each job is: the queued ones are the list's, without repetition, the running
  ones are in the hands of one worker each, an offered one belongs to one submitter;
* why a thread sleeps: who is about to wait has found, under the mutex it still
  holds, that it must; so it cannot have missed a change made under the mutex;
* the phases of the controller: which workers exist in which phase, and that in the phases after an
  orderly shutdown nobody waits.

`NextIInv` shows that each step preserves it, with a lemma for each thread and one for each
of the two steps that change the list. The two wakeup theorems count: each queued job has a
worker of its own that is awake as long as any worker sleeps (and each free place
a submitter), which the one signal per enqueue or dequeue maintains. The refinement
is a step-by-step simulation; `shutdown` is `closed`, and the discarding loop of
`destroy_thread_pool` is shown to find no job.

**Manager.** To the properties of the run `IInv` adds where each job is (`RunningJobs`,
`QueuedJobs`, `OfferedJobs`), how far `handle_add_command` is with the pair in its hands
(`AddProgress`: the names it has passed are accepted jobs or lost, the rest is `listed`), and what the
place of the main thread says about pool, store and queue (`Phases`). `NoConnectionKept`
is almost inductive by itself; it needs to know which places hold which connection.
`CrashLosesNothing` rests on `Pristine`: when the pool cannot be created nothing has happened yet.
`PoolUsedAsSpecified` closes the gap in the composition: `Manager` never moves the queue
in a way that `JobQueue` does not allow, and `JobQueue` is what the pool implements.

**FileTransfer.** What has to be said is what is in the streams. On the side of the source:
PULL is sent once and nothing comes back before (`Requests`); what is on the way to the
worker, followed by what the client has yet to send, continues the answer exactly where
the worker is (`Answers`); and what was relayed is a prefix of the file (`Relayed`). On the side
of the target: the units in the socket followed by those the worker still holds (`Pending`) start
the file once (`Commands`), the file is as it was until then (`Untouched`), the file is the
only one its client may have open (`Writing`), and a reader of those units would find data
where a chunk is due and a command where none is, ending where the worker is (`Frames`).
`Frames` does not mention which of the units are in which buffer, so the way the stream is cut
does not matter to it. It is claimed while the client has the file open or is about to open it
(`Intact`) and the stream was not spoilt; after a failed `write` the reader is somewhere behind
the last unit in the file (`Place`), and reads data as commands until the next chunk. `Sessions`, `Closing` and
`Results` relate the places of clients and workers to connections and counters.

**Console.** A command is in one place at a time: with the user, on its way, being answered,
or its answer on its way back (`Dialogue`), and a console at its prompt has nothing under way;
this is why the n-th answer is to the n-th command. It is claimed of consoles that no `recv` has
disturbed; a step that disturbs one takes it out of the claim, and what the others were told
stays true, since the store only grows. Each answer that was given, heard or not,
is backed by an entry of the store that is still there (`Truth`, `Backed`), and no source is
reported as added twice (`AddedOnce`). What the console's parser lets through is what the
manager's parser understands (`Commands`), and `parse_directory_spec` returns what
the text denotes (`ParseDenotes`). `Words` is a recursive function on the text:
its lemmas take the least position at which the claim fails
(`LeastElement` of `NumberFacts`) and derive a contradiction.

**SyncStore.** The pointers form a chain of `count` entries with different sources (`Chained`),
and the pointer that `deactivate_sync_info` holds between its critical sections is in that chain
until it is stale (`HeldIsLinked`). Insertion puts an entry before the chain, removal takes the entry at
position p out, whether p is the first, a middle or the last one. For `ActsAsPairStore` the
invariant `FreshIsActive` is needed as well: an entry that its creator has not yet handed over is active
until a stray write has happened.

Only model-checked: the liveness properties of pool, transfer, manager and console, which the prover cannot
treat (it has neither fairness nor ENABLED), and the violations, which are counterexamples.

## 5. What is not modelled

* The contents of logs and time stamps, `log_message`, `get_timestamp`,
  `print_sync_info_store`: formatting and output.
* `parse_arguments` and the arguments of the three `main` functions: they supply the constants.
  `create_server_socket`: system calls without a state of their own.
* `parse_config_line` and `wait_for_workers`: called by nothing.
* The sizes of the text buffers (`MAX_COMMAND_SIZE`, `MAX_PATH`, `MAX_HOST_SIZE`): texts are short.
* The limit of the listen queue; file names cut in two by the `recv` of LIST, which become jobs for
  a name that no file has; a client that
  dies while it sends a list nobody reads.
* `tests/` and the Makefile were read for what they say of the intended behaviour.

## 6. Plan

Done: `JobQueue`, `ThreadPool`, `FileCopy`, `FileTransfer`, `Manager`, `Console`,
`PairStore`, `SyncStore`, and the proofs of all their safety properties and refinements.

Next, in this order:

1. Action properties that the proofs make cheap: of the manager (a job that was accepted
   never goes back, an entry of its store never leaves before cleanup) and of the transfer (what was relayed
   only grows).
2. Shorter proofs: the step lemmas of `FileTransferProofs` share much of what they say about
   connections that a step leaves alone.
