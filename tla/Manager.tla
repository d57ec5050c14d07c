------------------------------ MODULE Manager -------------------------------
(***************************************************************************)
(* nfs_manager as a whole: the main thread (src/nfs_manager.c and          *)
(* src/nfs_manager_logic.c) with its store of sync pairs (src/sync_info.c),*)
(* the pool of workers, and the clients it takes the files from.           *)
(*                                                                         *)
(* The pool is the closable FIFO JobQueue, which ThreadPool implements.    *)
(* A client is its queue of connections: it serves the first one until     *)
(* that is closed (the accept loop of src/nfs_client.c).  A transfer is    *)
(* served at once when its turn has come at the source; the protocol and   *)
(* the target's side of it are in FileTransfer.                            *)
(*                                                                         *)
(* Faults names what may go wrong around the main thread:                  *)
(*   "init"         a resource of initialize_manager cannot be had         *)
(*   "unreachable"  connect to the source client fails                     *)
(*   "shortlist"    one recv brings only the beginning of the file list    *)
(*   "nomem"        create_sync_job cannot allocate a job                  *)
(***************************************************************************)
EXTENDS Naturals, SequencesExt

CONSTANTS Pairs,        \* the pairs that configuration and console name
          Sources,      \* source directories: host, port and path
          SourceOf,     \* the source of a pair
          ClientOf,     \* the client of a source
          FilesOf,      \* the files of a source, in the order of LIST
          Missing,      \* the sources whose directory does not exist
          ConfigLines,  \* the pairs of the configuration file, in order
          Clients, Workers, BufferSize, Faults,
          Main,         \* the connection of the main thread
          NoPair

Files == UNION {{FilesOf[s][i] : i \in DOMAIN FilesOf[s]} : s \in Sources}
Jobs == Pairs \X Files

ASSUME ManagerAssumption ==
  /\ SourceOf \in [Pairs -> Sources] /\ ClientOf \in [Sources -> Clients]
  /\ Missing \subseteq Sources
  /\ ConfigLines \in Seq(Pairs)
  /\ BufferSize \in Nat \ {0} /\ Workers # {}
  /\ \A s \in Sources : FilesOf[s] \in Seq(Files) /\ IsInjective(FilesOf[s])
  /\ Faults \subseteq {"init", "unreachable", "shortlist", "nomem"}
  /\ Main \notin Workers /\ NoPair \notin Pairs

VARIABLES
  mpc,           \* where the main thread is
  ret,           \* where handle_add_command returns to
  cur,           \* the pair it is adding
  listed,        \* the file names it has not yet turned into jobs
  line,          \* the next line of the configuration file
  store,         \* the list of sync_info_t, newest first
  count,         \* store->count
  store_mem,     \* the memory of the store
  pool,          \* manager->thread_pool
  logfile,
  stop,          \* shutdown_requested and shutdown_flag
  caught,        \* the signals whose handler has run and is gone
  answer,        \* history: what the last `add' of a pair returned
  lost,          \* history: the files of an added pair left without a job
  backlog,       \* per client: the connections it has, first one served
  wpc,           \* a worker's place in sync_single_file
  queue, closed, fate, hand, hired   \* the pool: see JobQueue

JQ == INSTANCE JobQueue WITH Capacity <- BufferSize

poolvars == <<queue, closed, fate, hand, hired>>
storevars == <<store, count, store_mem>>
addvars == <<ret, cur, listed, answer, lost>>
resvars == <<pool, logfile>>
netvars == <<backlog, wpc>>
vars == <<mpc, addvars, line, storevars, resvars, stop, caught, netvars,
          poolvars>>

Init ==
  /\ mpc = "init"
  /\ ret = "config" /\ cur = NoPair /\ listed = <<>> /\ line = 1
  /\ store = <<>> /\ count = 0 /\ store_mem = "none"
  /\ pool = "none" /\ logfile = "none"
  /\ stop = FALSE /\ caught = {}
  /\ answer = [p \in Pairs |-> "none"]
  /\ lost = {}
  /\ backlog = [c \in Clients |-> <<>>]
  /\ wpc = [w \in Workers |-> "idle"]
  /\ JQ!JQInit
-----------------------------------------------------------------------------
(***************************************************************************)
(* main and initialize_manager                                             *)
(***************************************************************************)

\* log file, listening socket or store cannot be had: cleanup_manager follows
InitFails ==
  /\ mpc = "init" /\ "init" \in Faults
  /\ logfile' \in {"none", "open"}
  /\ mpc' = "cleanup_pool"
  /\ UNCHANGED <<addvars, line, storevars, pool, stop, caught, netvars,
                 poolvars>>

\* create_thread_pool returns NULL: the store is destroyed, its pointer kept
InitPoolFails ==
  /\ mpc = "init" /\ "init" \in Faults
  /\ logfile' = "open"
  /\ store_mem' = "freed"
  /\ mpc' = "cleanup_pool"
  /\ UNCHANGED <<addvars, line, store, count, pool, stop, caught,
                 netvars, poolvars>>

InitSucceeds ==
  /\ mpc = "init"
  /\ logfile' = "open"
  /\ store_mem' = "live"
  /\ mpc' = "spawn"
  /\ UNCHANGED <<addvars, line, store, count, pool, stop, caught,
                 netvars, poolvars>>

SpawnWorker(w) ==
  /\ mpc = "spawn"
  /\ JQ!Hire(w)
  /\ UNCHANGED <<mpc, addvars, line, storevars, resvars, stop, caught,
                 netvars>>

\* A main that destroys the store when the configuration cannot be read
OpenConfigOrFreeStore ==
  /\ mpc = "spawn" /\ hired = Workers
  /\ pool' = "live"
  /\ \/ mpc' = "config" /\ UNCHANGED store_mem
     \/ "init" \in Faults /\ mpc' = "cleanup_pool" /\ store_mem' = "freed"
  /\ UNCHANGED <<addvars, line, store, count, logfile, stop, caught, netvars,
                 poolvars>>

\* load_config_file opens the file, or main gives up
OpenConfig ==
  /\ mpc = "spawn" /\ hired = Workers
  /\ pool' = "live"
  /\ mpc' \in {"config"} \cup IF "init" \in Faults THEN {"cleanup_pool"} ELSE {}
  /\ UNCHANGED <<addvars, line, storevars, logfile, stop, caught, netvars,
                 poolvars>>
-----------------------------------------------------------------------------
(***************************************************************************)
(* handle_add_command and start_directory_sync                             *)
(***************************************************************************)
\* A comparison that passes over the pairs that were cancelled
MatchesActive(entry, s) == entry.source = s /\ entry.active

\* Host, port and directory of the source are compared, nothing else
Matches(entry, s) == entry.source = s

\* The search of find_sync_info.  add_sync_info does it again; there is no
\* other thread that could have added a pair meanwhile, so it finds the same
Find(s) == \E i \in DOMAIN store : Matches(store[i], s)

BeginAdd(p, from) ==
  IF Find(SourceOf[p])
  THEN /\ answer' = [answer EXCEPT ![p] = "exists"]
       /\ mpc' = from
       /\ UNCHANGED <<ret, cur, listed, lost, storevars>>
  ELSE /\ store' = <<[source |-> SourceOf[p], active |-> TRUE]>> \o store
       /\ count' = count + 1
       /\ cur' = p /\ ret' = from
       /\ mpc' = "list"
       /\ UNCHANGED <<answer, lost, listed, store_mem>>

\* handle_add_command is over; the entry stays in the store in any case
EndAdd(res) ==
  /\ answer' = [answer EXCEPT ![cur] = res]
  /\ cur' = NoPair /\ listed' = <<>>
  /\ mpc' = ret
  /\ UNCHANGED <<ret, lost>>

Client == ClientOf[SourceOf[cur]]

\* Connections that their holder forgets to close
HangupForgotten(conn) == backlog
HangupMainOnly(conn) ==
  [c \in Clients |->
     IF conn \in Workers THEN backlog[c] ELSE RemoveFirst(backlog[c], conn)]

\* close(source_fd)
Hangup(conn) == [c \in Clients |-> RemoveFirst(backlog[c], conn)]

ListConnect ==
  /\ mpc = "list"
  /\ backlog' = [backlog EXCEPT ![Client] = Append(@, Main)]
  /\ mpc' = "listing"
  /\ UNCHANGED <<addvars, line, storevars, resvars, stop, caught, wpc,
                 poolvars>>

ListUnreachable ==
  /\ mpc = "list" /\ "unreachable" \in Faults
  /\ EndAdd("failed")
  /\ UNCHANGED <<line, storevars, resvars, stop, caught, netvars, poolvars>>

\* The files in the source directory of a pair
Directory(p) == Range(FilesOf[SourceOf[p]])

\* How much of the list the one recv brings
Arrived(files) ==
  {SubSeq(files, 1, n) :
     n \in IF "shortlist" \in Faults /\ files # <<>> THEN 1..Len(files)
           ELSE {Len(files)}}

\* The client answers LIST when it is this connection's turn; it sends
\* nothing at all when it cannot open the directory
ListReply ==
  /\ mpc = "listing"
  /\ Head(backlog[Client]) = Main
  /\ SourceOf[cur] \notin Missing
  /\ listed' \in Arrived(FilesOf[SourceOf[cur]])
  /\ lost' = lost \cup
       {<<cur, name>> : name \in Directory(cur) \ Range(listed')}
  /\ mpc' = "enqueue"
  /\ UNCHANGED <<ret, cur, answer, line, storevars, resvars, stop, caught,
                 netvars, poolvars>>

Job == <<cur, Head(listed)>>

\* create_sync_job and the call of enqueue_sync_job ...
OfferFile ==
  /\ mpc = "enqueue" /\ listed # <<>>
  /\ JQ!Offer(Job)
  /\ UNCHANGED <<mpc, addvars, line, storevars, resvars, stop, caught, netvars>>

\* A loop over the names that stops at the last but one
NextNameOfTwo == IF Len(listed) <= 2 THEN <<>> ELSE Tail(listed)

NextName == Tail(listed)

\* ... which returns 0 once there is space in the queue
PutFile ==
  /\ mpc = "enqueue" /\ listed # <<>>
  /\ JQ!Put(Job)
  /\ listed' = NextName
  /\ UNCHANGED <<mpc, ret, cur, answer, lost, line, storevars, resvars, stop,
                 caught, netvars>>

\* create_sync_job returns NULL: the loop goes on with the next name, and
\* start_directory_sync does not tell its caller
SkipFile ==
  /\ mpc = "enqueue" /\ listed # <<>> /\ "nomem" \in Faults
  /\ fate[Job] = "new"
  /\ lost' = lost \cup {Job}
  /\ listed' = NextName
  /\ UNCHANGED <<mpc, ret, cur, answer, line, storevars, resvars, stop, caught,
                 netvars, poolvars>>

\* Only now is the connection to the source closed
EndList ==
  /\ mpc = "enqueue" /\ listed = <<>>
  /\ backlog' = Hangup(Main)
  /\ EndAdd("added")
  /\ UNCHANGED <<line, storevars, resvars, stop, caught, wpc, poolvars>>
-----------------------------------------------------------------------------
(***************************************************************************)
(* load_config_file, the main loop and handle_console_connection           *)
(***************************************************************************)
ConfigLine ==
  /\ mpc = "config" /\ line <= Len(ConfigLines)
  /\ BeginAdd(ConfigLines[line], "config")
  /\ line' = line + 1
  /\ UNCHANGED <<resvars, stop, caught, netvars, poolvars>>

ConfigLoaded ==
  /\ mpc = "config" /\ line > Len(ConfigLines)
  /\ mpc' = "serve"
  /\ UNCHANGED <<addvars, line, storevars, resvars, stop, caught, netvars,
                 poolvars>>

AcceptConsole ==
  /\ mpc = "serve" /\ ~stop
  /\ mpc' = "console"
  /\ UNCHANGED <<addvars, line, storevars, resvars, stop, caught, netvars,
                 poolvars>>

AddCommand(p) ==
  /\ mpc = "console" /\ ~stop
  /\ BeginAdd(p, "console")
  /\ UNCHANGED <<line, resvars, stop, caught, netvars, poolvars>>

\* handle_cancel_command and deactivate_sync_info; a source that is not
\* in the store is answered "not being synchronized"
CancelCommand(s) ==
  /\ mpc = "console" /\ ~stop
  /\ store' = [i \in DOMAIN store |->
                 IF Matches(store[i], s) THEN [store[i] EXCEPT !.active = FALSE]
                 ELSE store[i]]
  /\ UNCHANGED <<mpc, addvars, line, count, store_mem, resvars, stop, caught,
                 netvars, poolvars>>

\* handle_shutdown_command: signal_shutdown closes the pool's queue
ShutdownCommand ==
  /\ mpc = "console" /\ ~stop
  /\ stop' = TRUE
  /\ JQ!Close
  /\ mpc' = "serve"
  /\ UNCHANGED <<addvars, line, storevars, resvars, caught, netvars>>

\* The console hangs up, or the loop sees the shutdown flag
ConsoleEnds ==
  /\ mpc = "console"
  /\ mpc' = "serve"
  /\ UNCHANGED <<addvars, line, storevars, resvars, stop, caught, netvars,
                 poolvars>>

MainLoopEnds ==
  /\ mpc = "serve" /\ stop
  /\ mpc' = "cleanup_pool"
  /\ UNCHANGED <<addvars, line, storevars, resvars, stop, caught, netvars,
                 poolvars>>
-----------------------------------------------------------------------------
(***************************************************************************)
(* Signals.  The handler of SIGINT and SIGTERM sets the flags and removes  *)
(* itself for this signal.  Any thread may be the one that is interrupted. *)
(* System calls are not restarted: a connect or a recv fails with EINTR    *)
(* and its caller gives up.  Waits in the pool and pthread_join go on.     *)
(***************************************************************************)
Signals == {"SIGINT", "SIGTERM"}
Running == mpc \notin {"exit", "killed", "crashed"}

Handle(sig) ==
  /\ Running /\ sig \notin caught
  /\ stop' = TRUE /\ caught' = caught \cup {sig}

\* The thread is between two calls, or in one that goes on
SignalUnnoticed(sig) ==
  /\ Handle(sig)
  /\ UNCHANGED <<mpc, addvars, line, storevars, resvars, netvars, poolvars>>

SignalInterruptsMain(sig) ==
  /\ Handle(sig) /\ mpc \in {"list", "listing"}
  /\ EndAdd("failed") /\ backlog' = Hangup(Main)
  /\ UNCHANGED <<line, storevars, resvars, wpc, poolvars>>

SignalInterruptsWorker(sig, w) ==
  /\ Handle(sig) /\ wpc[w] \in {"connect", "transfer"}
  /\ backlog' = Hangup(w)
  /\ wpc' = [wpc EXCEPT ![w] = "idle"]
  /\ JQ!Finish(w)
  /\ UNCHANGED <<mpc, addvars, line, storevars, resvars>>

\* The default action of a signal whose handler is gone
SecondSignal ==
  /\ Running /\ caught # {}
  /\ mpc' = "killed"
  /\ UNCHANGED <<addvars, line, storevars, resvars, stop, caught, netvars,
                 poolvars>>
-----------------------------------------------------------------------------
(***************************************************************************)
(* cleanup_manager                                                         *)
(***************************************************************************)

\* A cleanup that relies on an earlier signal_shutdown
DestroyWithoutShutdown ==
  /\ mpc = "cleanup_pool" /\ pool = "live"
  /\ mpc' = "join"
  /\ UNCHANGED <<addvars, line, storevars, resvars, stop, caught, netvars,
                 poolvars>>

\* destroy_thread_pool, up to its first pthread_join
DestroyPool ==
  /\ mpc = "cleanup_pool" /\ pool = "live"
  /\ JQ!Close
  /\ mpc' = "join"
  /\ UNCHANGED <<addvars, line, storevars, resvars, stop, caught, netvars>>

\* A cleanup that does not wait for the workers
WorkersMayRun == TRUE

\* destroy_thread_pool returns after it has joined the workers
WorkersJoined == hired = {}

PoolDestroyed ==
  /\ mpc = "join" /\ WorkersJoined
  /\ pool' = "none"
  /\ mpc' = "cleanup_store"
  /\ UNCHANGED <<addvars, line, storevars, logfile, stop, caught, netvars,
                 poolvars>>

NoPool ==
  /\ mpc = "cleanup_pool" /\ pool = "none"
  /\ mpc' = "cleanup_store"
  /\ UNCHANGED <<addvars, line, storevars, resvars, stop, caught, netvars,
                 poolvars>>

\* destroy_sync_info_store, unless the pointer is NULL: freeing memory that
\* is free already is undefined, and ends the process here
CleanupStore ==
  /\ mpc = "cleanup_store"
  /\ mpc' = IF store_mem = "freed" THEN "crashed" ELSE "cleanup_log"
  /\ store_mem' = IF store_mem = "live" THEN "freed" ELSE store_mem
  /\ UNCHANGED <<addvars, line, store, count, resvars, stop,
                 caught, netvars, poolvars>>

CleanupLog ==
  /\ mpc = "cleanup_log"
  /\ logfile' = IF logfile = "open" THEN "closed" ELSE logfile
  /\ mpc' = "exit"
  /\ UNCHANGED <<addvars, line, storevars, pool, stop, caught, netvars,
                 poolvars>>
-----------------------------------------------------------------------------
(***************************************************************************)
(* The workers, while the process lives                                    *)
(***************************************************************************)
\* The source client of a job
SourceClient(job) == ClientOf[SourceOf[job[1]]]

WorkerTakes(w) ==
  /\ Running /\ JQ!Take(w)
  /\ wpc' = [wpc EXCEPT ![w] = "connect"]
  /\ UNCHANGED <<mpc, addvars, line, storevars, resvars, stop, caught, backlog>>

WorkerConnects(w) ==
  /\ Running /\ wpc[w] = "connect"
  /\ \E job \in hand[w] :
       backlog' = [backlog EXCEPT ![SourceClient(job)] = Append(@, w)]
  /\ wpc' = [wpc EXCEPT ![w] = "transfer"]
  /\ UNCHANGED <<mpc, addvars, line, storevars, resvars, stop, caught, poolvars>>

\* The source serves the connection; sync_single_file returns and hangs up
WorkerServed(w) ==
  /\ Running /\ wpc[w] = "transfer"
  /\ \E job \in hand[w] : Head(backlog[SourceClient(job)]) = w
  /\ backlog' = Hangup(w)
  /\ wpc' = [wpc EXCEPT ![w] = "idle"]
  /\ JQ!Finish(w)
  /\ UNCHANGED <<mpc, addvars, line, storevars, resvars, stop, caught>>

WorkerUnreachable(w) ==
  /\ Running /\ wpc[w] = "connect" /\ "unreachable" \in Faults
  /\ wpc' = [wpc EXCEPT ![w] = "idle"]
  /\ JQ!Finish(w)
  /\ UNCHANGED <<mpc, addvars, line, storevars, resvars, stop, caught, backlog>>

WorkerRetires(w) ==
  /\ Running /\ JQ!Retire(w)
  /\ UNCHANGED <<mpc, addvars, line, storevars, resvars, stop, caught, netvars>>

WorkerStep(w) ==
  \/ WorkerTakes(w) \/ WorkerConnects(w) \/ WorkerServed(w)
  \/ WorkerUnreachable(w) \/ WorkerRetires(w)

\* What the main thread does of itself; accepting, commands and signals come
\* from outside
MainStep ==
  \/ InitFails \/ InitPoolFails \/ InitSucceeds \/ OpenConfig
  \/ \E w \in Workers : SpawnWorker(w)
  \/ ListConnect \/ ListUnreachable \/ ListReply
  \/ OfferFile \/ SkipFile \/ PutFile \/ EndList
  \/ ConfigLine \/ ConfigLoaded \/ MainLoopEnds
  \/ (stop /\ ConsoleEnds)
  \/ DestroyPool \/ PoolDestroyed \/ NoPool \/ CleanupStore \/ CleanupLog

Environment ==
  \/ AcceptConsole \/ ConsoleEnds \/ ShutdownCommand
  \/ \E p \in Pairs : AddCommand(p)
  \/ \E s \in Sources : CancelCommand(s)
  \/ \E sig \in Signals : \/ SignalUnnoticed(sig)
                          \/ SignalInterruptsMain(sig)
                          \/ \E w \in Workers : SignalInterruptsWorker(sig, w)
  \/ SecondSignal

Ended == ~Running /\ UNCHANGED vars

Next == MainStep \/ Environment \/ (\E w \in Workers : WorkerStep(w)) \/ Ended

Spec == Init /\ [][Next]_vars

(***************************************************************************)
(* Fairness: the main thread and the workers go on while they can; the     *)
(* clients serve their connections.  Users and signals owe nothing.        *)
(***************************************************************************)
FairSpec == Spec /\ WF_vars(MainStep) /\ \A w \in Workers : WF_vars(WorkerStep(w))
-----------------------------------------------------------------------------
Ends == {"exit", "killed", "crashed"}
AddPlaces == {"list", "listing", "enqueue"}
Places ==
  {"init", "spawn", "config", "serve", "console", "cleanup_pool", "join",
   "cleanup_store", "cleanup_log"} \cup AddPlaces \cup Ends
Connections == Workers \cup {Main}

(***************************************************************************)
(* Types; the fields the main thread uses inside handle_add_command are    *)
(* set exactly then, the queue respects buffer_size, and no connection     *)
(* waits twice.                                                            *)
(***************************************************************************)
TypeOK ==
  /\ mpc \in Places /\ ret \in {"config", "console"}
  /\ (cur \in Pairs) <=> (mpc \in AddPlaces \/ (mpc = "killed" /\ cur # NoPair))
  /\ cur \in Pairs \cup {NoPair}
  /\ line \in 1 .. Len(ConfigLines) + 1
  /\ store \in Seq([source : Sources, active : BOOLEAN])
  /\ store_mem \in {"none", "live", "freed"}
  /\ pool \in {"none", "live"} /\ logfile \in {"none", "open", "closed"}
  /\ stop \in BOOLEAN /\ caught \subseteq Signals
  /\ answer \in [Pairs -> {"none", "added", "exists", "failed"}]
  /\ listed \in Seq(Files) /\ lost \subseteq Jobs
  /\ backlog \in [Clients -> Seq(Connections)]
  /\ \A c \in Clients : IsInjective(backlog[c])
  /\ wpc \in [Workers -> {"idle", "connect", "transfer"}]
  /\ queue \in Seq(Jobs) /\ Len(queue) <= BufferSize
  /\ fate \in [Jobs -> JQ!Fates] /\ closed \in BOOLEAN
  /\ hand \in [Workers -> SUBSET Jobs] /\ hired \subseteq Workers

(***************************************************************************)
(* The store holds a source at most once, its counter is its length, and   *)
(* every job that was ever made belongs to a source the store still has:   *)
(* find_sync_info and add_sync_info keep out duplicates over any mix of    *)
(* config lines, console commands, failed adds and cancels.                *)
(***************************************************************************)
StoreConsistent ==
  /\ \A i, k \in DOMAIN store : store[i].source = store[k].source => i = k
  /\ count = Len(store)
  /\ \A j \in Jobs : fate[j] # "new" =>
       \E i \in DOMAIN store : store[i].source = SourceOf[j[1]]

\* A file of the directory has an accepted job, unless it was lost; a lost
\* file and a file of another directory have none
Settled(p, f) ==
  IF f \in Directory(p) /\ <<p, f>> \notin lost
  THEN fate[<<p, f>>] \in {"queued", "running", "done"}
  ELSE fate[<<p, f>>] = "new"

(***************************************************************************)
(* start_directory_sync "creates synchronization jobs for each file"       *)
(* (include/nfs_manager_logic.h:140).  When it has returned 0, every file  *)
(* of the directory has exactly one accepted job, except a file whose name *)
(* the one recv of the list did not bring or whose job could not be        *)
(* allocated: these two are passed over in silence and have none.  Nothing *)
(* else loses a file: enqueue_sync_job never refuses the main thread, not  *)
(* even when a signal asks for shutdown in the middle of the list.         *)
(***************************************************************************)
AddedMeansQueued ==
  \A p \in Pairs : answer[p] = "added" => \A f \in Files : Settled(p, f)

(***************************************************************************)
(* The main thread holds a connection to a client only while it lists and  *)
(* enqueues, and a worker only during its transfer, on every way out,      *)
(* signals included.  A connection that were kept would stop its client    *)
(* for good, since clients serve one connection at a time.                 *)
(***************************************************************************)
NoConnectionKept ==
  \A c \in Clients : \A x \in Range(backlog[c]) :
    IF x = Main
    THEN mpc \in {"listing", "enqueue", "killed"} /\ c = Client
    ELSE wpc[x] = "transfer" /\ \E job \in hand[x] : c = SourceClient(job)

(***************************************************************************)
(* cleanup_manager frees the store and closes the log file, which workers  *)
(* write to, only when every worker is gone; then no accepted job is left  *)
(* behind and nobody holds a connection.                                   *)
(***************************************************************************)
NoWorkOutlivesPool ==
  mpc \in {"cleanup_store", "cleanup_log", "exit"} =>
    /\ hired = {}
    /\ \A j \in Jobs : fate[j] \in {"new", "done"}
    /\ \A c \in Clients : backlog[c] = <<>>

(***************************************************************************)
(* The store is freed twice on one path only: create_thread_pool failed,   *)
(* initialize_manager freed the store and cleanup_manager frees it again.  *)
(* No signal, no later failure and no order of commands leads there, so    *)
(* when it happens no worker was given a job, no pair was stored, no job   *)
(* was lost and no client is kept waiting.                                 *)
(***************************************************************************)
CrashLosesNothing ==
  mpc = "crashed" =>
    /\ hired = {} /\ ~closed
    /\ store = <<>> /\ \A j \in Jobs : fate[j] = "new"
    /\ \A c \in Clients : backlog[c] = <<>>

(***************************************************************************)
(* Once shutdown is requested, by command or by signal, the process ends:  *)
(* main leaves its loops and destroy_thread_pool joins every worker.       *)
(***************************************************************************)
ShutdownCompletes == stop ~> ~Running

(***************************************************************************)
(* handle_add_command returns.  It holds when the files of a source never  *)
(* outnumber workers and queue slots, and directories exist; see the       *)
(* README for what happens otherwise.                                      *)
(***************************************************************************)
AddReturns == mpc = "list" ~> mpc \notin AddPlaces

(***************************************************************************)
(* Every accepted job is carried out, unless the process is killed: no     *)
(* worker waits for ever at a client.                                      *)
(***************************************************************************)
QueuedJobsDone ==
  \A j \in Jobs : fate[j] = "queued" ~> (fate[j] = "done" \/ ~Running)

Cancelled(s) == \E i \in DOMAIN store : store[i].source = s /\ ~store[i].active

(***************************************************************************)
(* "cancel" stops synchronization: after it was answered so, no worker     *)
(* takes another job of that source.  Not so: nothing reads `active'.      *)
(***************************************************************************)
CancelStops ==
  [][\A j \in Jobs : fate[j] = "queued" /\ Cancelled(SourceOf[j[1]]) =>
       fate'[j] # "running"]_vars
=============================================================================
