--------------------------- MODULE ManagerProofs ----------------------------
(***************************************************************************)
(* Proofs about Manager for every configuration: any pairs, sources,       *)
(* clients, files, workers, buffer sizes and faults.                       *)
(***************************************************************************)
EXTENDS Manager, SequenceFacts

(***************************************************************************)
(* The parts of the inductive invariant that no property states.           *)
(***************************************************************************)

\* A worker has a job exactly while it is in sync_single_file, and each
\* running job is in the hand of one worker
RunningJobs ==
  /\ \A w \in Workers : wpc[w] = "idle" <=> hand[w] = {}
  /\ \A w \in Workers : hand[w] # {} => w \in hired
  /\ \A w \in Workers : \A i, j \in hand[w] : i = j
  /\ \A w \in Workers : \A j \in hand[w] : fate[j] = "running"
  /\ \A v, w \in Workers : hand[v] \cap hand[w] # {} => v = w
  /\ \A j \in Jobs : fate[j] = "running" => \E w \in Workers : j \in hand[w]

\* The queue holds the queued jobs, each once; jobs wait only while all
\* workers are there
QueuedJobs ==
  /\ \A j \in Jobs : fate[j] = "queued" <=> j \in Range(queue)
  /\ IsInjective(queue)
  /\ queue # <<>> => hired = Workers

\* The one job that can be offered is that of the next name in the list
OfferedJobs ==
  \A j \in Jobs :
    /\ fate[j] = "offered" =>
         mpc \in {"enqueue", "killed"} /\ listed # <<>> /\ j = Job
    /\ fate[j] # "refused"

\* What handle_add_command has done for the pair that it is adding: nothing
\* before the list has come, then a job for each name it has passed and could
\* make one for
AddProgress ==
  /\ mpc \in AddPlaces =>
       /\ answer[cur] # "added"
       /\ \E i \in DOMAIN store : store[i].source = SourceOf[cur]
  /\ mpc \in {"list", "listing"} =>
       \A f \in Files : fate[<<cur, f>>] = "new" /\ <<cur, f>> \notin lost
  /\ mpc = "enqueue" =>
       /\ IsInjective(listed)
       /\ Range(listed) \subseteq Directory(cur)
       /\ \A f \in Files : IF f \in Range(listed) THEN <<cur, f>> \notin lost
                           ELSE Settled(cur, f)
  /\ \A p \in Pairs : answer[p] = "added" \/ (\E f \in Files : <<p, f>> \in lost) =>
       \E i \in DOMAIN store : store[i].source = SourceOf[p]

\* Nothing has happened yet
Pristine ==
  /\ hired = {} /\ ~closed
  /\ store = <<>> /\ \A j \in Jobs : fate[j] = "new"
  /\ \A c \in Clients : backlog[c] = <<>>

\* What the place of the main thread says about pool, store and queue
Phases ==
  /\ mpc = "init" => Pristine /\ store_mem = "none" /\ pool = "none"
  /\ mpc = "spawn" =>
       ~closed /\ store_mem = "live" /\ pool = "none" /\ \A j \in Jobs : fate[j] = "new"
  /\ mpc \in {"config", "serve", "console", "join"} \cup AddPlaces =>
       store_mem = "live" /\ pool = "live"
  /\ mpc \in {"config", "console"} \cup AddPlaces => ~closed
  /\ mpc = "serve" /\ closed => stop
  /\ mpc = "join" => closed
  /\ mpc = "cleanup_pool" /\ pool = "live" => store_mem = "live"
  /\ mpc = "cleanup_pool" /\ pool = "none" => Pristine
  /\ mpc = "cleanup_store" /\ store_mem = "freed" => Pristine
  /\ pool = "live" /\ ~closed => hired = Workers

IInv ==
  /\ TypeOK
  /\ StoreConsistent
  /\ RunningJobs
  /\ QueuedJobs
  /\ OfferedJobs
  /\ AddProgress
  /\ AddedMeansQueued
  /\ NoConnectionKept
  /\ Phases
  /\ NoWorkOutlivesPool
  /\ CrashLosesNothing
-----------------------------------------------------------------------------
(***************************************************************************)
(* IInv is inductive.                                                      *)
(***************************************************************************)
\* A manager that has just started satisfies it
LEMMA InitIInv == Init => IInv
<1>. SUFFICES ASSUME Init PROVE IInv
  OBVIOUS
<1>1. /\ \A S : <<>> \in Seq(S)
      /\ Len(<<>>) = 0 /\ Range(<<>>) = {} /\ IsInjective(<<>>)
  BY EmptySeq DEF Range, IsInjective
<1>2. Len(ConfigLines) \in Nat
  BY ManagerAssumption, LenProperties
<1>3. TypeOK
  <2>1. /\ queue \in Seq(Jobs) /\ Len(queue) <= BufferSize
        /\ fate \in [Jobs -> JQ!Fates] /\ closed \in BOOLEAN
        /\ hand \in [Workers -> SUBSET Jobs] /\ hired \subseteq Workers
    <3>1. Len(queue) <= BufferSize
      BY <1>1, ManagerAssumption DEF Init, JQ!JQInit
    <3>. QED
      BY <1>1, <3>1 DEF Init, JQ!JQInit, JQ!Fates
  <2>2. /\ backlog \in [Clients -> Seq(Connections)]
        /\ \A c \in Clients : IsInjective(backlog[c])
        /\ lost \subseteq Jobs /\ listed \in Seq(Files)
        /\ store \in Seq([source : Sources, active : BOOLEAN])
    BY <1>1 DEF Init
  <2>3. line \in 1 .. Len(ConfigLines) + 1
    BY <1>2 DEF Init
  <2>4. /\ mpc \in Places /\ ret \in {"config", "console"}
        /\ cur \in Pairs \cup {NoPair}
        /\ (cur \in Pairs) <=> (mpc \in AddPlaces \/ (mpc = "killed" /\ cur # NoPair))
    BY ManagerAssumption DEF Init, Places, AddPlaces, Ends
  <2>. QED
    BY <2>1, <2>2, <2>3, <2>4 DEF Init, TypeOK
<1>4. StoreConsistent /\ AddedMeansQueued /\ NoConnectionKept
  BY <1>1 DEF Init, StoreConsistent, AddedMeansQueued, Settled, NoConnectionKept, JQ!JQInit
<1>5. RunningJobs /\ QueuedJobs /\ OfferedJobs
  BY <1>1 DEF Init, RunningJobs, QueuedJobs, OfferedJobs, JQ!JQInit
<1>6. AddProgress /\ Phases /\ NoWorkOutlivesPool /\ CrashLosesNothing
  BY DEF Init, AddProgress, Phases, Pristine, NoWorkOutlivesPool, CrashLosesNothing,
         AddPlaces, JQ!JQInit
<1>. QED
  BY <1>3, <1>4, <1>5, <1>6 DEF IInv

\* When the last worker has been joined, every job that was made is done and
\* no connection is left
LEMMA PoolDrained ==
  ASSUME IInv, hired = {}, mpc \notin {"listing", "enqueue", "killed"}
  PROVE  /\ \A j \in Jobs : fate[j] \in {"new", "done"}
         /\ \A c \in Clients : backlog[c] = <<>>
<1>1. \A w \in Workers : hand[w] = {} /\ wpc[w] = "idle"
  BY DEF IInv, RunningJobs
<1>2. Range(queue) = {}
  BY EmptySeq, ManagerAssumption DEF IInv, QueuedJobs, Range
<1>3. \A j \in Jobs : fate[j] \in {"new", "done"}
  BY <1>1, <1>2 DEF IInv, TypeOK, JQ!Fates, RunningJobs, QueuedJobs, OfferedJobs
<1>4. ASSUME NEW c \in Clients PROVE backlog[c] = <<>>
  <2>1. backlog[c] \in Seq(Connections) /\ Range(backlog[c]) \subseteq Connections
    BY ElementOfSeq DEF IInv, TypeOK, Range
  <2>2. Range(backlog[c]) = {}
    BY <1>1, <2>1 DEF IInv, NoConnectionKept, Connections
  <2>. QED
    BY <2>1, <2>2, EmptyRange
<1>. QED
  BY <1>3, <1>4

\* The steps that only move the main thread, note a signal, or get and give
\* back resources
MoveStep ==
  \/ InitFails \/ InitPoolFails \/ InitSucceeds \/ OpenConfig
  \/ ConfigLoaded \/ AcceptConsole \/ ConsoleEnds \/ MainLoopEnds
  \/ (\E sig \in Signals : SignalUnnoticed(sig)) \/ SecondSignal
  \/ PoolDestroyed \/ NoPool \/ CleanupStore \/ CleanupLog \/ Ended
  \/ UNCHANGED vars

\* None of them disturbs the work under way
LEMMA MoveIInv == IInv /\ MoveStep => IInv'
<1>. SUFFICES ASSUME IInv, MoveStep PROVE IInv'
  OBVIOUS
<1>. USE DEF addvars, storevars, resvars, netvars, poolvars
<1>1. UNCHANGED <<addvars, store, count, backlog, wpc, poolvars>>
  BY DEF MoveStep, InitFails, InitPoolFails, InitSucceeds, OpenConfig, ConfigLoaded,
         AcceptConsole, ConsoleEnds, MainLoopEnds, SignalUnnoticed, SecondSignal,
         PoolDestroyed, NoPool, CleanupStore, CleanupLog, Ended, vars
<1>2. \/ mpc' = mpc
      \/ mpc' = "killed"
      \/ mpc \notin AddPlaces \cup {"killed"} /\ mpc' \notin AddPlaces
  BY DEF AddPlaces, Running, Handle, MoveStep, InitFails, InitPoolFails,
      InitSucceeds, OpenConfig, ConfigLoaded, AcceptConsole, ConsoleEnds, MainLoopEnds,
      SignalUnnoticed, SecondSignal, PoolDestroyed, NoPool, CleanupStore,
      CleanupLog, Ended, vars
<1>3. TypeOK'
  <2>1. mpc' \in Places
    BY DEF IInv, TypeOK, Places, Ends, MoveStep, InitFails, InitPoolFails, InitSucceeds,
           OpenConfig, ConfigLoaded, AcceptConsole, ConsoleEnds, MainLoopEnds,
           SignalUnnoticed, SecondSignal, PoolDestroyed, NoPool, CleanupStore, CleanupLog, Ended, vars
  <2>2. (cur \in Pairs) <=> (mpc' \in AddPlaces \/ (mpc' = "killed" /\ cur # NoPair))
    BY <1>2, ManagerAssumption DEF IInv, TypeOK, AddPlaces
  <2>3. /\ store_mem' \in {"none", "live", "freed"}
        /\ pool' \in {"none", "live"} /\ logfile' \in {"none", "open", "closed"}
        /\ stop' \in BOOLEAN /\ caught' \subseteq Signals /\ line' = line
    BY DEF IInv, TypeOK, Handle, MoveStep, InitFails, InitPoolFails, InitSucceeds,
           OpenConfig, ConfigLoaded, AcceptConsole, ConsoleEnds, MainLoopEnds,
           SignalUnnoticed, SecondSignal, PoolDestroyed, NoPool, CleanupStore, CleanupLog, Ended, vars
  <2>. QED
    BY <1>1, <2>1, <2>2, <2>3 DEF IInv, TypeOK
<1>4. StoreConsistent' /\ RunningJobs' /\ QueuedJobs' /\ AddedMeansQueued'
  BY <1>1 DEF IInv, StoreConsistent, RunningJobs, QueuedJobs, AddedMeansQueued, Settled, Directory
<1>5. OfferedJobs'
  BY <1>1, <1>2 DEF IInv, OfferedJobs, Job, AddPlaces
<1>6. AddProgress'
  <2>1. CASE mpc' \in AddPlaces
    <3>1. mpc' = mpc
      BY <1>2, <2>1 DEF AddPlaces
    <3>. QED
      BY <1>1, <3>1 DEF IInv, AddProgress, Settled, Directory
  <2>2. CASE mpc' \notin AddPlaces
    BY <1>1, <2>2 DEF IInv, AddProgress, AddPlaces
  <2>. QED
    BY <2>1, <2>2
<1>7. NoConnectionKept'
  <2>1. Client' = Client /\ \A x \in Workers : hand'[x] = hand[x]
    BY <1>1 DEF Client
  <2>. QED
    BY <1>1, <1>2, <2>1 DEF IInv, NoConnectionKept, AddPlaces
<1>8. Phases'
  BY <1>1, <1>2
  DEF IInv, TypeOK, Phases, Pristine, AddPlaces, MoveStep, InitFails, InitPoolFails,
      InitSucceeds, OpenConfig, ConfigLoaded, AcceptConsole, ConsoleEnds, MainLoopEnds,
      SignalUnnoticed, Handle, SecondSignal, PoolDestroyed, NoPool, CleanupStore,
      CleanupLog, Ended, vars
<1>9. NoWorkOutlivesPool'
  <2>1. CASE PoolDestroyed
    BY <1>1, <2>1, PoolDrained DEF PoolDestroyed, WorkersJoined, NoWorkOutlivesPool
  <2>2. CASE NoPool
    BY <1>1, <2>2 DEF NoPool, IInv, Phases, Pristine, NoWorkOutlivesPool
  <2>3. CASE ~PoolDestroyed /\ ~NoPool
    <3>1. mpc' \in {"cleanup_store", "cleanup_log", "exit"} =>
            mpc \in {"cleanup_store", "cleanup_log", "exit"}
      BY <2>3 DEF MoveStep, InitFails, InitPoolFails, InitSucceeds, OpenConfig,
           ConfigLoaded, AcceptConsole, ConsoleEnds, MainLoopEnds, SignalUnnoticed,
           SecondSignal, CleanupStore, CleanupLog, Ended, vars
    <3>. QED
      BY <1>1, <3>1 DEF IInv, NoWorkOutlivesPool
  <2>. QED
    BY <2>1, <2>2, <2>3
<1>10. CrashLosesNothing'
  <2>1. mpc' = "crashed" => mpc = "crashed" \/ (mpc = "cleanup_store" /\ store_mem = "freed")
    BY DEF MoveStep, InitFails, InitPoolFails, InitSucceeds, OpenConfig, ConfigLoaded,
           AcceptConsole, ConsoleEnds, MainLoopEnds,
           SignalUnnoticed, SecondSignal, PoolDestroyed, NoPool, CleanupStore, CleanupLog, Ended, vars
  <2>. QED
    BY <1>1, <2>1 DEF IInv, CrashLosesNothing, Phases, Pristine
<1>. QED
  BY <1>3, <1>4, <1>5, <1>6, <1>7, <1>8, <1>9, <1>10 DEF IInv

\* The steps that hire workers, close the queue or let workers go
LEMMA StaffIInv ==
  IInv /\ (DestroyPool \/ ShutdownCommand \/ \E w \in Workers : SpawnWorker(w) \/ WorkerRetires(w))
    => IInv'
<1>. SUFFICES ASSUME IInv,
                     \/ DestroyPool \/ ShutdownCommand
                     \/ \E w \in Workers : SpawnWorker(w) \/ WorkerRetires(w)
              PROVE  IInv'
  OBVIOUS
<1>. USE DEF addvars, storevars, resvars, netvars
<1>1. /\ UNCHANGED <<addvars, line, storevars, resvars, caught, netvars, queue, fate, hand>>
      /\ \/ mpc' = mpc
         \/ mpc \in {"cleanup_pool", "console"} /\ mpc' \in {"join", "serve"}
  BY DEF DestroyPool, ShutdownCommand, SpawnWorker, WorkerRetires, JQ!Close, JQ!Hire,
         JQ!Retire
<1>2. /\ hired' \subseteq Workers /\ closed' \in BOOLEAN /\ stop' \in BOOLEAN
      /\ \A w \in hired : w \in hired' \/ (hand[w] = {} /\ queue = <<>> /\ closed)
      /\ queue # <<>> => hired' = Workers
  <2>1. CASE DestroyPool \/ ShutdownCommand
    <3>1. hired' = hired /\ closed' = TRUE /\ (stop' = stop \/ stop' = TRUE)
      BY <2>1 DEF DestroyPool, ShutdownCommand, JQ!Close
    <3>. QED
      BY <3>1 DEF IInv, TypeOK, QueuedJobs
  <2>2. ASSUME NEW w \in Workers, SpawnWorker(w)
        PROVE  hired' = hired \cup {w} /\ closed' = closed /\ stop' = stop
    BY <2>2 DEF SpawnWorker, JQ!Hire
  <2>3. ASSUME NEW w \in Workers, WorkerRetires(w)
        PROVE  /\ hired' = hired \ {w} /\ closed' = closed /\ stop' = stop
               /\ hand[w] = {} /\ queue = <<>> /\ closed
    BY <2>3 DEF WorkerRetires, JQ!Retire
  <2>4. hired \subseteq Workers /\ closed \in BOOLEAN /\ stop \in BOOLEAN
        /\ (queue # <<>> => hired = Workers)
    BY DEF IInv, TypeOK, QueuedJobs
  <2>. QED
    BY <2>1, <2>2, <2>3, <2>4
<1>3. TypeOK'
  BY <1>1, <1>2 DEF IInv, TypeOK, Places, AddPlaces
<1>4. RunningJobs' /\ QueuedJobs'
  BY <1>1, <1>2 DEF IInv, RunningJobs, QueuedJobs
<1>5. StoreConsistent' /\ OfferedJobs' /\ AddProgress' /\ AddedMeansQueued'
  BY <1>1 DEF IInv, StoreConsistent, OfferedJobs, AddProgress, AddedMeansQueued, Settled,
              Directory, Job, AddPlaces
<1>6. NoConnectionKept'
  <2>1. Client' = Client
    BY <1>1 DEF Client
  <2>. QED
    BY <1>1, <2>1 DEF IInv, NoConnectionKept
<1>7. Phases'
  BY <1>1
  DEF IInv, TypeOK, Phases, Pristine, AddPlaces, DestroyPool, ShutdownCommand, SpawnWorker,
      WorkerRetires, JQ!Close, JQ!Hire, JQ!Retire
<1>8. NoWorkOutlivesPool' /\ CrashLosesNothing'
  BY <1>1
  DEF IInv, NoWorkOutlivesPool, CrashLosesNothing, DestroyPool, ShutdownCommand,
      SpawnWorker, WorkerRetires, JQ!Close, JQ!Hire, JQ!Retire
<1>. QED
  BY <1>3, <1>4, <1>5, <1>6, <1>7, <1>8 DEF IInv

\* A connection that is closed leaves the queue of its client and no other
LEMMA HangupRemoves ==
  ASSUME TypeOK, NEW conn
  PROVE  /\ Hangup(conn) \in [Clients -> Seq(Connections)]
         /\ \A c \in Clients : /\ IsInjective(Hangup(conn)[c])
                               /\ Range(Hangup(conn)[c]) = Range(backlog[c]) \ {conn}
<1>1. ASSUME NEW c \in Clients
      PROVE  /\ Hangup(conn)[c] \in Seq(Connections)
             /\ IsInjective(Hangup(conn)[c])
             /\ Range(Hangup(conn)[c]) = Range(backlog[c]) \ {conn}
  <2>1. backlog[c] \in Seq(Connections) /\ IsInjective(backlog[c])
    BY DEF TypeOK
  <2>2. Hangup(conn)[c] = RemoveFirst(backlog[c], conn)
    BY DEF Hangup
  <2>. QED
    BY <2>1, <2>2, RemoveFirstElements
<1>2. Hangup(conn) = [c \in Clients |-> Hangup(conn)[c]]
  BY DEF Hangup
<1>. QED
  BY <1>1, <1>2

\* What a worker does to its job leaves handle_add_command where it is
LEMMA AddProgressKept ==
  ASSUME IInv, UNCHANGED <<mpc, addvars, store>>,
         \A p \in Pairs, f \in Files : Settled(p, f) => Settled(p, f)',
         \A p \in Pairs, f \in Files : fate[<<p, f>>] = "new" => fate'[<<p, f>>] = "new"
  PROVE  AddProgress'
<1>1. UNCHANGED <<mpc, cur, listed, lost, answer, store>>
  BY DEF addvars
<1>2. mpc \in AddPlaces => cur \in Pairs
  BY DEF IInv, TypeOK
<1>3. mpc = "enqueue" =>
        /\ IsInjective(listed)
        /\ Range(listed) \subseteq Directory(cur)
        /\ \A f \in Files : IF f \in Range(listed) THEN <<cur, f>> \notin lost
                            ELSE Settled(cur, f)'
  BY <1>1, <1>2 DEF IInv, AddProgress, AddPlaces
<1>4. \A p \in Pairs : Directory(p)' = Directory(p)
  BY DEF Directory
<1>. QED
  BY <1>1, <1>2, <1>3, <1>4 DEF IInv, AddProgress, AddPlaces

\* A worker takes the first job of the queue
LEMMA TakeIInv ==
  ASSUME IInv, NEW w \in Workers, WorkerTakes(w)
  PROVE  IInv'
<1>. DEFINE j == Head(queue)
<1>. USE DEF addvars, storevars, resvars, netvars
<1>1. /\ UNCHANGED <<mpc, addvars, line, storevars, resvars, stop, caught, backlog, closed, hired>>
      /\ w \in hired /\ hand[w] = {} /\ queue # <<>>
      /\ queue' = Tail(queue)
      /\ fate' = [fate EXCEPT ![j] = "running"]
      /\ hand' = [hand EXCEPT ![w] = {j}]
      /\ wpc' = [wpc EXCEPT ![w] = "connect"]
  BY DEF WorkerTakes, JQ!Take
<1>2. /\ queue \in Seq(Jobs) /\ IsInjective(queue) /\ fate \in [Jobs -> JQ!Fates]
      /\ hand \in [Workers -> SUBSET Jobs]
      /\ wpc \in [Workers -> {"idle", "connect", "transfer"}]
  BY DEF IInv, TypeOK, QueuedJobs
<1>3. /\ j \in Jobs /\ j \in Range(queue) /\ Tail(queue) \in Seq(Jobs)
      /\ Range(Tail(queue)) = Range(queue) \ {j} /\ IsInjective(Tail(queue))
      /\ Len(Tail(queue)) <= Len(queue)
  BY <1>1, <1>2, TailIndices, TailElements
<1>4. /\ fate[j] = "queued" /\ wpc[w] = "idle" /\ hired = Workers
      /\ mpc \notin {"init", "spawn", "cleanup_store", "cleanup_log", "exit", "crashed"}
      /\ ~(mpc = "cleanup_pool" /\ pool = "none")
  BY <1>1, <1>2, <1>3
  DEF IInv, QueuedJobs, RunningJobs, Phases, Pristine, NoWorkOutlivesPool, CrashLosesNothing
<1>. HIDE DEF j
<1>5. TypeOK'
  <2>1. Len(queue') <= BufferSize
    BY <1>1, <1>2, <1>3, LenProperties, ManagerAssumption DEF IInv, TypeOK
  <2>. QED
    BY <1>1, <1>2, <1>3, <2>1 DEF IInv, TypeOK, JQ!Fates
<1>6. RunningJobs'
  <2>1. \A v \in Workers : /\ hand'[v] = IF v = w THEN {j} ELSE hand[v]
                           /\ wpc'[v] = IF v = w THEN "connect" ELSE wpc[v]
    BY <1>1, <1>2
  <2>2. \A i \in Jobs : fate'[i] = IF i = j THEN "running" ELSE fate[i]
    BY <1>1, <1>2
  <2>3. \A v \in Workers : j \notin hand[v] /\ hand[v] \subseteq Jobs
    BY <1>2, <1>4 DEF IInv, RunningJobs
  <2>. QED
    BY <1>1, <1>3, <1>4, <2>1, <2>2, <2>3 DEF IInv, RunningJobs
<1>7. QueuedJobs'
  BY <1>1, <1>2, <1>3, <1>4 DEF IInv, QueuedJobs
<1>8. StoreConsistent' /\ OfferedJobs' /\ AddedMeansQueued'
  BY <1>1, <1>2, <1>3, <1>4
  DEF IInv, StoreConsistent, OfferedJobs, AddedMeansQueued, Settled, Directory, Job, Jobs
<1>9. AddProgress'
  <2>1. \A p \in Pairs, f \in Files :
          /\ Settled(p, f) => Settled(p, f)'
          /\ fate[<<p, f>>] = "new" => fate'[<<p, f>>] = "new"
    BY <1>1, <1>2, <1>4 DEF Settled, Directory, Jobs
  <2>. QED
    BY <1>1, <2>1, AddProgressKept
<1>10. NoConnectionKept'
  <2>1. Client' = Client
    BY <1>1 DEF Client
  <2>2. \A c \in Clients : \A x \in Range(backlog[c]) : x # w
    BY <1>1, <1>4, ManagerAssumption DEF IInv, NoConnectionKept
  <2>3. \A c \in Clients : \A x \in Range(backlog[c]) : x # Main => x \in Workers
    BY ElementOfSeq DEF IInv, TypeOK, Connections, Range
  <2>. QED
    BY <1>1, <1>2, <2>1, <2>2, <2>3 DEF IInv, NoConnectionKept
<1>11. Phases' /\ NoWorkOutlivesPool' /\ CrashLosesNothing'
  BY <1>1, <1>4 DEF IInv, Phases, Pristine, NoWorkOutlivesPool, CrashLosesNothing
<1>. QED
  BY <1>5, <1>6, <1>7, <1>8, <1>9, <1>10, <1>11 DEF IInv

\* A worker joins the queue of its source client
LEMMA ConnectIInv ==
  ASSUME IInv, NEW w \in Workers, WorkerConnects(w)
  PROVE  IInv'
<1>. USE DEF addvars, storevars, resvars, poolvars
<1>1. PICK job \in hand[w] :
        backlog' = [backlog EXCEPT ![SourceClient(job)] = Append(@, w)]
  BY DEF WorkerConnects
<1>2. /\ UNCHANGED <<mpc, addvars, line, storevars, resvars, stop, caught, poolvars>>
      /\ Running /\ wpc[w] = "connect"
      /\ wpc' = [wpc EXCEPT ![w] = "transfer"]
  BY DEF WorkerConnects
<1>. DEFINE d == SourceClient(job)
<1>3. /\ job \in Jobs /\ d \in Clients /\ w \in Connections
      /\ backlog \in [Clients -> Seq(Connections)]
      /\ wpc \in [Workers -> {"idle", "connect", "transfer"}]
  BY ManagerAssumption DEF IInv, TypeOK, SourceClient, Jobs, Connections
<1>4. \A c \in Clients : w \notin Range(backlog[c])
  BY <1>2, ManagerAssumption DEF IInv, NoConnectionKept
<1>5. /\ Append(backlog[d], w) \in Seq(Connections)
      /\ Range(Append(backlog[d], w)) = Range(backlog[d]) \cup {w}
      /\ IsInjective(Append(backlog[d], w))
  BY <1>3, <1>4, AppendIndices, AppendElements DEF IInv, TypeOK
<1>. HIDE DEF d
<1>6. \A c \in Clients : backlog'[c] = IF c = d THEN Append(backlog[d], w) ELSE backlog[c]
  BY <1>1, <1>3 DEF d
<1>7. TypeOK'
  <2>1. backlog' \in [Clients -> Seq(Connections)] /\ \A c \in Clients : IsInjective(backlog'[c])
    BY <1>1, <1>3, <1>5, <1>6 DEF IInv, TypeOK, d
  <2>. QED
    BY <1>2, <1>3, <2>1 DEF IInv, TypeOK
<1>8. RunningJobs'
  BY <1>2, <1>3 DEF IInv, RunningJobs
<1>9. QueuedJobs' /\ StoreConsistent' /\ OfferedJobs' /\ AddedMeansQueued'
  BY <1>2 DEF IInv, QueuedJobs, StoreConsistent, OfferedJobs, AddedMeansQueued, Settled, Directory, Job
<1>10. AddProgress'
  BY <1>2, AddProgressKept DEF Settled, Directory
<1>11. NoConnectionKept'
  <2>1. Client' = Client /\ hand' = hand
    BY <1>2 DEF Client
  <2>2. \A c \in Clients : \A x \in Range(backlog[c]) : x # Main => x \in Workers /\ x # w
    BY <1>4, ElementOfSeq DEF IInv, TypeOK, Connections, Range
  <2>3. \A c \in Clients : Range(backlog'[c]) = Range(backlog[c]) \cup IF c = d THEN {w} ELSE {}
    BY <1>5, <1>6
  <2>4. wpc'[w] = "transfer" /\ w # Main /\ \A v \in Workers : v # w => wpc'[v] = wpc[v]
    BY <1>2, <1>3, ManagerAssumption
  <2>. QED
    BY SMTT(30), <1>2, <1>3, <2>1, <2>2, <2>3, <2>4 DEF IInv, NoConnectionKept, d
<1>12. w \in hired /\ hired # {}
  BY <1>2 DEF IInv, RunningJobs
<1>13. Phases' /\ NoWorkOutlivesPool' /\ CrashLosesNothing'
  BY <1>2, <1>12 DEF IInv, Phases, Pristine, NoWorkOutlivesPool, CrashLosesNothing
<1>. QED
  BY <1>7, <1>8, <1>9, <1>10, <1>11, <1>13 DEF IInv

\* sync_single_file returns, served, unreachable or interrupted by a signal:
\* the worker's connection is closed and its job is done
LEMMA FinishIInv ==
  ASSUME IInv, NEW w \in Workers,
         \/ WorkerServed(w) \/ WorkerUnreachable(w)
         \/ \E sig \in Signals : SignalInterruptsWorker(sig, w)
  PROVE  IInv'
<1>. USE DEF addvars, storevars, resvars, netvars
<1>1. /\ UNCHANGED <<mpc, addvars, line, storevars, resvars, queue, closed, hired>>
      /\ stop' \in {stop, TRUE} /\ caught' \subseteq caught \cup Signals
      /\ wpc[w] \in {"connect", "transfer"}
      /\ wpc' = [wpc EXCEPT ![w] = "idle"]
      /\ hand' = [hand EXCEPT ![w] = {}]
      /\ \E j \in hand[w] : fate' = [fate EXCEPT ![j] = "done"]
  BY DEF WorkerServed, WorkerUnreachable, SignalInterruptsWorker, Handle, JQ!Finish
<1>2. PICK j \in hand[w] : fate' = [fate EXCEPT ![j] = "done"]
  BY <1>1
<1>3. /\ j \in Jobs /\ hand[w] = {j} /\ fate[j] = "running" /\ w \in hired
      /\ wpc \in [Workers -> {"idle", "connect", "transfer"}]
      /\ hand \in [Workers -> SUBSET Jobs] /\ fate \in [Jobs -> JQ!Fates]
  BY DEF IInv, TypeOK, RunningJobs
<1>4. /\ \A v \in Workers : /\ hand'[v] = IF v = w THEN {} ELSE hand[v]
                            /\ wpc'[v] = IF v = w THEN "idle" ELSE wpc[v]
      /\ \A i \in Jobs : fate'[i] = IF i = j THEN "done" ELSE fate[i]
  BY <1>1, <1>2, <1>3
<1>5. /\ backlog' \in [Clients -> Seq(Connections)]
      /\ \A c \in Clients : /\ IsInjective(backlog'[c])
                            /\ Range(backlog'[c]) = Range(backlog[c]) \ {w}
  <2>1. CASE backlog' = Hangup(w)
    BY <2>1, HangupRemoves DEF IInv
  <2>2. CASE WorkerUnreachable(w)
    <3>1. \A c \in Clients : w \notin Range(backlog[c])
      BY <2>2, ManagerAssumption DEF WorkerUnreachable, IInv, NoConnectionKept
    <3>. QED
      BY <2>2, <3>1 DEF WorkerUnreachable, IInv, TypeOK
  <2>. QED
    BY <2>1, <2>2 DEF WorkerServed, SignalInterruptsWorker
<1>6. TypeOK'
  <2>1. wpc' \in [Workers -> {"idle", "connect", "transfer"}]
    BY <1>1, <1>3
  <2>2. hand' \in [Workers -> SUBSET Jobs] /\ fate' \in [Jobs -> JQ!Fates]
    BY <1>1, <1>2, <1>3 DEF JQ!Fates
  <2>3. stop' \in BOOLEAN /\ caught' \subseteq Signals
    BY <1>1 DEF IInv, TypeOK
  <2>. QED
    BY <1>1, <1>5, <2>1, <2>2, <2>3 DEF IInv, TypeOK
<1>7. RunningJobs'
  BY <1>1, <1>3, <1>4 DEF IInv, RunningJobs
<1>8. QueuedJobs' /\ StoreConsistent' /\ OfferedJobs'
  BY <1>1, <1>3, <1>4
  DEF IInv, QueuedJobs, StoreConsistent, OfferedJobs, Job
<1>9. AddedMeansQueued' /\ AddProgress'
  <2>1. \A p \in Pairs, f \in Files :
          /\ Settled(p, f) => Settled(p, f)'
          /\ fate[<<p, f>>] = "new" => fate'[<<p, f>>] = "new"
    BY <1>1, <1>3, <1>4 DEF Settled, Directory, Jobs
  <2>. QED
    BY <1>1, <2>1, AddProgressKept DEF IInv, AddedMeansQueued
<1>10. NoConnectionKept'
  <2>1. Client' = Client
    BY <1>1 DEF Client
  <2>2. \A c \in Clients : \A x \in Range(backlog[c]) : x # Main => x \in Workers
    BY ElementOfSeq DEF IInv, TypeOK, Connections, Range
  <2>. QED
    BY <1>1, <1>4, <1>5, <2>1, <2>2 DEF IInv, NoConnectionKept
<1>11. /\ mpc \notin {"init", "spawn", "cleanup_store", "cleanup_log", "exit", "crashed"}
       /\ ~(mpc = "cleanup_pool" /\ pool = "none")
  BY <1>3 DEF IInv, Phases, Pristine, NoWorkOutlivesPool, CrashLosesNothing
<1>12. Phases' /\ NoWorkOutlivesPool' /\ CrashLosesNothing'
  <2>1. stop => stop'
    BY <1>1
  <2>. QED
    BY <1>1, <1>11, <2>1 DEF IInv, Phases, NoWorkOutlivesPool, CrashLosesNothing
<1>. QED
  BY <1>6, <1>7, <1>8, <1>9, <1>10, <1>12 DEF IInv

\* The store with an entry for source s in front
Entered(s) == <<[source |-> s, active |-> TRUE]>> \o store

\* A source that was not found is entered once, and nothing else is disturbed
LEMMA PrependedStore ==
  ASSUME IInv, NEW s \in Sources, ~Find(s)
  PROVE  /\ Entered(s) \in Seq([source : Sources, active : BOOLEAN])
         /\ Len(Entered(s)) = Len(store) + 1
         /\ \A i, k \in DOMAIN Entered(s) : Entered(s)[i].source = Entered(s)[k].source => i = k
         /\ \E i \in DOMAIN Entered(s) : Entered(s)[i].source = s
         /\ \A r \in Sources : (\E i \in DOMAIN store : store[i].source = r)
              => \E i \in DOMAIN Entered(s) : Entered(s)[i].source = r
<1>. DEFINE Entries == [source : Sources, active : BOOLEAN]
            e == [source |-> s, active |-> TRUE]
            new == Entered(s)
<1>1. store \in Seq(Entries) /\ e \in Entries
  BY DEF IInv, TypeOK
<1>2. /\ <<e>> \in Seq(Entries) /\ Len(<<e>>) = 1 /\ <<e>>[1] = e
  BY <1>1
<1>3. /\ Len(store) \in Nat /\ DOMAIN store = 1..Len(store)
  BY <1>1, LenProperties
<1>4. /\ new \in Seq(Entries) /\ Len(new) = Len(<<e>>) + Len(store)
      /\ \A i \in 1..(Len(<<e>>) + Len(store)) :
           new[i] = IF i <= Len(<<e>>) THEN <<e>>[i] ELSE store[i - Len(<<e>>)]
  BY <1>1, <1>2, ConcatProperties DEF Entered
<1>. HIDE DEF new
<1>5. DOMAIN new = 1..(Len(store) + 1) /\ Len(new) = Len(store) + 1
  BY <1>2, <1>3, <1>4, LenProperties
<1>6. /\ new[1] = e
      /\ \A i \in DOMAIN new : i # 1 => new[i] = store[i - 1] /\ i - 1 \in DOMAIN store
      /\ \A i \in DOMAIN store : i + 1 \in DOMAIN new /\ new[i + 1] = store[i]
  <2>1. new[1] = <<e>>[1]
    <3>1. 1 \in 1..(Len(<<e>>) + Len(store)) /\ 1 <= Len(<<e>>)
      BY <1>2, <1>3
    <3>. QED
      BY <1>4, <3>1
  <2>2. ASSUME NEW i \in DOMAIN new, i # 1
        PROVE  new[i] = store[i - 1] /\ i - 1 \in DOMAIN store
    <3>1. i \in 1..(Len(<<e>>) + Len(store)) /\ ~(i <= Len(<<e>>)) /\ i - Len(<<e>>) = i - 1
      BY <1>2, <1>3, <1>5, <2>2
    <3>. QED
      BY <1>3, <1>4, <1>5, <2>2, <3>1
  <2>3. ASSUME NEW i \in DOMAIN store
        PROVE  i + 1 \in DOMAIN new /\ new[i + 1] = store[i]
    <3>1. i + 1 \in DOMAIN new /\ i + 1 # 1 /\ (i + 1) - 1 = i
      BY <1>3, <1>5
    <3>. QED
      BY <2>2, <3>1
  <2>. QED
    BY <1>2, <2>1, <2>2, <2>3
<1>7. \A i \in DOMAIN store : store[i].source # s
  BY DEF Find, Matches
<1>8. \A i, k \in DOMAIN new : new[i].source = new[k].source => i = k
  <2>. SUFFICES ASSUME NEW i \in DOMAIN new, NEW k \in DOMAIN new, new[i].source = new[k].source
                PROVE  i = k
    OBVIOUS
  <2>1. CASE i = 1 \/ k = 1
    BY <1>6, <1>7, <2>1
  <2>2. CASE i # 1 /\ k # 1
    <3>1. i - 1 = k - 1
      BY <1>6, <2>2 DEF IInv, StoreConsistent
    <3>. QED
      BY <1>3, <1>5, <3>1
  <2>. QED
    BY <2>1, <2>2
<1>9. \E i \in DOMAIN new : new[i].source = s
  <2>1. 1 \in DOMAIN new /\ new[1].source = s
    BY <1>3, <1>5, <1>6
  <2>. QED
    BY <2>1
<1>10. ASSUME NEW r \in Sources, NEW i \in DOMAIN store, store[i].source = r
       PROVE  \E k \in DOMAIN new : new[k].source = r
  <2>1. i + 1 \in DOMAIN new /\ new[i + 1].source = r
    BY <1>3, <1>5, <1>6, <1>10
  <2>. QED
    BY <2>1
<1>. QED
  BY <1>4, <1>5, <1>8, <1>9, <1>10 DEF new

\* handle_add_command finds the source in the store, or enters it
LEMMA BeginAddIInv ==
  ASSUME IInv,
         \/ ConfigLine
         \/ \E p \in Pairs : AddCommand(p)
  PROVE  IInv'
<1>. USE DEF storevars, resvars, netvars, poolvars
<1>1. PICK p \in Pairs, from \in {"config", "console"} : mpc = from /\ BeginAdd(p, from)
  <2>1. CASE ConfigLine
    <3>1. ConfigLines[line] \in Pairs
      BY <2>1, ManagerAssumption, ElementOfSeq DEF ConfigLine, IInv, TypeOK
    <3>. QED
      BY <2>1, <3>1 DEF ConfigLine
  <2>2. CASE \E p \in Pairs : AddCommand(p)
    BY <2>2 DEF AddCommand
  <2>. QED
    BY <2>1, <2>2
<1>2. /\ UNCHANGED <<resvars, stop, caught, netvars, poolvars>>
      /\ line' \in 1 .. Len(ConfigLines) + 1
  <2>1. Len(ConfigLines) \in Nat
    BY ManagerAssumption, LenProperties
  <2>. QED
    BY <2>1 DEF ConfigLine, AddCommand, IInv, TypeOK
<1>3. /\ cur = NoPair /\ cur \notin Pairs /\ SourceOf[p] \in Sources
      /\ \A j \in Jobs : fate[j] # "offered"
      /\ \A c \in Clients : Main \notin Range(backlog[c])
  BY <1>1, ManagerAssumption
  DEF IInv, TypeOK, AddPlaces, OfferedJobs, NoConnectionKept
<1>4. \A c \in Clients : \A x \in Range(backlog[c]) : x \in Workers
  BY <1>3, ElementOfSeq DEF IInv, TypeOK, Connections, Range
<1>5. RunningJobs' /\ QueuedJobs'
  BY <1>2 DEF IInv, RunningJobs, QueuedJobs
<1>6. OfferedJobs'
  BY <1>2, <1>3 DEF IInv, OfferedJobs
<1>7. NoConnectionKept'
  BY <1>2, <1>3, <1>4, ManagerAssumption DEF IInv, NoConnectionKept
<1>8. CASE Find(SourceOf[p])
  <2>1. /\ UNCHANGED <<mpc, ret, cur, listed, lost, storevars>>
        /\ answer' = [answer EXCEPT ![p] = "exists"]
    BY <1>1, <1>8 DEF BeginAdd
  <2>2. TypeOK'
    BY <1>2, <2>1 DEF IInv, TypeOK
  <2>3. StoreConsistent' /\ AddedMeansQueued'
    BY <1>2, <2>1 DEF IInv, TypeOK, StoreConsistent, AddedMeansQueued, Settled, Directory
  <2>4. AddProgress'
    BY <1>1, <1>2, <2>1 DEF IInv, TypeOK, AddProgress, AddPlaces
  <2>5. Phases' /\ NoWorkOutlivesPool' /\ CrashLosesNothing'
    BY <1>1, <1>2, <2>1 DEF IInv, Phases, NoWorkOutlivesPool, CrashLosesNothing
  <2>. QED
    BY <1>5, <1>6, <1>7, <2>2, <2>3, <2>4, <2>5 DEF IInv
<1>9. CASE ~Find(SourceOf[p])
  <2>. DEFINE new == Entered(SourceOf[p])
  <2>1. /\ store' = new /\ count' = count + 1
        /\ cur' = p /\ ret' = from /\ mpc' = "list"
        /\ UNCHANGED <<answer, lost, listed, store_mem>>
    BY <1>1, <1>9 DEF BeginAdd, Entered
  <2>2. /\ store' \in Seq([source : Sources, active : BOOLEAN])
        /\ Len(store') = Len(store) + 1
        /\ \A i, k \in DOMAIN store' : store'[i].source = store'[k].source => i = k
        /\ \E i \in DOMAIN store' : store'[i].source = SourceOf[p]
        /\ \A r \in Sources : (\E i \in DOMAIN store : store[i].source = r)
             => \E i \in DOMAIN store' : store'[i].source = r
    <3>1. /\ new \in Seq([source : Sources, active : BOOLEAN])
          /\ Len(new) = Len(store) + 1
          /\ \A i, k \in DOMAIN new : new[i].source = new[k].source => i = k
          /\ \E i \in DOMAIN new : new[i].source = SourceOf[p]
          /\ \A r \in Sources : (\E i \in DOMAIN store : store[i].source = r)
               => \E i \in DOMAIN new : new[i].source = r
      BY <1>3, <1>9, PrependedStore
    <3>. HIDE DEF new
    <3>. QED
      BY <2>1, <3>1
  <2>3. \A q \in Pairs : SourceOf[q] \in Sources
    BY ManagerAssumption
  <2>4. TypeOK'
    BY <1>1, <1>2, <2>1, <2>2, ManagerAssumption DEF IInv, TypeOK, Places, AddPlaces
  <2>5. StoreConsistent'
    BY <1>2, <2>1, <2>2, <2>3 DEF IInv, StoreConsistent, Jobs
  <2>6. AddProgress'
    <3>1. \A f \in Files : fate[<<p, f>>] = "new"
      BY <1>9 DEF IInv, StoreConsistent, Find, Matches, Jobs
    <3>2. answer[p] # "added" /\ \A f \in Files : <<p, f>> \notin lost
      BY <1>9 DEF IInv, AddProgress, Find, Matches
    <3>. QED
      BY <1>2, <2>1, <2>2, <2>3, <3>1, <3>2 DEF IInv, AddProgress
  <2>7. AddedMeansQueued'
    BY <1>2, <2>1 DEF IInv, AddedMeansQueued, Settled, Directory
  <2>8. Phases' /\ NoWorkOutlivesPool' /\ CrashLosesNothing'
    BY <1>1, <1>2, <2>1 DEF IInv, Phases, NoWorkOutlivesPool, CrashLosesNothing, AddPlaces
  <2>. QED
    BY <1>5, <1>6, <1>7, <2>4, <2>5, <2>6, <2>7, <2>8 DEF IInv
<1>. QED
  BY <1>8, <1>9

\* handle_cancel_command clears a flag that no invariant speaks of
LEMMA CancelIInv ==
  ASSUME IInv, NEW s \in Sources, CancelCommand(s)
  PROVE  IInv'
<1>. USE DEF addvars, resvars, netvars, poolvars
<1>1. /\ UNCHANGED <<mpc, addvars, line, count, store_mem, resvars, stop, caught, netvars,
                   poolvars>>
      /\ mpc = "console"
      /\ store' = [i \in DOMAIN store |->
                     IF Matches(store[i], s) THEN [store[i] EXCEPT !.active = FALSE] ELSE store[i]]
  BY DEF CancelCommand
<1>. DEFINE Entries == [source : Sources, active : BOOLEAN]
<1>2. /\ store \in Seq(Entries) /\ Len(store) \in Nat /\ DOMAIN store = 1..Len(store)
      /\ \A i \in DOMAIN store : store[i] \in Entries
  BY ZenonT(60), LenProperties, ElementOfSeq DEF IInv, TypeOK
<1>3. /\ DOMAIN store' = DOMAIN store
      /\ \A i \in DOMAIN store : store'[i].source = store[i].source /\ store'[i] \in Entries
  BY <1>1, <1>2
<1>4. store' \in Seq(Entries) /\ Len(store') = Len(store)
  <2>1. store' \in [1..Len(store) -> Entries]
    BY <1>1, <1>2, <1>3
  <2>2. store' \in Seq(Entries)
    BY <1>2, <2>1
  <2>. QED
    BY <1>2, <1>3, <2>2, LenProperties
<1>5. TypeOK'
  BY <1>1, <1>4 DEF IInv, TypeOK
<1>6. StoreConsistent' /\ AddProgress'
  <2>1. mpc' \notin AddPlaces
    BY <1>1 DEF AddPlaces
  <2>2. \A r : (\E i \in DOMAIN store : store[i].source = r)
               => \E i \in DOMAIN store' : store'[i].source = r
    BY <1>3
  <2>3. StoreConsistent'
    BY <1>1, <1>3, <1>4, <2>2 DEF IInv, StoreConsistent
  <2>4. AddProgress'
    BY <1>1, <2>1, <2>2 DEF IInv, AddProgress, AddPlaces
  <2>. QED
    BY <2>3, <2>4
<1>7. RunningJobs' /\ QueuedJobs' /\ OfferedJobs' /\ AddedMeansQueued'
  BY <1>1 DEF IInv, RunningJobs, QueuedJobs, OfferedJobs, AddedMeansQueued, Settled, Directory, Job
<1>8. NoConnectionKept'
  BY <1>1 DEF IInv, NoConnectionKept, Client
<1>9. Phases' /\ NoWorkOutlivesPool' /\ CrashLosesNothing'
  BY <1>1 DEF IInv, Phases, NoWorkOutlivesPool, CrashLosesNothing
<1>. QED
  BY <1>5, <1>6, <1>7, <1>8, <1>9 DEF IInv

\* The main thread joins the queue of the source client
LEMMA ListConnectIInv == IInv /\ ListConnect => IInv'
<1>. SUFFICES ASSUME IInv, ListConnect PROVE IInv'
  OBVIOUS
<1>. USE DEF addvars, storevars, resvars, poolvars
<1>1. /\ UNCHANGED <<addvars, line, storevars, resvars, stop, caught, wpc, poolvars>>
      /\ mpc = "list" /\ mpc' = "listing"
      /\ backlog' = [backlog EXCEPT ![Client] = Append(@, Main)]
  BY DEF ListConnect
<1>2. cur \in Pairs /\ Client \in Clients /\ Main \in Connections
      /\ backlog \in [Clients -> Seq(Connections)]
  BY <1>1, ManagerAssumption DEF IInv, TypeOK, AddPlaces, Client, Connections
<1>3. \A c \in Clients : Main \notin Range(backlog[c])
  BY <1>1 DEF IInv, NoConnectionKept
<1>4. /\ Append(backlog[Client], Main) \in Seq(Connections)
      /\ Range(Append(backlog[Client], Main)) = Range(backlog[Client]) \cup {Main}
      /\ IsInjective(Append(backlog[Client], Main))
  BY <1>2, <1>3, AppendIndices, AppendElements DEF IInv, TypeOK
<1>5. \A c \in Clients : backlog'[c] = IF c = Client THEN Append(backlog[Client], Main)
                                       ELSE backlog[c]
  BY <1>1, <1>2
<1>6. TypeOK'
  <2>1. backlog' \in [Clients -> Seq(Connections)] /\ \A c \in Clients : IsInjective(backlog'[c])
    BY <1>1, <1>2, <1>4, <1>5 DEF IInv, TypeOK
  <2>. QED
    BY <1>1, <2>1 DEF IInv, TypeOK, Places, AddPlaces
<1>7. RunningJobs' /\ QueuedJobs' /\ StoreConsistent' /\ AddedMeansQueued'
  BY <1>1 DEF IInv, RunningJobs, QueuedJobs, StoreConsistent, AddedMeansQueued, Settled, Directory
<1>8. OfferedJobs' /\ AddProgress'
  BY <1>1 DEF IInv, OfferedJobs, AddProgress, AddPlaces
<1>9. NoConnectionKept'
  <2>1. Client' = Client
    BY <1>1 DEF Client
  <2>2. \A c \in Clients : Range(backlog'[c]) \subseteq
                             Range(backlog[c]) \cup IF c = Client THEN {Main} ELSE {}
    BY <1>4, <1>5
  <2>. QED
    BY <1>1, <1>3, <2>1, <2>2 DEF IInv, NoConnectionKept
<1>10. Phases' /\ NoWorkOutlivesPool' /\ CrashLosesNothing'
  BY <1>1 DEF IInv, Phases, NoWorkOutlivesPool, CrashLosesNothing, AddPlaces
<1>. QED
  BY <1>6, <1>7, <1>8, <1>9, <1>10 DEF IInv

\* The LIST reply arrives, or a part of it
LEMMA ListReplyIInv == IInv /\ ListReply => IInv'
<1>. SUFFICES ASSUME IInv, ListReply PROVE IInv'
  OBVIOUS
<1>. USE DEF storevars, resvars, netvars, poolvars
<1>1. /\ UNCHANGED <<ret, cur, answer, line, storevars, resvars, stop, caught, netvars, poolvars>>
      /\ mpc = "listing" /\ mpc' = "enqueue"
      /\ listed' \in Arrived(FilesOf[SourceOf[cur]])
      /\ lost' = lost \cup {<<cur, name>> : name \in Directory(cur) \ Range(listed')}
  BY DEF ListReply
<1>2. /\ cur \in Pairs /\ FilesOf[SourceOf[cur]] \in Seq(Files)
      /\ IsInjective(FilesOf[SourceOf[cur]])
  BY <1>1, ManagerAssumption DEF IInv, TypeOK, AddPlaces
<1>3. /\ listed' \in Seq(Files) /\ IsInjective(listed')
      /\ Range(listed') \subseteq Directory(cur) /\ Directory(cur) \subseteq Files
  <2>. DEFINE fs == FilesOf[SourceOf[cur]]
  <2>1. Len(fs) \in Nat /\ DOMAIN fs = 1..Len(fs) /\ \A i \in 1..Len(fs) : fs[i] \in Files
    BY <1>2, LenProperties, ElementOfSeq
  <2>2. PICK n \in 0..Len(fs) : listed' = SubSeq(fs, 1, n)
    <3>. HIDE DEF fs
    <3>1. \/ \E n \in 1..Len(fs) : listed' = SubSeq(fs, 1, n)
          \/ listed' = SubSeq(fs, 1, Len(fs))
      BY <1>1 DEF Arrived, fs
    <3>2. Len(fs) \in 0..Len(fs) /\ 1..Len(fs) \subseteq 0..Len(fs)
      BY <2>1
    <3>. QED
      BY <3>1, <3>2
  <2>3. fs \in Seq(Files) /\ IsInjective(fs) /\ Directory(cur) = Range(fs)
    BY <1>2 DEF Directory
  <2>. HIDE DEF fs
  <2>4. /\ listed' \in Seq(Files) /\ Len(listed') = n
        /\ \A i \in 1..n : listed'[i] = fs[i]
    BY <2>2, <2>3, FirstIndices
  <2>5. DOMAIN listed' = 1..n /\ 1..n \subseteq 1..Len(fs)
    BY <2>1, <2>2, <2>4, LenProperties
  <2>. QED
    BY <2>1, <2>3, <2>4, <2>5 DEF Range, IsInjective
<1>4. /\ lost' \subseteq Jobs
      /\ \A f \in Files : <<cur, f>> \in lost' <=> f \in Directory(cur) \ Range(listed')
      /\ \A p \in Pairs, f \in Files : p # cur => (<<p, f>> \in lost' <=> <<p, f>> \in lost)
  <2>1. \A f \in Files : <<cur, f>> \notin lost
    BY <1>1 DEF IInv, AddProgress
  <2>. QED
    BY <1>1, <1>2, <1>3, <2>1 DEF IInv, TypeOK, Jobs
<1>5. TypeOK'
  BY <1>1, <1>3, <1>4 DEF IInv, TypeOK, Places, AddPlaces
<1>6. RunningJobs' /\ QueuedJobs' /\ StoreConsistent'
  BY <1>1 DEF IInv, RunningJobs, QueuedJobs, StoreConsistent
<1>7. OfferedJobs'
  BY <1>1 DEF IInv, OfferedJobs
<1>8. AddProgress'
  <2>1. \A f \in Files : fate[<<cur, f>>] = "new"
    BY <1>1 DEF IInv, AddProgress
  <2>2. \A f \in Files : IF f \in Range(listed') THEN <<cur, f>> \notin lost'
                         ELSE Settled(cur, f)'
    BY <1>1, <1>3, <1>4, <2>1 DEF Settled, Directory
  <2>3. Range(listed') \subseteq Directory(cur)'
    BY <1>1, <1>3 DEF Directory
  <2>4. ASSUME NEW p \in Pairs, answer'[p] = "added" \/ \E f \in Files : <<p, f>> \in lost'
        PROVE  \E i \in DOMAIN store : store[i].source = SourceOf[p]
    BY <1>1, <1>4, <2>4 DEF IInv, AddProgress, AddPlaces
  <2>. QED
    BY <1>1, <1>3, <2>2, <2>3, <2>4 DEF IInv, AddProgress, AddPlaces
<1>9. AddedMeansQueued'
  <2>1. answer[cur] # "added"
    BY <1>1 DEF IInv, AddProgress, AddPlaces
  <2>2. \A p \in Pairs, f \in Files : p # cur /\ Settled(p, f) => Settled(p, f)'
    BY <1>1, <1>4 DEF Settled, Directory
  <2>. QED
    BY <1>1, <2>1, <2>2 DEF IInv, AddedMeansQueued
<1>10. NoConnectionKept'
  BY <1>1 DEF IInv, NoConnectionKept, Client
<1>11. Phases' /\ NoWorkOutlivesPool' /\ CrashLosesNothing'
  BY <1>1 DEF IInv, Phases, NoWorkOutlivesPool, CrashLosesNothing, AddPlaces
<1>. QED
  BY <1>5, <1>6, <1>7, <1>8, <1>9, <1>10, <1>11 DEF IInv

\* A name of the list becomes an argument of enqueue_sync_job ...
LEMMA OfferIInv == IInv /\ OfferFile => IInv'
<1>. SUFFICES ASSUME IInv, OfferFile PROVE IInv'
  OBVIOUS
<1>. USE DEF addvars, storevars, resvars, netvars
<1>1. /\ UNCHANGED <<mpc, addvars, line, storevars, resvars, stop, caught, netvars,
                     queue, closed, hand, hired>>
      /\ mpc = "enqueue" /\ listed # <<>> /\ fate[Job] = "new"
      /\ fate' = [fate EXCEPT ![Job] = "offered"]
  BY DEF OfferFile, JQ!Offer
<1>2. cur \in Pairs /\ listed \in Seq(Files)
  BY <1>1 DEF IInv, TypeOK, AddPlaces
<1>3. Head(listed) \in Files /\ Job \in Jobs /\ Job[1] = cur
  BY <1>1, <1>2, TailIndices DEF Job, Jobs
<1>4. \A j \in Jobs : fate'[j] = IF j = Job THEN "offered" ELSE fate[j]
  BY <1>1, <1>3 DEF IInv, TypeOK
<1>5. TypeOK'
  <2>1. fate' \in [Jobs -> JQ!Fates]
    BY <1>1, <1>3 DEF IInv, TypeOK, JQ!Fates
  <2>. QED
    BY <1>1, <2>1 DEF IInv, TypeOK
<1>6. RunningJobs'
  <2>1. \A w \in Workers : Job \notin hand[w] /\ hand[w] \subseteq Jobs
    BY <1>1 DEF IInv, TypeOK, RunningJobs
  <2>. QED
    BY <1>1, <1>4, <2>1 DEF IInv, RunningJobs
<1>7. QueuedJobs'
  <2>1. Job \notin Range(queue)
    BY <1>1, <1>3 DEF IInv, QueuedJobs
  <2>. QED
    BY <1>1, <1>3, <1>4, <2>1 DEF IInv, QueuedJobs
<1>8. OfferedJobs'
  <2>1. Job' = Job
    BY <1>1 DEF Job
  <2>. QED
    BY <1>1, <1>4, <2>1 DEF IInv, OfferedJobs
<1>9. StoreConsistent'
  BY <1>1, <1>3, <1>4 DEF IInv, StoreConsistent, AddProgress, AddPlaces
<1>10. /\ IsInjective(listed) /\ Head(listed) \in Range(listed)
       /\ Range(listed) \subseteq Directory(cur)
       /\ \A f \in Files : IF f \in Range(listed) THEN <<cur, f>> \notin lost
                           ELSE Settled(cur, f)
  <2>1. /\ IsInjective(listed) /\ Range(listed) \subseteq Directory(cur)
        /\ \A f \in Files : IF f \in Range(listed) THEN <<cur, f>> \notin lost
                            ELSE Settled(cur, f)
    BY <1>1 DEF IInv, AddProgress
  <2>. QED
    BY <1>1, <1>2, <2>1, TailElements
<1>11. \A p \in Pairs, f \in Files : <<p, f>> # Job /\ Settled(p, f) => Settled(p, f)'
  BY <1>1, <1>4 DEF Settled, Directory, Jobs
<1>12. AddProgress'
  <2>1. \A f \in Files : IF f \in Range(listed) THEN <<cur, f>> \notin lost
                         ELSE Settled(cur, f)'
    BY <1>1, <1>2, <1>10, <1>11 DEF Job
  <2>2. Directory(cur)' = Directory(cur)
    BY <1>1 DEF Directory
  <2>. QED
    BY <1>1, <1>10, <2>1, <2>2 DEF IInv, AddProgress
<1>13. AddedMeansQueued'
  <2>1. answer[cur] # "added"
    BY <1>1 DEF IInv, AddProgress, AddPlaces
  <2>2. \A p \in Pairs, f \in Files : p # cur => <<p, f>> # Job
    BY DEF Job
  <2>. QED
    BY <1>1, <1>11, <2>1, <2>2 DEF IInv, AddedMeansQueued
<1>14. NoConnectionKept'
  BY <1>1 DEF IInv, NoConnectionKept, Client
<1>15. Phases' /\ NoWorkOutlivesPool' /\ CrashLosesNothing'
  BY <1>1 DEF IInv, Phases, NoWorkOutlivesPool, CrashLosesNothing
<1>. QED
  BY <1>5, <1>6, <1>7, <1>8, <1>9, <1>12, <1>13, <1>14, <1>15 DEF IInv

\* What is known when the loop goes on to the next name
LEMMA Passed ==
  ASSUME IInv, mpc = "enqueue", listed # <<>>, listed' = Tail(listed)
  PROVE  /\ Head(listed) \in Directory(cur) /\ Job \notin lost
         /\ IsInjective(listed') /\ Range(listed') = Range(listed) \ {Head(listed)}
         /\ Range(listed) \subseteq Directory(cur)
         /\ \A f \in Files : IF f \in Range(listed) THEN <<cur, f>> \notin lost
                             ELSE Settled(cur, f)
<1>1. /\ IsInjective(listed) /\ Range(listed) \subseteq Directory(cur)
      /\ \A f \in Files : IF f \in Range(listed) THEN <<cur, f>> \notin lost
                          ELSE Settled(cur, f)
  BY DEF IInv, AddProgress
<1>2. listed \in Seq(Files)
  BY DEF IInv, TypeOK
<1>3. /\ Head(listed) \in Files /\ Head(listed) \in Range(listed)
      /\ Range(Tail(listed)) = Range(listed) \ {Head(listed)} /\ IsInjective(Tail(listed))
  BY <1>1, <1>2, TailIndices, TailElements
<1>. QED
  BY <1>1, <1>3 DEF Job

\* A name for which no job could be made is passed over
LEMMA SkipIInv == IInv /\ SkipFile => IInv'
<1>. SUFFICES ASSUME IInv, SkipFile PROVE IInv'
  OBVIOUS
<1>. USE DEF storevars, resvars, netvars, poolvars
<1>1. /\ UNCHANGED <<mpc, ret, cur, answer, line, storevars, resvars, stop, caught, netvars,
                     poolvars>>
      /\ mpc = "enqueue" /\ listed # <<>> /\ fate[Job] = "new"
      /\ listed' = Tail(listed) /\ lost' = lost \cup {Job}
  BY DEF SkipFile, NextName
<1>2. /\ cur \in Pairs /\ listed \in Seq(Files)
  BY <1>1 DEF IInv, TypeOK, AddPlaces
<1>3. Head(listed) \in Files /\ Job \in Jobs /\ Tail(listed) \in Seq(Files)
  BY <1>1, <1>2, TailIndices DEF Job, Jobs
<1>4. TypeOK'
  BY <1>1, <1>3 DEF IInv, TypeOK
<1>5. RunningJobs' /\ QueuedJobs' /\ StoreConsistent'
  BY <1>1 DEF IInv, RunningJobs, QueuedJobs, StoreConsistent
<1>6. OfferedJobs'
  BY <1>1 DEF IInv, OfferedJobs
<1>7. /\ Head(listed) \in Directory(cur)
      /\ IsInjective(listed') /\ Range(listed') = Range(listed) \ {Head(listed)}
      /\ Range(listed) \subseteq Directory(cur)
      /\ \A f \in Files : IF f \in Range(listed) THEN <<cur, f>> \notin lost
                          ELSE Settled(cur, f)
  BY <1>1, Passed
<1>8. /\ \A p \in Pairs, f \in Files : <<p, f>> # Job /\ Settled(p, f) => Settled(p, f)'
      /\ \A f \in Files : f = Head(listed) => Settled(cur, f)'
  <2>1. \A p \in Pairs, f \in Files : <<p, f>> # Job /\ Settled(p, f) => Settled(p, f)'
    BY <1>1 DEF Settled, Directory
  <2>2. fate'[<<cur, Head(listed)>>] = "new" /\ <<cur, Head(listed)>> \in lost'
    BY <1>1 DEF Job
  <2>. QED
    BY <1>1, <2>1, <2>2 DEF Settled, Directory
<1>9. AddProgress'
  <2>1. \A f \in Files : IF f \in Range(listed') THEN <<cur, f>> \notin lost'
                         ELSE Settled(cur, f)'
    BY <1>1, <1>2, <1>7, <1>8 DEF Job
  <2>2. Directory(cur)' = Directory(cur)
    BY <1>1 DEF Directory
  <2>3. ASSUME NEW p \in Pairs, answer'[p] = "added" \/ \E f \in Files : <<p, f>> \in lost'
        PROVE  \E i \in DOMAIN store : store[i].source = SourceOf[p]
    <3>1. \A f \in Files : <<p, f>> = Job => p = cur
      BY DEF Job
    <3>. QED
      BY <1>1, <2>3, <3>1 DEF IInv, AddProgress, AddPlaces
  <2>. QED
    BY <1>1, <1>7, <2>1, <2>2, <2>3 DEF IInv, AddProgress
<1>10. AddedMeansQueued'
  <2>1. answer[cur] # "added"
    BY <1>1 DEF IInv, AddProgress, AddPlaces
  <2>2. \A p \in Pairs, f \in Files : p # cur => <<p, f>> # Job
    BY DEF Job
  <2>. QED
    BY <1>1, <1>8, <2>1, <2>2 DEF IInv, AddedMeansQueued
<1>11. NoConnectionKept'
  BY <1>1 DEF IInv, NoConnectionKept, Client
<1>12. Phases' /\ NoWorkOutlivesPool' /\ CrashLosesNothing'
  BY <1>1 DEF IInv, Phases, NoWorkOutlivesPool, CrashLosesNothing
<1>. QED
  BY <1>4, <1>5, <1>6, <1>9, <1>10, <1>11, <1>12 DEF IInv

\* ... and is in the queue when the call returns
LEMMA PutIInv == IInv /\ PutFile => IInv'
<1>. SUFFICES ASSUME IInv, PutFile PROVE IInv'
  OBVIOUS
<1>. USE DEF storevars, resvars, netvars
<1>1. /\ UNCHANGED <<mpc, ret, cur, answer, lost, line, storevars, resvars, stop, caught, netvars,
                     closed, hand, hired>>
      /\ mpc = "enqueue" /\ listed # <<>> /\ fate[Job] = "offered" /\ ~closed
      /\ listed' = Tail(listed)
      /\ Len(queue) < BufferSize /\ queue' = Append(queue, Job)
      /\ fate' = [fate EXCEPT ![Job] = "queued"]
  BY DEF PutFile, JQ!Put, NextName
<1>2. /\ cur \in Pairs /\ listed \in Seq(Files)
      /\ queue \in Seq(Jobs)
  BY <1>1 DEF IInv, TypeOK, AddPlaces
<1>3. Head(listed) \in Files /\ Job \in Jobs /\ Job[1] = cur /\ Tail(listed) \in Seq(Files)
  BY <1>1, <1>2, TailIndices DEF Job, Jobs
<1>4. \A j \in Jobs : fate'[j] = IF j = Job THEN "queued" ELSE fate[j]
  BY <1>1, <1>3 DEF IInv, TypeOK
<1>5. Job \notin Range(queue) /\ \A j \in Jobs : fate[j] = "offered" => j = Job
  BY <1>1, <1>3 DEF IInv, QueuedJobs, OfferedJobs
<1>6. /\ queue' \in Seq(Jobs) /\ Range(queue') = Range(queue) \cup {Job}
      /\ IsInjective(queue') /\ Len(queue') <= BufferSize
  <2>1. /\ queue' \in Seq(Jobs) /\ Len(queue') = Len(queue) + 1 /\ Len(queue) \in Nat
    BY <1>1, <1>2, <1>3, AppendIndices
  <2>2. Len(queue') <= BufferSize
    BY <1>1, <2>1, ManagerAssumption
  <2>. QED
    BY <1>1, <1>2, <1>3, <1>5, <2>1, <2>2, AppendElements DEF IInv, QueuedJobs
<1>7. TypeOK'
  <2>1. fate' \in [Jobs -> JQ!Fates]
    BY <1>1, <1>3 DEF IInv, TypeOK, JQ!Fates
  <2>. QED
    BY <1>1, <1>3, <1>6, <2>1 DEF IInv, TypeOK
<1>8. RunningJobs'
  <2>1. \A w \in Workers : Job \notin hand[w] /\ hand[w] \subseteq Jobs
    BY <1>1 DEF IInv, TypeOK, RunningJobs
  <2>. QED
    BY <1>1, <1>4, <2>1 DEF IInv, RunningJobs
<1>9. QueuedJobs'
  <2>1. hired = Workers
    BY <1>1 DEF IInv, Phases, AddPlaces
  <2>. QED
    BY <1>1, <1>3, <1>4, <1>6, <2>1 DEF IInv, QueuedJobs
<1>10. OfferedJobs'
  BY <1>4, <1>5 DEF IInv, OfferedJobs
<1>11. StoreConsistent'
  BY <1>1, <1>3, <1>4 DEF IInv, StoreConsistent, AddProgress, AddPlaces
<1>12. /\ Head(listed) \in Directory(cur) /\ Job \notin lost
       /\ IsInjective(listed') /\ Range(listed') = Range(listed) \ {Head(listed)}
       /\ Range(listed) \subseteq Directory(cur)
       /\ \A f \in Files : IF f \in Range(listed) THEN <<cur, f>> \notin lost
                           ELSE Settled(cur, f)
  BY <1>1, <1>2, <1>3, Passed
<1>13. /\ \A p \in Pairs, f \in Files : <<p, f>> # Job /\ Settled(p, f) => Settled(p, f)'
       /\ \A f \in Files : f = Head(listed) => Settled(cur, f)'
  <2>1. \A p \in Pairs, f \in Files : <<p, f>> # Job /\ Settled(p, f) => Settled(p, f)'
    BY <1>1, <1>4 DEF Settled, Directory, Jobs
  <2>2. fate'[<<cur, Head(listed)>>] = "queued"
    BY <1>3, <1>4 DEF Job
  <2>3. Head(listed) \in Directory(cur) /\ <<cur, Head(listed)>> \notin lost
    BY <1>12 DEF Job
  <2>. QED
    BY <1>1, <2>1, <2>2, <2>3 DEF Settled, Directory
<1>14. AddProgress'
  <2>1. \A f \in Files : IF f \in Range(listed') THEN <<cur, f>> \notin lost
                         ELSE Settled(cur, f)'
    BY <1>1, <1>2, <1>12, <1>13 DEF Job
  <2>2. Directory(cur)' = Directory(cur)
    BY <1>1 DEF Directory
  <2>. QED
    BY <1>1, <1>12, <2>1, <2>2 DEF IInv, AddProgress
<1>15. AddedMeansQueued'
  <2>1. answer[cur] # "added"
    BY <1>1 DEF IInv, AddProgress, AddPlaces
  <2>2. \A p \in Pairs, f \in Files : p # cur => <<p, f>> # Job
    BY DEF Job
  <2>. QED
    BY <1>1, <1>13, <2>1, <2>2 DEF IInv, AddedMeansQueued
<1>16. NoConnectionKept'
  BY <1>1 DEF IInv, NoConnectionKept, Client
<1>17. Phases' /\ NoWorkOutlivesPool' /\ CrashLosesNothing'
  BY <1>1 DEF IInv, Phases, NoWorkOutlivesPool, CrashLosesNothing
<1>. QED
  BY <1>7, <1>8, <1>9, <1>10, <1>11, <1>14, <1>15, <1>16, <1>17 DEF IInv

\* handle_add_command returns, after the whole list, without a connection or
\* interrupted by a signal
LEMMA EndAddIInv ==
  ASSUME IInv,
         \/ EndList \/ ListUnreachable
         \/ \E sig \in Signals : SignalInterruptsMain(sig)
  PROVE  IInv'
<1>. USE DEF storevars, resvars, netvars, poolvars
<1>1. PICK res \in {"added", "failed"} :
        /\ UNCHANGED <<line, storevars, resvars, wpc, poolvars, ret, lost>>
        /\ stop' \in {stop, TRUE} /\ caught' \subseteq caught \cup Signals
        /\ mpc \in AddPlaces /\ mpc' = ret
        /\ answer' = [answer EXCEPT ![cur] = res]
        /\ cur' = NoPair /\ listed' = <<>>
        /\ res = "added" => mpc = "enqueue" /\ listed = <<>>
        /\ listed = <<>> \/ mpc # "enqueue"
        /\ backlog' = Hangup(Main) \/ (backlog' = backlog /\ mpc = "list")
  BY DEF EndList, ListUnreachable, SignalInterruptsMain, EndAdd, Handle, AddPlaces
<1>2. cur \in Pairs /\ ret \in {"config", "console"}
  BY <1>1 DEF IInv, TypeOK
<1>3. /\ backlog' \in [Clients -> Seq(Connections)]
      /\ \A c \in Clients : /\ IsInjective(backlog'[c])
                            /\ Range(backlog'[c]) = Range(backlog[c]) \ {Main}
  <2>1. CASE backlog' = Hangup(Main)
    BY <2>1, HangupRemoves DEF IInv
  <2>2. CASE backlog' = backlog /\ mpc = "list"
    <3>1. \A c \in Clients : Main \notin Range(backlog[c])
      BY <2>2 DEF IInv, NoConnectionKept
    <3>. QED
      BY <2>2, <3>1 DEF IInv, TypeOK
  <2>. QED
    BY <1>1, <2>1, <2>2
<1>4. TypeOK'
  <2>1. stop' \in BOOLEAN /\ caught' \subseteq Signals
    BY <1>1 DEF IInv, TypeOK
  <2>2. answer' \in [Pairs -> {"none", "added", "exists", "failed"}] /\ listed' \in Seq(Files)
    BY <1>1, <1>2 DEF IInv, TypeOK
  <2>. QED
    BY <1>1, <1>2, <1>3, <2>1, <2>2, ManagerAssumption DEF IInv, TypeOK, Places, AddPlaces
<1>5. RunningJobs' /\ QueuedJobs' /\ StoreConsistent'
  BY <1>1 DEF IInv, RunningJobs, QueuedJobs, StoreConsistent
<1>6. OfferedJobs'
  BY <1>1 DEF IInv, OfferedJobs, AddPlaces
<1>7. AddProgress'
  <2>1. \A p \in Pairs : answer'[p] = IF p = cur THEN res ELSE answer[p]
    BY <1>1, <1>2 DEF IInv, TypeOK
  <2>. QED
    BY <1>1, <1>2, <2>1 DEF IInv, AddProgress, AddPlaces
<1>8. AddedMeansQueued'
  <2>1. \A p \in Pairs : answer'[p] = IF p = cur THEN res ELSE answer[p]
    BY <1>1, <1>2 DEF IInv, TypeOK
  <2>2. ASSUME res = "added", NEW f \in Files
        PROVE  Settled(cur, f)
    <3>1. Range(listed) = {}
      BY <1>1, <2>2, EmptySeq DEF Range
    <3>. QED
      BY <1>1, <2>2, <3>1 DEF IInv, AddProgress
  <2>3. \A p \in Pairs, f \in Files : Settled(p, f) => Settled(p, f)'
    BY <1>1 DEF Settled, Directory
  <2>. QED
    BY <1>1, <1>2, <2>1, <2>2, <2>3 DEF IInv, AddedMeansQueued
<1>9. NoConnectionKept'
  <2>1. \A c \in Clients : \A x \in Range(backlog[c]) : x # Main => x \in Workers
    BY ElementOfSeq DEF IInv, TypeOK, Connections, Range
  <2>. QED
    BY <1>1, <1>3, <2>1 DEF IInv, NoConnectionKept
<1>10. Phases' /\ NoWorkOutlivesPool' /\ CrashLosesNothing'
  BY <1>1, <1>2 DEF IInv, Phases, NoWorkOutlivesPool, CrashLosesNothing, AddPlaces
<1>. QED
  BY <1>4, <1>5, <1>6, <1>7, <1>8, <1>9, <1>10 DEF IInv

\* Every step preserves the invariant
LEMMA NextIInv == IInv /\ [Next]_vars => IInv'
<1>. SUFFICES ASSUME IInv, [Next]_vars PROVE IInv'
  OBVIOUS
<1>1. CASE MainStep
  <2>1. CASE \/ InitFails \/ InitPoolFails \/ InitSucceeds \/ OpenConfig \/ ConfigLoaded
             \/ MainLoopEnds \/ (stop /\ ConsoleEnds) \/ PoolDestroyed \/ NoPool
             \/ CleanupStore \/ CleanupLog
    BY <2>1, MoveIInv DEF MoveStep
  <2>2. CASE DestroyPool \/ \E w \in Workers : SpawnWorker(w)
    BY <2>2, StaffIInv
  <2>3. CASE ConfigLine
    BY <2>3, BeginAddIInv
  <2>4. CASE ListConnect
    BY <2>4, ListConnectIInv
  <2>5. CASE ListReply
    BY <2>5, ListReplyIInv
  <2>6. CASE OfferFile
    BY <2>6, OfferIInv
  <2>7. CASE PutFile
    BY <2>7, PutIInv
  <2>8. CASE EndList \/ ListUnreachable
    BY <2>8, EndAddIInv
  <2>9. CASE SkipFile
    BY <2>9, SkipIInv
  <2>. QED
    BY <1>1, <2>1, <2>2, <2>3, <2>4, <2>5, <2>6, <2>7, <2>8, <2>9 DEF MainStep
<1>2. CASE Environment
  <2>1. CASE AcceptConsole \/ ConsoleEnds \/ SecondSignal
               \/ \E sig \in Signals : SignalUnnoticed(sig)
    BY <2>1, MoveIInv DEF MoveStep
  <2>2. CASE ShutdownCommand
    BY <2>2, StaffIInv
  <2>3. CASE \E p \in Pairs : AddCommand(p)
    BY <2>3, BeginAddIInv
  <2>4. CASE \E s \in Sources : CancelCommand(s)
    BY <2>4, CancelIInv
  <2>5. CASE \E sig \in Signals : SignalInterruptsMain(sig)
    BY <2>5, EndAddIInv
  <2>6. CASE \E sig \in Signals : \E w \in Workers : SignalInterruptsWorker(sig, w)
    BY <2>6, FinishIInv
  <2>. QED
    BY <1>2, <2>1, <2>2, <2>3, <2>4, <2>5, <2>6 DEF Environment
<1>3. CASE \E w \in Workers : WorkerStep(w)
  <2>. PICK w \in Workers : WorkerStep(w)
    BY <1>3
  <2>1. CASE WorkerTakes(w)
    BY <2>1, TakeIInv
  <2>2. CASE WorkerConnects(w)
    BY <2>2, ConnectIInv
  <2>3. CASE WorkerServed(w) \/ WorkerUnreachable(w)
    BY <2>3, FinishIInv
  <2>4. CASE WorkerRetires(w)
    BY <2>4, StaffIInv
  <2>. QED
    BY <2>1, <2>2, <2>3, <2>4 DEF WorkerStep
<1>4. CASE Ended \/ UNCHANGED vars
  BY <1>4, MoveIInv DEF MoveStep
<1>. QED
  BY <1>1, <1>2, <1>3, <1>4 DEF Next
-----------------------------------------------------------------------------
(***************************************************************************)
(* The theorems.                                                           *)
(***************************************************************************)
\* The invariant holds in every reachable state
THEOREM ManagerInvariant == Spec => []IInv
<1>. QED
  BY InitIInv, NextIInv, PTL DEF Spec

\* Types, the bound of the job queue, and no connection waiting twice
THEOREM ManagerTypeCorrect == Spec => []TypeOK
<1>1. IInv => TypeOK
  BY DEF IInv
<1>. QED
  BY <1>1, ManagerInvariant, PTL

\* find_sync_info and add_sync_info keep the store free of duplicates, its
\* counter right, and every job's source in it
THEOREM StoreAlwaysConsistent == Spec => []StoreConsistent
<1>1. IInv => StoreConsistent
  BY DEF IInv
<1>. QED
  BY <1>1, ManagerInvariant, PTL

\* When start_directory_sync returns 0, every file of the directory has an
\* accepted job, unless its name did not arrive or its job could not be made
THEOREM AddedAlwaysQueued == Spec => []AddedMeansQueued
<1>1. IInv => AddedMeansQueued
  BY DEF IInv
<1>. QED
  BY <1>1, ManagerInvariant, PTL

\* No way out of handle_add_command or sync_single_file, signals included,
\* keeps a connection to a client
THEOREM ConnectionsAlwaysClosed == Spec => []NoConnectionKept
<1>1. IInv => NoConnectionKept
  BY DEF IInv
<1>. QED
  BY <1>1, ManagerInvariant, PTL

\* cleanup_manager frees the store and closes the log when no worker is left,
\* no accepted job unfinished and no connection open
THEOREM CleanupAfterWork == Spec => []NoWorkOutlivesPool
<1>1. IInv => NoWorkOutlivesPool
  BY DEF IInv
<1>. QED
  BY <1>1, ManagerInvariant, PTL

\* The store is freed twice only when nothing has happened yet
THEOREM CrashAlwaysHarmless == Spec => []CrashLosesNothing
<1>1. IInv => CrashLosesNothing
  BY DEF IInv
<1>. QED
  BY <1>1, ManagerInvariant, PTL

\* Each step of the manager does to the pool what JobQueue allows, or leaves
\* it alone
LEMMA NextUsesPool == IInv /\ [Next]_vars => [JQ!JQNext]_(JQ!jqvars)
<1>. SUFFICES ASSUME IInv, [Next]_vars PROVE JQ!JQNext \/ UNCHANGED JQ!jqvars
  OBVIOUS
<1>. USE DEF poolvars, JQ!jqvars
<1>1. CASE MainStep
  <2>1. CASE DestroyPool
    BY <2>1 DEF DestroyPool, JQ!JQNext
  <2>2. CASE \E w \in Workers : SpawnWorker(w)
    BY <2>2 DEF SpawnWorker, JQ!JQNext
  <2>3. CASE OfferFile \/ PutFile
    <3>1. mpc = "enqueue" /\ listed # <<>>
      BY <2>3 DEF OfferFile, PutFile
    <3>2. Job \in Jobs
      BY <3>1, TailIndices DEF IInv, TypeOK, AddPlaces, Job, Jobs
    <3>. QED
      BY <2>3, <3>2 DEF OfferFile, PutFile, JQ!JQNext
  <2>. QED
    BY <1>1, <2>1, <2>2, <2>3
    DEF MainStep, InitFails, InitPoolFails, InitSucceeds, OpenConfig, ListConnect,
        ListUnreachable, ListReply, SkipFile, EndList, ConfigLine, ConfigLoaded, MainLoopEnds,
        ConsoleEnds, PoolDestroyed, NoPool, CleanupStore, CleanupLog
<1>2. CASE Environment
  <2>1. CASE ShutdownCommand
    BY <2>1 DEF ShutdownCommand, JQ!JQNext
  <2>2. CASE \E sig \in Signals : \E w \in Workers : SignalInterruptsWorker(sig, w)
    BY <2>2 DEF SignalInterruptsWorker, JQ!JQNext
  <2>. QED
    BY <1>2, <2>1, <2>2
    DEF Environment, AcceptConsole, ConsoleEnds, AddCommand, CancelCommand, SignalUnnoticed,
        SignalInterruptsMain, SecondSignal
<1>3. CASE \E w \in Workers : WorkerStep(w)
  BY <1>3
  DEF WorkerStep, WorkerTakes, WorkerConnects, WorkerServed, WorkerUnreachable, WorkerRetires,
      JQ!JQNext
<1>4. CASE Ended \/ UNCHANGED vars
  BY <1>4 DEF Ended, vars
<1>. QED
  BY <1>1, <1>2, <1>3, <1>4 DEF Next

\* The manager never uses its pool otherwise than JobQueue specifies, which is
\* what ThreadPool is proved to implement
THEOREM PoolUsedAsSpecified == Spec => JQ!JQSpec
<1>1. Init => JQ!JQInit
  BY DEF Init
<1>2. IInv /\ [Next]_vars => [JQ!JQNext]_(JQ!jqvars)
  BY NextUsesPool
<1>. QED
  BY <1>1, <1>2, ManagerInvariant, PTL DEF Spec, JQ!JQSpec
=============================================================================
