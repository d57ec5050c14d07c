---------------------------- MODULE FileTransfer ----------------------------
(***************************************************************************)
(* The transfer of files between nfs_client processes by the workers of    *)
(* nfs_manager: sync_single_file (src/thread_pool.c) at one end, the       *)
(* accept loop and the command handlers of the clients (src/nfs_client.c,  *)
(* src/nfs_client_logic.c) at the other, and TCP between them.             *)
(*                                                                         *)
(* A job is one call of sync_single_file, run by a worker of its own.  It  *)
(* opens a connection to the source client and one to the target client.   *)
(* A client serves its connections one after the other, in the order they  *)
(* were made.  A stream is a sequence of units: a command, the size header *)
(* or a unit of file data; a socket buffers at most SockBuf of them, and   *)
(* recv returns any number of the units that wait, up to BufSize.          *)
(*                                                                         *)
(* Faults names what may go wrong around the code:                         *)
(*   "noread"    open or fstat of the source file fails                    *)
(*   "nowrite"   open of the target file fails                             *)
(*   "full"      a write at the target fails; a later one may succeed      *)
(*   "shrink"    the source file gets shorter while it is sent             *)
(*   "split"     the size header reaches the worker in two pieces          *)
(*   "coalesce"  one recv of a client returns more than one send           *)
(* "split" and "coalesce" are within the rules of TCP. The clients of      *)
(* Mortal may be killed at any time; the source files of Growing may get   *)
(* one unit longer while they are sent; SIGINT or SIGTERM may interrupt    *)
(* the workers of Interrupted while they wait in connect, recv or send,    *)
(* which is then not restarted.                                            *)
(***************************************************************************)
EXTENDS Integers, Sequences

CONSTANTS Jobs, Clients,
          Source, Target,   \* the clients of each job
          Size,             \* the size of each job's source file, in units
          SockBuf,          \* units a connection buffers in each direction
          BufSize,          \* MAX_BUFFER_SIZE, in units
          Faults,
          Mortal,           \* the clients that may be killed
          Growing,          \* the jobs whose source file may grow
          Interrupted,      \* the jobs whose worker a signal may interrupt
          None              \* no connection, no open file

ASSUME TransferAssumption ==
  /\ Source \in [Jobs -> Clients] /\ Target \in [Jobs -> Clients]
  /\ Size \in [Jobs -> Nat]
  /\ SockBuf \in Nat \ {0} /\ BufSize \in Nat \ {0}
  /\ Faults \subseteq {"noread", "nowrite", "full", "shrink", "split", "coalesce"}
  /\ Mortal \subseteq Clients /\ Growing \subseteq Jobs /\ Interrupted \subseteq Jobs
  /\ None \notin Jobs /\ None \notin Jobs \X {"source", "target"}

VARIABLES
  wpc,         \* where sync_single_file is
  file_size,   \* its local variables
  total_transferred,
  out,         \* what it still has to send to the target
  result,      \* what it returned: "none" yet, "ok" (0) or "err" (-1)
  relayed,     \* history: the data it passed on
  up, down,    \* per connection: worker to client, client to worker
  wclosed, sclosed,  \* connections closed by the worker, by the client
  alive,       \* the clients that run
  backlog,     \* connections that wait to be accepted
  serving,     \* the connection in handle_client_connection
  hpc,         \* which handler the client is in
  reply,       \* what handle_pull_command still has to send
  need,        \* what handle_push_command still has to receive
  current_fd,  \* the file handle_push_command has open
  stored,      \* the content of each job's file at its target
  harm         \* history: <<f, j>> when f happened to the transfer of job j

wvars == <<wpc, file_size, total_transferred, out, result, relayed>>
disk == <<stored, harm>>
cvars == <<hpc, serving, reply, need, current_fd, disk>>
vars == <<wvars, up, down, wclosed, sclosed, alive, backlog, cvars>>
-----------------------------------------------------------------------------
Conns == Jobs \X {"source", "target"}
SrcConn(j) == <<j, "source">>
TgtConn(j) == <<j, "target">>
Server(c) == IF c[2] = "source" THEN Source[c[1]] ELSE Target[c[1]]

Unit(op, file, n) == [op |-> op, file |-> file, n |-> n]
Pull(j) == Unit("PULL", j, 0)
Push(j, n) == Unit("PUSH", j, n)
Header(j, n) == Unit("SIZE", j, n)
Data(j, i) == Unit("DATA", j, i)

\* The source file of a job, grown as far as it will, and what its target
\* held before
MaxSize(j) == IF j \in Growing THEN Size[j] + 1 ELSE Size[j]
Content(j) == [i \in 1..MaxSize(j) |-> Data(j, i)]
Old(j) == <<Data(j, 0)>>

Min2(m, n) == IF m <= n THEN m ELSE n
First(s, k) == SubSeq(s, 1, k)
Rest(s, k) == SubSeq(s, k + 1, Len(s))

\* How many units one recv of at most max may return; none when s is empty
Received(s, max) == 1..Min2(Len(s), max)

\* recv returns 0: the peer has closed and everything it sent has been read
EndOf(stream, c, closed) == stream[c] = <<>> /\ c \in closed

Init ==
  /\ wpc = [j \in Jobs |-> "connect_source"]
  /\ file_size = [j \in Jobs |-> 0]
  /\ total_transferred = [j \in Jobs |-> 0]
  /\ out = [j \in Jobs |-> <<>>]
  /\ result = [j \in Jobs |-> "none"]
  /\ relayed = [j \in Jobs |-> <<>>]
  /\ up = [c \in Conns |-> <<>>]
  /\ down = [c \in Conns |-> <<>>]
  /\ wclosed = {}
  /\ sclosed = {}
  /\ alive = Clients
  /\ backlog = [cl \in Clients |-> <<>>]
  /\ serving = [cl \in Clients |-> None]
  /\ hpc = [cl \in Clients |-> "accept"]
  /\ reply = [cl \in Clients |-> <<>>]
  /\ need = [cl \in Clients |-> 0]
  /\ current_fd = [cl \in Clients |-> None]
  /\ stored = [j \in Jobs |-> Old(j)]
  /\ harm = {}
-----------------------------------------------------------------------------
(***************************************************************************)
(* sync_single_file.  send blocks while the socket buffer is full, so what *)
(* is to be sent to the target waits in `out' and leaves it unit by unit.  *)
(***************************************************************************)
Goto(j, pc) == wpc' = [wpc EXCEPT ![j] = pc]

\* close what is open and return
Return(j, res, conns) ==
  /\ Goto(j, "done")
  /\ result' = [result EXCEPT ![j] = res]
  /\ wclosed' = wclosed \cup conns

\* connect succeeds as soon as the connection is in the listen queue
Connect(j, conn, pc) ==
  /\ Server(conn) \in alive
  /\ backlog' = [backlog EXCEPT ![Server(conn)] = Append(@, conn)]
  /\ Goto(j, pc)
  /\ UNCHANGED <<result, wclosed>>

\* Nobody listens, or a signal came
ConnectFails(j, conn, conns) ==
  /\ Server(conn) \notin alive \/ j \in Interrupted
  /\ Return(j, "err", conns)
  /\ UNCHANGED backlog

ConnectSource(j) ==
  /\ wpc[j] = "connect_source"
  /\ \/ Connect(j, SrcConn(j), "connect_target")
     \/ ConnectFails(j, SrcConn(j), {})
  /\ UNCHANGED <<file_size, total_transferred, out, relayed, up, down,
                 sclosed, alive, cvars>>

ConnectTarget(j) ==
  /\ wpc[j] = "connect_target"
  /\ \/ Connect(j, TgtConn(j), "pull")
     \/ ConnectFails(j, TgtConn(j), {SrcConn(j)})
  /\ UNCHANGED <<file_size, total_transferred, out, relayed, up, down,
                 sclosed, alive, cvars>>

\* A worker that truncates the target's file before it knows the source's
SendPullAndOpen(j) ==
  /\ wpc[j] = "pull"
  /\ up' = [up EXCEPT ![SrcConn(j)] = Append(@, Pull(j))]
  /\ out' = [out EXCEPT ![j] = <<Push(j, -1)>>]
  /\ Goto(j, "header")
  /\ UNCHANGED <<file_size, total_transferred, result, relayed, down,
                 wclosed, sclosed, alive, backlog, cvars>>

SendPull(j) ==
  /\ wpc[j] = "pull"
  /\ up' = [up EXCEPT ![SrcConn(j)] = Append(@, Pull(j))]
  /\ Goto(j, "header")
  /\ UNCHANGED <<file_size, total_transferred, out, result, relayed, down,
                 wclosed, sclosed, alive, backlog, cvars>>

\* send_command fails: the source has gone since connect
SendPullFails(j) ==
  /\ wpc[j] = "pull" /\ SrcConn(j) \in sclosed
  /\ Return(j, "err", {SrcConn(j), TgtConn(j)})
  /\ UNCHANGED <<file_size, total_transferred, out, relayed, up, down,
                 sclosed, alive, backlog, cvars>>

\* A relay that sends the data before its announcement
ChunkBehindData(j, data) == data \o <<Push(j, Len(data))>>

\* A relay that opens the target file again for every chunk
ChunkReopens(j, data) == <<Push(j, -1), Push(j, Len(data))>> \o data

\* The command and the data of one chunk; an empty one is not sent
Chunk(j, data) == IF data = <<>> THEN <<>> ELSE <<Push(j, Len(data))>> \o data

\* A relay that takes the header for data
HeaderKept(units) == units

AfterHeader(units) == Rest(units, 1)

\* The first recv brings the header and perhaps the first data
RecvHeader(j) ==
  /\ wpc[j] = "header"
  /\ \E k \in Received(down[SrcConn(j)], BufSize) :
       LET units == First(down[SrcConn(j)], k)
           data == AfterHeader(units)
       IN /\ down' = [down EXCEPT ![SrcConn(j)] = Rest(@, k)]
          /\ IF units[1].n < 0
             THEN /\ Return(j, "err", {SrcConn(j), TgtConn(j)})
                  /\ UNCHANGED <<file_size, total_transferred, out, relayed>>
             ELSE /\ file_size' = [file_size EXCEPT ![j] = units[1].n]
                  /\ total_transferred' =
                       [total_transferred EXCEPT ![j] = Len(data)]
                  /\ out' = [out EXCEPT ![j] = <<Push(j, -1)>> \o Chunk(j, data)]
                  /\ relayed' = [relayed EXCEPT ![j] = data]
                  /\ Goto(j, "relay")
                  /\ UNCHANGED <<result, wclosed>>
  /\ UNCHANGED <<up, sclosed, alive, backlog, cvars>>

\* The first recv returns nothing, a header without its space, or an error
RecvNoHeader(j) ==
  /\ wpc[j] = "header"
  /\ \/ EndOf(down, SrcConn(j), sclosed)
     \/ "split" \in Faults /\ down[SrcConn(j)] # <<>>
     \/ j \in Interrupted /\ down[SrcConn(j)] = <<>>
  /\ Return(j, "err", {SrcConn(j), TgtConn(j)})
  /\ UNCHANGED <<file_size, total_transferred, out, relayed, up, down,
                 sclosed, alive, backlog, cvars>>

SendToTarget(j) ==
  /\ out[j] # <<>> /\ TgtConn(j) \notin sclosed
  /\ Len(up[TgtConn(j)]) < SockBuf
  /\ up' = [up EXCEPT ![TgtConn(j)] = Append(@, Head(out[j]))]
  /\ out' = [out EXCEPT ![j] = Tail(@)]
  /\ UNCHANGED <<wpc, file_size, total_transferred, result, relayed, down,
                 wclosed, sclosed, alive, backlog, cvars>>

\* What is left to send when one send is given up: a command is one send, the
\* data of a chunk is one
AfterSend(units) == IF Head(units).op = "DATA" THEN <<>> ELSE Tail(units)

\* A send that is not completed, because the target is gone or because a signal
\* comes while it waits for room: its result is not looked at ...
SendLost(j) ==
  /\ out[j] # <<>>
  /\ \/ TgtConn(j) \in sclosed /\ UNCHANGED harm
     \/ /\ j \in Interrupted /\ Len(up[TgtConn(j)]) >= SockBuf
        /\ harm' = harm \cup {<<"spoilt", j>>}
  /\ out' = [out EXCEPT ![j] = AfterSend(@)]
  /\ UNCHANGED <<wpc, file_size, total_transferred, result, relayed, up, down,
                 wclosed, sclosed, alive, backlog, hpc, serving, reply, need,
                 current_fd, stored>>

\* ... except that of the command that starts the file ...
SendOpenFails(j) ==
  /\ out[j] # <<>> /\ TgtConn(j) \in sclosed
  /\ Head(out[j]) = Push(j, -1)
  /\ Return(j, "err", {SrcConn(j), TgtConn(j)})
  /\ out' = [out EXCEPT ![j] = <<>>]
  /\ UNCHANGED <<file_size, total_transferred, relayed, up, down, sclosed,
                 alive, backlog, cvars>>

\* A worker that sends to a client that is gone
SendsToNobody(j) ==
  \/ out[j] # <<>> /\ TgtConn(j) \in sclosed
  \/ wpc[j] = "pull" /\ SrcConn(j) \in sclosed

\* ... or send raises SIGPIPE, which ends nfs_manager and all its workers
ManagerKilled(j) ==
  /\ SendsToNobody(j)
  /\ wpc' = [i \in Jobs |-> IF wpc[i] = "done" THEN "done" ELSE "killed"]
  /\ out' = [i \in Jobs |-> <<>>]
  /\ wclosed' = Conns
  /\ UNCHANGED <<file_size, total_transferred, result, relayed, up, down,
                 sclosed, alive, backlog, cvars>>

\* A loop that ends with the first data it gets
MoreToRelayOnce(j) == total_transferred[j] = 0 /\ file_size[j] > 0


MoreToRelay(j) == total_transferred[j] < file_size[j]

RelayChunk(j) ==
  /\ wpc[j] = "relay" /\ out[j] = <<>>
  /\ MoreToRelay(j)
  /\ \E k \in Received(down[SrcConn(j)], BufSize) :
       LET data == First(down[SrcConn(j)], k)
       IN /\ down' = [down EXCEPT ![SrcConn(j)] = Rest(@, k)]
          /\ total_transferred' = [total_transferred EXCEPT ![j] = @ + k]
          /\ out' = [out EXCEPT ![j] = Chunk(j, data)]
          /\ relayed' = [relayed EXCEPT ![j] = @ \o data]
  /\ UNCHANGED <<wpc, file_size, result, up, wclosed, sclosed, alive, backlog,
                 cvars>>

\* Everything is passed on, or recv returned 0: send the end mark ...
EndRelay(j) ==
  /\ wpc[j] = "relay" /\ out[j] = <<>>
  /\ out' = [out EXCEPT ![j] = <<Push(j, 0)>>]
  /\ Goto(j, "eof")
  /\ UNCHANGED <<file_size, total_transferred, result, relayed, up, down,
                 wclosed, sclosed, alive, backlog, hpc, serving, reply, need,
                 current_fd, stored>>

RelayEnds(j) ==
  /\ EndRelay(j)
  /\ MoreToRelay(j) => EndOf(down, SrcConn(j), sclosed)
  /\ UNCHANGED harm

\* ... as also when recv fails because of a signal
RelayInterrupted(j) ==
  /\ EndRelay(j)
  /\ MoreToRelay(j) /\ j \in Interrupted /\ down[SrcConn(j)] = <<>>
  /\ harm' = harm \cup {<<"signal", j>>}

\* The connections are closed, SUCCESS is logged and 0 is returned
SyncReturns(j) ==
  /\ wpc[j] = "eof" /\ out[j] = <<>>
  /\ Return(j, "ok", {SrcConn(j), TgtConn(j)})
  /\ UNCHANGED <<file_size, total_transferred, out, relayed, up, down,
                 sclosed, alive, backlog, cvars>>
-----------------------------------------------------------------------------
(***************************************************************************)
(* nfs_client: the accept loop and handle_client_connection.               *)
(***************************************************************************)
Handle(cl, pc) == hpc' = [hpc EXCEPT ![cl] = pc]

Accept(cl) ==
  /\ hpc[cl] = "accept"
  /\ backlog[cl] # <<>>
  /\ serving' = [serving EXCEPT ![cl] = Head(backlog[cl])]
  /\ backlog' = [backlog EXCEPT ![cl] = Tail(@)]
  /\ Handle(cl, "command")
  /\ UNCHANGED <<wvars, up, down, wclosed, sclosed, alive, reply, need,
                 current_fd, disk>>

\* The worker has closed its end: close ours and accept the next connection
Disconnect(cl) ==
  /\ hpc[cl] = "command"
  /\ EndOf(up, serving[cl], wclosed)
  /\ sclosed' = sclosed \cup {serving[cl]}
  /\ serving' = [serving EXCEPT ![cl] = None]
  /\ Handle(cl, "accept")
  /\ UNCHANGED <<wvars, up, down, wclosed, alive, backlog, reply, need,
                 current_fd, disk>>

(***************************************************************************)
(* One recv is taken for one command: its first line is obeyed and the     *)
(* rest of what it returned is forgotten.  `hits' is what else happens to  *)
(* the transfer.                                                           *)
(***************************************************************************)
RecvCommand(cl, cmd, hits) ==
  /\ hpc[cl] = "command"
  /\ up[serving[cl]] # <<>>
  /\ cmd = Head(up[serving[cl]])
  /\ \E k \in IF "coalesce" \in Faults
              THEN Received(up[serving[cl]], BufSize) ELSE {1} :
       /\ up' = [up EXCEPT ![serving[cl]] = Rest(@, k)]
       /\ harm' = harm \cup hits \cup
                    (IF k = 1 THEN {} ELSE {<<"spoilt", serving[cl][1]>>})
  /\ UNCHANGED <<wvars, down, wclosed, sclosed, alive, backlog, serving>>

Refused(j) == <<Header(j, -1)>>
Lengths(j) == (IF "shrink" \in Faults THEN 0 ELSE Size[j])..MaxSize(j)

\* handle_pull_command opens the file and sends its size and its content,
\* of which n units are there when they are read ...
PullReply(j, n) == <<Header(j, Size[j])>> \o First(Content(j), n)

HandlePull(cl) ==
  /\ \E j \in Jobs :
       \/ \E n \in Lengths(j) :
            /\ RecvCommand(cl, Pull(j), IF n < Size[j] THEN {<<"shrink", j>>} ELSE {})
            /\ reply' = [reply EXCEPT ![cl] = PullReply(j, n)]
       \/ /\ "noread" \in Faults
          /\ RecvCommand(cl, Pull(j), {})
          /\ reply' = [reply EXCEPT ![cl] = Refused(j)]
  /\ Handle(cl, "pulling")
  /\ UNCHANGED <<need, current_fd, stored>>

\* ... as fast as the socket takes it
PullSends(cl) ==
  /\ hpc[cl] = "pulling"
  /\ reply[cl] # <<>> /\ serving[cl] \notin wclosed
  /\ Len(down[serving[cl]]) < SockBuf
  /\ down' = [down EXCEPT ![serving[cl]] = Append(@, Head(reply[cl]))]
  /\ reply' = [reply EXCEPT ![cl] = Tail(@)]
  /\ UNCHANGED <<wvars, up, wclosed, sclosed, alive, backlog, serving, hpc,
                 need, current_fd, disk>>

\* The worker has closed: what is sent is lost, or send fails and ends it
PullLost(cl) ==
  /\ hpc[cl] = "pulling"
  /\ reply[cl] # <<>> /\ serving[cl] \in wclosed
  /\ \E rest \in {<<>>, Tail(reply[cl])} :
       reply' = [reply EXCEPT ![cl] = rest]
  /\ UNCHANGED <<wvars, up, down, wclosed, sclosed, alive, backlog, serving,
                 hpc, need, current_fd, disk>>

PullDone(cl) ==
  /\ hpc[cl] = "pulling"
  /\ reply[cl] = <<>>
  /\ Handle(cl, "command")
  /\ UNCHANGED <<wvars, up, down, wclosed, sclosed, alive, backlog, serving,
                 reply, need, current_fd, disk>>

\* An open without O_TRUNC
KeepOld(j, content) == content

Truncated(j, content) == <<>>

\* PUSH with -1: the file that is still open is closed, the new one truncated
HandlePushOpen(cl) ==
  /\ \E j \in Jobs :
       \/ /\ RecvCommand(cl, Push(j, -1), {})
          /\ current_fd' = [current_fd EXCEPT ![cl] = j]
          /\ stored' = [stored EXCEPT ![j] = Truncated(j, @)]
       \/ /\ "nowrite" \in Faults
          /\ RecvCommand(cl, Push(j, -1), {<<"nowrite", j>>})
          /\ current_fd' = [current_fd EXCEPT ![cl] = None]
          /\ UNCHANGED stored
  /\ UNCHANGED <<hpc, reply, need>>

HandlePushEnd(cl) ==
  /\ \E j \in Jobs : RecvCommand(cl, Push(j, 0), {})
  /\ current_fd' = [current_fd EXCEPT ![cl] = None]
  /\ UNCHANGED <<hpc, reply, need, stored>>

\* PUSH with the size of a chunk; without an open file its data is not read
HandlePushChunk(cl) ==
  /\ \E j \in Jobs, n \in 1..BufSize :
       /\ RecvCommand(cl, Push(j, n), {})
       /\ IF current_fd[cl] = None THEN UNCHANGED <<hpc, need>>
          ELSE /\ need' = [need EXCEPT ![cl] = n]
               /\ Handle(cl, "pushing")
  /\ UNCHANGED <<reply, current_fd, stored>>

\* Data where a command is expected: "Unknown command"
HandleUnknown(cl) ==
  /\ \E j \in Jobs : \E i \in 1..MaxSize(j) : RecvCommand(cl, Data(j, i), {})
  /\ UNCHANGED <<hpc, reply, need, current_fd, stored>>

\* A recv that may read past the end of the chunk
WithoutChunkEnd(cl) == BufSize

ToReceive(cl) == Min2(need[cl], BufSize)

PushRecv(cl) ==
  /\ hpc[cl] = "pushing"
  /\ \E k \in Received(up[serving[cl]], ToReceive(cl)) :
       /\ stored' = [stored EXCEPT
            ![current_fd[cl]] = @ \o First(up[serving[cl]], k)]
       /\ up' = [up EXCEPT ![serving[cl]] = Rest(@, k)]
       /\ need' = [need EXCEPT ![cl] = @ - k]
       /\ Handle(cl, IF need[cl] <= k THEN "command" ELSE "pushing")
  /\ UNCHANGED <<wvars, down, wclosed, sclosed, alive, backlog, serving, reply,
                 current_fd, harm>>

\* write fails or takes only a part: the handler gives up the chunk, but not the
\* file, and what is still to come of the chunk will be taken for commands
PushWriteFails(cl) ==
  /\ hpc[cl] = "pushing" /\ "full" \in Faults
  /\ \E k \in Received(up[serving[cl]], ToReceive(cl)) :
       /\ \E m \in 0 .. k - 1 :
            stored' = [stored EXCEPT
              ![current_fd[cl]] = @ \o First(up[serving[cl]], m)]
       /\ up' = [up EXCEPT ![serving[cl]] = Rest(@, k)]
  /\ harm' = harm \cup {<<"full", current_fd[cl]>>}
  /\ Handle(cl, "command")
  /\ UNCHANGED <<wvars, down, wclosed, sclosed, alive, backlog, serving, reply,
                 need, current_fd>>

\* The worker's end closes in the middle of a chunk
PushCut(cl) ==
  /\ hpc[cl] = "pushing"
  /\ EndOf(up, serving[cl], wclosed)
  /\ Handle(cl, "command")
  /\ UNCHANGED <<wvars, up, down, wclosed, sclosed, alive, backlog, serving,
                 reply, need, current_fd, disk>>

\* The process ends; its sockets are closed, also the ones not yet accepted
Dies(cl) ==
  /\ alive' = alive \ {cl}
  /\ sclosed' = sclosed \cup {c \in Conns : Server(c) = cl}
  /\ serving' = [serving EXCEPT ![cl] = None]
  /\ reply' = [reply EXCEPT ![cl] = <<>>]
  /\ Handle(cl, "dead")
  /\ UNCHANGED <<wvars, up, down, wclosed, backlog, need, current_fd, disk>>

Killed(cl) ==
  /\ cl \in Mortal \cap alive
  /\ Dies(cl)

\* ... or send raises SIGPIPE, which nfs_client does not handle
BrokenPipe(cl) ==
  /\ hpc[cl] = "pulling"
  /\ reply[cl] # <<>> /\ serving[cl] \in wclosed
  /\ Dies(cl)
-----------------------------------------------------------------------------
JobStep(j) ==
  \/ ConnectSource(j) \/ ConnectTarget(j) \/ SendPull(j)
  \/ SendPullFails(j) \/ RecvHeader(j) \/ RecvNoHeader(j)
  \/ SendToTarget(j) \/ SendLost(j) \/ SendOpenFails(j)
  \/ ManagerKilled(j)
  \/ RelayChunk(j) \/ RelayEnds(j) \/ RelayInterrupted(j) \/ SyncReturns(j)

ClientStep(cl) ==
  \/ Accept(cl) \/ Disconnect(cl)
  \/ HandlePull(cl) \/ PullSends(cl) \/ PullLost(cl) \/ PullDone(cl)
  \/ HandlePushOpen(cl) \/ HandlePushEnd(cl) \/ HandlePushChunk(cl)
  \/ HandleUnknown(cl) \/ PushRecv(cl) \/ PushWriteFails(cl) \/ PushCut(cl)

\* All jobs have returned and all clients wait in accept, or are dead
Quiet ==
  /\ \A j \in Jobs : wpc[j] \in {"done", "killed"}
  /\ \A cl \in Clients :
       hpc[cl] = "dead" \/ (hpc[cl] = "accept" /\ backlog[cl] = <<>>)
  /\ UNCHANGED vars

Next ==
  \/ \E j \in Jobs : JobStep(j)
  \/ \E cl \in Clients : ClientStep(cl) \/ Killed(cl) \/ BrokenPipe(cl)
  \/ Quiet

Spec == Init /\ [][Next]_vars
(***************************************************************************)
(* Fairness: the workers and the clients that run go on while they can,    *)
(* and TCP delivers.  Nothing says that a client is killed.                *)
(***************************************************************************)
Fairness ==
  /\ \A j \in Jobs : WF_vars(JobStep(j))
  /\ \A cl \in Clients : WF_vars(ClientStep(cl))

FairSpec == Spec /\ Fairness
-----------------------------------------------------------------------------
Units == [op : {"PULL", "PUSH", "SIZE", "DATA"}, file : Jobs, n : Int]

(***************************************************************************)
(* Type invariant; the socket buffers keep their bound.                    *)
(***************************************************************************)
TypeOK ==
  /\ wpc \in [Jobs -> {"connect_source", "connect_target", "pull", "header",
                       "relay", "eof", "done", "killed"}]
  /\ file_size \in [Jobs -> Nat] /\ total_transferred \in [Jobs -> Nat]
  /\ out \in [Jobs -> Seq(Units)]
  /\ result \in [Jobs -> {"none", "ok", "err"}]
  /\ relayed \in [Jobs -> Seq(Units)]
  /\ up \in [Conns -> Seq(Units)] /\ down \in [Conns -> Seq(Units)]
  /\ \A c \in Conns : Len(up[c]) <= SockBuf /\ Len(down[c]) <= SockBuf
  /\ wclosed \subseteq Conns /\ sclosed \subseteq Conns
  /\ alive \subseteq Clients
  /\ backlog \in [Clients -> Seq(Conns)]
  /\ serving \in [Clients -> Conns \cup {None}]
  /\ hpc \in [Clients -> {"accept", "command", "pulling", "pushing", "dead"}]
  /\ reply \in [Clients -> Seq(Units)]
  /\ need \in [Clients -> Nat]
  /\ current_fd \in [Clients -> Jobs \cup {None}]
  /\ stored \in [Jobs -> Seq(Units)]
  /\ harm \subseteq {"shrink", "nowrite", "full", "signal", "spoilt"} \X Jobs

IsPrefixOf(s, t) == Len(s) <= Len(t) /\ s = First(t, Len(s))

(***************************************************************************)
(* However TCP cuts the answer to PULL into pieces, and whatever happens   *)
(* to the clients, sync_single_file passes on the file's data in order,    *)
(* each unit once, and total_transferred counts it.                        *)
(***************************************************************************)
RelayFaithful ==
  \A j \in Jobs : /\ IsPrefixOf(relayed[j], Content(j))
                  /\ total_transferred[j] = Len(relayed[j])

\* Units of the source file of j, in its order, each at most once
InOrder(j, s) ==
  /\ \A i \in 1..Len(s) : s[i].n \in 1..MaxSize(j) /\ s[i] = Data(j, s[i].n)
  /\ \A i, k \in 1..Len(s) : i < k => s[i].n < s[k].n

(***************************************************************************)
(* A target file is what it was, or it holds units of its source file in   *)
(* their order, none twice and none of another job, although               *)
(* handle_push_command keeps its file open across commands, connections    *)
(* and its own failures.  Without a failed write it is a prefix of the     *)
(* source file.  Nothing is said of a file whose commands and data reached *)
(* the client otherwise than one recv for each send: because one recv      *)
(* brought more, or because a signal cut a send short.                     *)
(***************************************************************************)
StoredInOrder ==
  \A j \in Jobs :
    \/ stored[j] = Old(j) \/ <<"spoilt", j>> \in harm
    \/ /\ InOrder(j, stored[j])
       /\ <<"full", j>> \in harm \/ IsPrefixOf(stored[j], Content(j))

(***************************************************************************)
(* A job that failed (source or target not reachable, source file not      *)
(* readable, no size header) has not touched the target's file.            *)
(***************************************************************************)
FailureKeepsTarget ==
  \A j \in Jobs : result[j] = "err" => stored[j] = Old(j)

\* The files of the jobs f has happened to
Hit(f) == {j \in Jobs : <<f, j>> \in harm}

Copy == INSTANCE FileCopy WITH
          Files <- Jobs, Source <- [j \in Jobs |-> Content(j)],
          Before <- [j \in Jobs |-> Old(j)], target <- stored, report <- result,
          failed <- Hit("full"), spoilt <- Hit("spoilt")

(***************************************************************************)
(* sync_single_file, the clients' handlers and TCP together implement      *)
(* FileCopy: no step of any of them shrinks a target file, reports twice,  *)
(* or skips a unit unless a write has failed, and what is still in the     *)
(* streams of a transfer that has failed never reaches the target's file.  *)
(***************************************************************************)
ImplementsFileCopy == Copy!CopySpec

(***************************************************************************)
(* When sync_single_file returns 0, its source client still runs and no    *)
(* signal has interrupted its recv, the whole file was passed on, as long  *)
(* as it was when its size was taken.                                      *)
(***************************************************************************)
SuccessRelaysAll ==
  \A j \in Jobs :
    result[j] = "ok" /\ Source[j] \in alive /\ <<"signal", j>> \notin harm =>
      Len(relayed[j]) >= Size[j]

(***************************************************************************)
(* When sync_single_file returns 0 the whole file was passed on (its       *)
(* contract in thread_pool.h: 0 on success, -1 on error).                  *)
(***************************************************************************)
SuccessIsComplete ==
  \A j \in Jobs : result[j] = "ok" => Len(relayed[j]) >= Size[j]

\* A source file got shorter after its size was announced
Shrunk == \E i \in Jobs : <<"shrink", i>> \in harm

(***************************************************************************)
(* Every call of sync_single_file returns (or ends with the manager), also *)
(* when clients are killed, writes fail, headers come in pieces, signals   *)
(* come and what a client could not write is taken for commands. The one   *)
(* exception is a source file that shrinks: its worker waits for the rest  *)
(* for ever, and the two clients with it.                                  *)
(***************************************************************************)
TransfersEnd == <>(Shrunk \/ \A j \in Jobs : wpc[j] \in {"done", "killed"})

(***************************************************************************)
(* What was relayed of a file whose transfer was logged as a SUCCESS while *)
(* its source client ran ends up at the target, which works on what is in  *)
(* its socket buffers after sync_single_file has returned.  What a failed  *)
(* open or write of another file leaves in a stream does no harm; a file   *)
(* that shrinks does, because the target is then kept from serving this    *)
(* connection.                                                             *)
(***************************************************************************)
SuccessIsStored ==
  \A j \in Jobs :
    result[j] = "ok" /\ Source[j] \in alive
      ~> \/ stored[j] = relayed[j]
         \/ {<<"nowrite", j>>, <<"full", j>>} \cap harm # {} \/ Shrunk
         \/ Target[j] \notin alive
=============================================================================
