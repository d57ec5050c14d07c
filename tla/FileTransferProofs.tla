------------------------- MODULE FileTransferProofs -------------------------
(***************************************************************************)
(* Proofs about FileTransfer for every configuration: any number of jobs   *)
(* and clients, any sizes, buffers and faults.  The name of a step says    *)
(* which part of the invariant it is about.                                *)
(***************************************************************************)
EXTENDS FileTransfer, SequenceFacts

(***************************************************************************)
(* The inductive invariant.                                                *)
(***************************************************************************)
Early == {"connect_source", "connect_target", "pull"}
Ended == {"done", "killed"}

\* A client serves connections that were made to it, one at a time, and has
\* an answer to send only in handle_pull_command
Sessions ==
  \A cl \in Clients :
    /\ serving[cl] # None => Server(serving[cl]) = cl
    /\ (serving[cl] # None) <=> hpc[cl] \in {"command", "pulling", "pushing"}
    /\ cl \in alive <=> hpc[cl] # "dead"
    /\ reply[cl] # <<>> => hpc[cl] = "pulling"
    /\ \A i \in 1..Len(backlog[cl]) : Server(backlog[cl][i]) = cl

\* A worker closes its connections when it ends; before that, only the death
\* of a client closes one
Closing ==
  \A j \in Jobs :
    /\ SrcConn(j) \in wclosed \/ TgtConn(j) \in wclosed => wpc[j] \in Ended
    /\ SrcConn(j) \in sclosed /\ wpc[j] \notin Ended => Source[j] \notin alive
    /\ TgtConn(j) \in sclosed /\ wpc[j] \notin Ended => Target[j] \notin alive

\* What the place of a worker says about its result, its size and its counter
ResultOf(j) ==
  /\ result[j] # "none" <=> wpc[j] = "done"
  /\ out[j] # <<>> => wpc[j] \in {"relay", "eof"}
  /\ wpc[j] \in {"relay", "eof"} \/ result[j] = "ok" => file_size[j] = Size[j]
  /\ (wpc[j] = "eof" \/ result[j] = "ok") /\ Source[j] \in alive =>
       <<"signal", j>> \in harm \/ total_transferred[j] >= file_size[j]

Results == \A j \in Jobs : ResultOf(j)

\* PULL is sent once, and nothing comes back before the client has taken it
Requests(j) ==
  /\ up[SrcConn(j)] \in {<<>>, <<Pull(j)>>}
  /\ up[SrcConn(j)] # <<>> => wpc[j] \notin Early \cup {"relay", "eof"}
  /\ wpc[j] \in Early \/ up[SrcConn(j)] # <<>> =>
       /\ down[SrcConn(j)] = <<>>
       /\ serving[Source[j]] = SrcConn(j) => reply[Source[j]] = <<>>

\* The k-th unit of an answer to PULL
AnswerUnit(j, k, u) ==
  IF k = 1 THEN u \in {Header(j, Size[j]), Header(j, -1)}
  ELSE k - 1 <= MaxSize(j) /\ u = Data(j, k - 1)

\* How much of the answer the worker has taken
Taken(j) == IF wpc[j] = "relay" THEN Len(relayed[j]) + 1 ELSE 0

\* What is on the way to a worker, and what its client still has to send,
\* continue the answer where the worker is
Answers(j) ==
  wpc[j] \in {"header", "relay"} =>
    /\ \A i \in 1..Len(down[SrcConn(j)]) :
         AnswerUnit(j, Taken(j) + i, down[SrcConn(j)][i])
    /\ serving[Source[j]] = SrcConn(j) =>
         \A i \in 1..Len(reply[Source[j]]) :
           AnswerUnit(j, Taken(j) + Len(down[SrcConn(j)]) + i, reply[Source[j]][i])

\* RelayFaithful unit by unit
IsDataOf(j, s) == Len(s) <= MaxSize(j) /\ \A i \in 1..Len(s) : s[i] = Data(j, i)

Relayed(j) == IsDataOf(j, relayed[j]) /\ total_transferred[j] = Len(relayed[j])

\* What the target's client has yet to read: in its socket buffer, or still
\* with the worker
Pending(j) == up[TgtConn(j)] \o out[j]

AtOpen(j) == Len(Pending(j)) > 0 /\ Pending(j)[1] = Push(j, -1)

\* The target's client has obeyed the command that starts the file, and there
\* is, or will be, more to read
Opened(j) ==
  IF Len(Pending(j)) > 0 THEN Pending(j)[1] # Push(j, -1)
  ELSE wpc[j] \in {"relay", "eof"}

\* A connection to a target carries the file of its job, and starts it once
Commands(j) ==
  /\ \A i \in 1..Len(Pending(j)) :
       Pending(j)[i].op \in {"PUSH", "DATA"} /\ Pending(j)[i].file = j
  /\ \A i \in 2..Len(Pending(j)) : Pending(j)[i] # Push(j, -1)

\* Before the command that starts the file is obeyed, and after a failure,
\* the target's file is what it was
Untouched(j) ==
  /\ wpc[j] \in Early \cup {"header"} \/ result[j] = "err" =>
       Len(Pending(j)) = 0 /\ stored[j] = Old(j)
  /\ AtOpen(j) => stored[j] = Old(j)

\* Once started, a file is the only one its client may have open, as long as
\* there is something to read on its connection
Writing(j) ==
  /\ Opened(j) /\ Target[j] \in alive =>
       serving[Target[j]] = TgtConn(j) /\ current_fd[Target[j]] \in {j, None}
  /\ serving[Source[j]] = SrcConn(j) => hpc[Source[j]] # "pushing"
  /\ serving[Target[j]] = TgtConn(j) => hpc[Target[j]] # "pulling"
  /\ serving[Target[j]] = TgtConn(j) /\ hpc[Target[j]] = "pushing" =>
       /\ current_fd[Target[j]] = j /\ ~AtOpen(j)
       /\ wpc[j] \in {"relay", "eof"} \cup Ended /\ result[j] # "err"

\* The file is still to be started, or it was started and is not yet closed
Intact(j) ==
  /\ Target[j] \in alive
  /\ AtOpen(j) \/ (Opened(j) /\ current_fd[Target[j]] = j)

Pushing(j) == serving[Target[j]] = TgtConn(j) /\ hpc[Target[j]] = "pushing"

\* How long the target's file is, and what handle_push_command still expects
\* of its chunk
Written(j) == IF AtOpen(j) THEN 0 ELSE Len(stored[j])
Due(j) == IF Pushing(j) THEN need[Target[j]] ELSE 0

\* A client that reads the units of s finds, behind the k-th of them, the
\* file at pos[k] and due[k] units of a chunk still to come: data where a
\* chunk is due, a command where none is
Reads(j, s, pos, due) ==
  /\ pos \in [0..Len(s) -> Nat] /\ due \in [0..Len(s) -> Nat]
  /\ \A k \in 0..Len(s) : pos[k] <= MaxSize(j)
  /\ \A k \in 0..Len(s) : \A m \in 1..due[k] : k + m <= Len(s) =>
       /\ s[k + m] = Data(j, pos[k] + m)
       /\ pos[k + m] = pos[k] + m /\ due[k + m] = due[k] - m
  /\ \A k \in 1..Len(s) : due[k - 1] = 0 =>
       /\ s[k] = Push(j, s[k].n)
       /\ pos[k] = pos[k - 1]
       /\ due[k] = IF s[k].n > 0 THEN s[k].n ELSE 0

\* Where reading s leads from n units of a file and m due to, if all of it
\* is there, the end of a chunk at length len
InStep(j, s, n, m, all, len) ==
  \E pos, due : /\ Reads(j, s, pos, due) /\ pos[0] = n /\ due[0] = m
                /\ all => pos[Len(s)] = len /\ due[Len(s)] = 0

\* The target's client stands behind n units of the source file and has m of
\* a chunk before it: all that is written, and what handle_push_command still
\* expects, until a write fails
Place(j, n, m) ==
  /\ n = Written(j) \/ <<"full", j>> \in harm
  /\ m = Due(j) \/ (<<"full", j>> \in harm /\ ~Pushing(j))
  /\ AtOpen(j) \/ \A i \in 1..Len(stored[j]) : stored[j][i].n <= n

\* The chunks of a file come in order and in one piece, up to what its
\* worker has passed on, whatever of it is in which buffer
Frames(j) ==
  <<"spoilt", j>> \notin harm /\ Intact(j) =>
    \E n, m : Place(j, n, m)
              /\ InStep(j, Pending(j), n, m, wpc[j] = "relay", Len(relayed[j]))

\* StoredInOrder unit by unit, and a file that was started is no longer the
\* old one
Kept(j) == InOrder(j, stored[j]) /\ (<<"full", j>> \in harm \/ IsDataOf(j, stored[j]))

Stored(j) ==
  <<"spoilt", j>> \notin harm => /\ stored[j] = Old(j) \/ Kept(j)
                                 /\ Intact(j) /\ ~AtOpen(j) => Kept(j)

SourceInv == \A j \in Jobs : Requests(j) /\ Answers(j) /\ Relayed(j)

TargetInv ==
  \A j \in Jobs : Commands(j) /\ Untouched(j) /\ Writing(j) /\ Frames(j) /\ Stored(j)

Harms == {"shrink", "nowrite", "full", "signal", "spoilt"} \X Jobs

IInv == TypeOK /\ Sessions /\ Closing /\ Results /\ SourceInv /\ TargetInv
-----------------------------------------------------------------------------
(***************************************************************************)
(* Connections, units and sequences.                                       *)
(***************************************************************************)
\* The two connections of a job, and no others
LEMMA ConnFacts ==
  /\ None \notin Conns
  /\ \A j \in Jobs : /\ SrcConn(j) \in Conns /\ TgtConn(j) \in Conns
                     /\ Server(SrcConn(j)) = Source[j] /\ Server(TgtConn(j)) = Target[j]
                     /\ Source[j] \in Clients /\ Target[j] \in Clients
                     /\ SrcConn(j) # None /\ TgtConn(j) # None
  /\ \A i, j \in Jobs : /\ SrcConn(i) = SrcConn(j) => i = j
                        /\ TgtConn(i) = TgtConn(j) => i = j
                        /\ SrcConn(i) # TgtConn(j)
  /\ \A c \in Conns : Server(c) \in Clients
                      /\ \E j \in Jobs : c = SrcConn(j) \/ c = TgtConn(j)
<1>1. \A j \in Jobs : SrcConn(j) \in Conns /\ TgtConn(j) \in Conns
  BY DEF SrcConn, TgtConn, Conns
<1>2. \A j \in Jobs : Source[j] \in Clients /\ Target[j] \in Clients
  BY TransferAssumption
<1>3. \A j \in Jobs : Server(SrcConn(j)) = Source[j] /\ Server(TgtConn(j)) = Target[j]
  BY DEF SrcConn, TgtConn, Server
<1>4. \A i, j \in Jobs : /\ SrcConn(i) = SrcConn(j) => i = j
                         /\ TgtConn(i) = TgtConn(j) => i = j
                         /\ SrcConn(i) # TgtConn(j)
  BY DEF SrcConn, TgtConn
<1>5. \A c \in Conns : \E j \in Jobs : c = SrcConn(j) \/ c = TgtConn(j)
  BY DEF SrcConn, TgtConn, Conns
<1>6. None \notin Conns
  BY TransferAssumption DEF Conns
<1>7. \A c \in Conns : Server(c) \in Clients
  BY <1>2, <1>3, <1>5
<1>8. \A j \in Jobs : SrcConn(j) # None /\ TgtConn(j) # None
  BY <1>1, <1>6
<1>. QED
  BY <1>1, <1>2, <1>3, <1>4, <1>5, <1>6, <1>7, <1>8

\* Units of different kinds differ, and so do those of different files
LEMMA UnitFacts ==
  /\ \A i \in Jobs : \A n \in Int :
       Push(i, n) \in Units /\ Data(i, n) \in Units /\ Header(i, n) \in Units
  /\ \A i \in Jobs : Pull(i) \in Units
  /\ \A i, n : /\ Push(i, n).op = "PUSH" /\ Push(i, n).file = i /\ Push(i, n).n = n
               /\ Data(i, n).op = "DATA" /\ Data(i, n).file = i /\ Data(i, n).n = n
               /\ Header(i, n).op = "SIZE" /\ Header(i, n).n = n
               /\ Pull(i).op = "PULL" /\ Pull(i).file = i
<1>1. /\ \A i \in Jobs : \A n \in Int :
           Push(i, n) \in Units /\ Data(i, n) \in Units /\ Header(i, n) \in Units
      /\ \A i \in Jobs : Pull(i) \in Units
  BY DEF Units, Push, Data, Header, Pull, Unit
<1>2. \A i, n : /\ Push(i, n).op = "PUSH" /\ Push(i, n).file = i /\ Push(i, n).n = n
                /\ Data(i, n).op = "DATA" /\ Data(i, n).file = i /\ Data(i, n).n = n
                /\ Header(i, n).op = "SIZE" /\ Header(i, n).n = n
                /\ Pull(i).op = "PULL" /\ Pull(i).file = i
  BY DEF Push, Data, Header, Pull, Unit
<1>. QED
  BY <1>1, <1>2

\* The sizes of a file
LEMMA SizeFacts ==
  ASSUME NEW j \in Jobs
  PROVE  /\ Size[j] \in Nat /\ MaxSize(j) \in Nat /\ Size[j] <= MaxSize(j)
         /\ Content(j) \in Seq(Units) /\ Len(Content(j)) = MaxSize(j)
         /\ \A i \in 1..MaxSize(j) : Content(j)[i] = Data(j, i)
         /\ Old(j) \in Seq(Units) /\ ~InOrder(j, Old(j))
<1>1. Size[j] \in Nat /\ MaxSize(j) \in Nat /\ Size[j] <= MaxSize(j)
  BY TransferAssumption DEF MaxSize
<1>2. \A i \in 1..MaxSize(j) : Data(j, i) \in Units
  <2>1. \A i \in 1..MaxSize(j) : i \in Int
    BY <1>1
  <2>. QED
    BY <2>1, UnitFacts
<1>3. /\ Content(j) \in Seq(Units) /\ Len(Content(j)) = MaxSize(j)
      /\ \A i \in 1..MaxSize(j) : Content(j)[i] = Data(j, i)
  <2>. HIDE DEF Data
  <2>1. Content(j) \in [1..MaxSize(j) -> Units]
    BY <1>2 DEF Content
  <2>. QED
    BY <1>1, <2>1 DEF Content
<1>4. Old(j) \in Seq(Units) /\ Len(Old(j)) = 1 /\ Old(j)[1] = Data(j, 0)
  BY UnitFacts DEF Old
<1>5. Old(j)[1].n = 0
  BY <1>4, UnitFacts
<1>6. ~InOrder(j, Old(j))
  BY <1>1, <1>4, <1>5 DEF InOrder
<1>. QED
  BY <1>1, <1>3, <1>4, <1>6

\* What is data unit by unit is a prefix of the file
LEMMA DataIsPrefix ==
  ASSUME NEW j \in Jobs, NEW s \in Seq(Units), IsDataOf(j, s)
  PROVE  IsPrefixOf(s, Content(j)) /\ s = SubSeq(Content(j), 1, Len(s))
<1>1. Len(s) \in 0..MaxSize(j) /\ Len(s) \in Nat
  BY SizeFacts, LenProperties DEF IsDataOf
<1>2. /\ First(Content(j), Len(s)) \in Seq(Units)
      /\ Len(First(Content(j), Len(s))) = Len(s)
      /\ \A i \in 1..Len(s) : First(Content(j), Len(s))[i] = Content(j)[i]
  BY <1>1, SizeFacts, FirstIndices DEF First
<1>3. \A i \in 1..Len(s) : i \in 1..MaxSize(j)
  BY <1>1, SizeFacts
<1>4. \A i \in 1..Len(s) : s[i] = First(Content(j), Len(s))[i]
  BY <1>2, <1>3, SizeFacts DEF IsDataOf
<1>5. s = First(Content(j), Len(s))
  BY <1>2, <1>4, SeqEqual
<1>. QED
  BY <1>1, <1>5, SizeFacts DEF IsPrefixOf, First
-----------------------------------------------------------------------------
(***************************************************************************)
(* What a client reads when units are taken, added or lost.                *)
(***************************************************************************)
\* Nothing to read
LEMMA ReadsNothing ==
  ASSUME NEW j \in Jobs, NEW n \in 0..MaxSize(j), NEW m \in Nat,
         NEW s \in Seq(Units), Len(s) = 0
  PROVE  Reads(j, s, [k \in 0..Len(s) |-> n], [k \in 0..Len(s) |-> m])
<1>1. n \in Nat /\ n <= MaxSize(j)
  BY SizeFacts
<1>. QED
  BY <1>1 DEF Reads

\* The first k units are taken
LEMMA InStepRest ==
  ASSUME NEW j \in Jobs, NEW s \in Seq(Units), NEW r \in Seq(Units), NEW pos, NEW due,
         Reads(j, s, pos, due), NEW k \in 0..Len(s), Len(r) = Len(s) - k,
         \A i \in 1..Len(r) : r[i] = s[k + i],
         NEW all, NEW len, all => pos[Len(s)] = len /\ due[Len(s)] = 0
  PROVE  InStep(j, r, pos[k], due[k], all, len)
<1>. DEFINE p == [i \in 0..Len(r) |-> pos[k + i]]
            d == [i \in 0..Len(r) |-> due[k + i]]
<1>0. Len(s) \in Nat /\ Len(r) \in Nat /\ k \in Nat /\ MaxSize(j) \in Nat
  BY LenProperties, SizeFacts
<1>1. /\ \A i \in 0..Len(r) : k + i \in 0..Len(s)
      /\ \A i \in 1..Len(r) : /\ k + i \in 1..Len(s) /\ i - 1 \in 0..Len(r)
                               /\ (k + i) - 1 = k + (i - 1)
      /\ 0 \in 0..Len(r) /\ Len(r) \in 0..Len(r) /\ k + 0 = k /\ k + Len(r) = Len(s)
  BY <1>0
<1>2. p \in [0..Len(r) -> Nat] /\ d \in [0..Len(r) -> Nat]
  BY <1>1 DEF Reads
<1>3. \A i \in 0..Len(r) : p[i] = pos[k + i] /\ d[i] = due[k + i]
  OBVIOUS
<1>. HIDE DEF p, d
<1>4. \A i \in 0..Len(r) : p[i] <= MaxSize(j)
  BY <1>1, <1>3 DEF Reads
<1>5. ASSUME NEW i \in 0..Len(r), NEW m \in 1..d[i], i + m <= Len(r)
      PROVE  /\ r[i + m] = Data(j, p[i] + m)
             /\ p[i + m] = p[i] + m /\ d[i + m] = d[i] - m
  <2>1. /\ k + i \in 0..Len(s) /\ m \in 1..due[k + i] /\ (k + i) + m <= Len(s)
        /\ k + (i + m) = (k + i) + m /\ i + m \in 1..Len(r) /\ i + m \in 0..Len(r)
    BY <1>0, <1>1, <1>2, <1>3, <1>5
  <2>2. /\ s[(k + i) + m] = Data(j, pos[k + i] + m)
        /\ pos[(k + i) + m] = pos[k + i] + m /\ due[(k + i) + m] = due[k + i] - m
    BY <2>1 DEF Reads
  <2>. QED
    BY <1>3, <2>1, <2>2
<1>6. ASSUME NEW i \in 1..Len(r), d[i - 1] = 0
      PROVE  /\ r[i] = Push(j, r[i].n) /\ p[i] = p[i - 1]
             /\ d[i] = IF r[i].n > 0 THEN r[i].n ELSE 0
  <2>1. k + i \in 1..Len(s) /\ due[(k + i) - 1] = 0 /\ r[i] = s[k + i]
    BY <1>1, <1>3, <1>6
  <2>2. /\ s[k + i] = Push(j, s[k + i].n) /\ pos[k + i] = pos[(k + i) - 1]
        /\ due[k + i] = IF s[k + i].n > 0 THEN s[k + i].n ELSE 0
    BY <2>1 DEF Reads
  <2>3. i \in 0..Len(r)
    BY <1>0
  <2>. QED
    BY <1>1, <1>3, <2>1, <2>2, <2>3
<1>7. Reads(j, r, p, d)
  BY <1>2, <1>4, <1>5, <1>6 DEF Reads
<1>8. p[0] = pos[k] /\ d[0] = due[k] /\ p[Len(r)] = pos[Len(s)] /\ d[Len(r)] = due[Len(s)]
  BY <1>1, <1>3
<1>. QED
  BY <1>7, <1>8 DEF InStep

\* Only the first k units come
LEMMA ReadsFirst ==
  ASSUME NEW j \in Jobs, NEW s \in Seq(Units), NEW r \in Seq(Units), NEW pos, NEW due,
         Reads(j, s, pos, due), Len(r) <= Len(s), \A i \in 1..Len(r) : r[i] = s[i]
  PROVE  \E p, d : Reads(j, r, p, d) /\ p[0] = pos[0] /\ d[0] = due[0]
<1>. DEFINE p == [i \in 0..Len(r) |-> pos[i]]
            d == [i \in 0..Len(r) |-> due[i]]
<1>0. Len(s) \in Nat /\ Len(r) \in Nat /\ MaxSize(j) \in Nat
  BY LenProperties, SizeFacts
<1>1. /\ \A i \in 0..Len(r) : i \in 0..Len(s)
      /\ \A i \in 1..Len(r) : i \in 1..Len(s) /\ i - 1 \in 0..Len(r) /\ i \in 0..Len(r)
      /\ 0 \in 0..Len(r)
  BY <1>0
<1>2. p \in [0..Len(r) -> Nat] /\ d \in [0..Len(r) -> Nat]
  BY <1>1 DEF Reads
<1>3. \A i \in 0..Len(r) : p[i] = pos[i] /\ d[i] = due[i]
  OBVIOUS
<1>. HIDE DEF p, d
<1>4. \A i \in 0..Len(r) : p[i] <= MaxSize(j)
  BY <1>1, <1>3 DEF Reads
<1>5. ASSUME NEW i \in 0..Len(r), NEW m \in 1..d[i], i + m <= Len(r)
      PROVE  /\ r[i + m] = Data(j, p[i] + m)
             /\ p[i + m] = p[i] + m /\ d[i + m] = d[i] - m
  <2>1. /\ i \in 0..Len(s) /\ m \in 1..due[i] /\ i + m <= Len(s)
        /\ i + m \in 1..Len(r) /\ i + m \in 0..Len(r)
    BY <1>0, <1>1, <1>2, <1>3, <1>5
  <2>2. /\ s[i + m] = Data(j, pos[i] + m)
        /\ pos[i + m] = pos[i] + m /\ due[i + m] = due[i] - m
    BY <2>1 DEF Reads
  <2>. QED
    BY <1>3, <2>1, <2>2
<1>6. ASSUME NEW i \in 1..Len(r), d[i - 1] = 0
      PROVE  /\ r[i] = Push(j, r[i].n) /\ p[i] = p[i - 1]
             /\ d[i] = IF r[i].n > 0 THEN r[i].n ELSE 0
  <2>1. i \in 1..Len(s) /\ due[i - 1] = 0 /\ r[i] = s[i] /\ i \in 0..Len(r) /\ i - 1 \in 0..Len(r)
    BY <1>1, <1>3, <1>6
  <2>2. /\ s[i] = Push(j, s[i].n) /\ pos[i] = pos[i - 1]
        /\ due[i] = IF s[i].n > 0 THEN s[i].n ELSE 0
    BY <2>1 DEF Reads
  <2>. QED
    BY <1>3, <2>1, <2>2
<1>7. Reads(j, r, p, d)
  BY <1>2, <1>4, <1>5, <1>6 DEF Reads
<1>. QED
  BY <1>1, <1>3, <1>7

\* r is s with a command behind it, and the c units of data it announces,
\* from the b-th of the file on
Longer(j, s, r, n, c, b) ==
  /\ n \in Int /\ c \in Nat /\ c = IF n > 0 THEN n ELSE 0
  /\ b + c <= MaxSize(j)
  /\ r \in Seq(Units) /\ Len(r) = Len(s) + 1 + c
  /\ \A i \in 1..Len(s) : r[i] = s[i]
  /\ r[Len(s) + 1] = Push(j, n)
  /\ \A i \in 1..c : r[Len(s) + 1 + i] = Data(j, b + i)

\* A command follows, and the data of its chunk, behind a complete one
LEMMA ReadsChunk ==
  ASSUME NEW j \in Jobs, NEW s \in Seq(Units), NEW r, NEW pos, NEW due,
         Reads(j, s, pos, due), due[Len(s)] = 0,
         NEW n, NEW c, NEW len, len = pos[Len(s)], Longer(j, s, r, n, c, len)
  PROVE  InStep(j, r, pos[0], due[0], TRUE, len + c)
<1>. DEFINE L == Len(s)
            b == pos[L]
            p == [i \in 0..Len(r) |-> IF i <= L THEN pos[i] ELSE b + (i - (L + 1))]
            d == [i \in 0..Len(r) |-> IF i <= L THEN due[i] ELSE c - (i - (L + 1))]
<1>0. /\ L \in Nat /\ Len(r) = L + 1 + c /\ MaxSize(j) \in Nat /\ L \in 0..L /\ 0 \in 0..L
      /\ n \in Int /\ c \in Nat /\ c = IF n > 0 THEN n ELSE 0
  BY LenProperties, SizeFacts DEF Longer
<1>1. /\ b \in Nat /\ b + c <= MaxSize(j) /\ due[L] = 0
      /\ \A i \in 0..L : pos[i] \in Nat /\ due[i] \in Nat /\ pos[i] <= MaxSize(j)
  BY <1>0 DEF Reads, Longer
<1>2. \A i \in 1..L : r[i] = s[i]
  BY DEF Longer
<1>3. r[L + 1] = Push(j, n) /\ \A i \in 1..c : r[L + 1 + i] = Data(j, b + i)
  BY DEF Longer
<1>4. \A i \in 0..L : \A m \in 1..due[i] :
        /\ i + m <= L
        /\ s[i + m] = Data(j, pos[i] + m)
        /\ pos[i + m] = pos[i] + m /\ due[i + m] = due[i] - m
  <2>. SUFFICES ASSUME NEW i \in 0..L, NEW m \in 1..due[i]
                PROVE  /\ i + m <= L
                       /\ s[i + m] = Data(j, pos[i] + m)
                       /\ pos[i + m] = pos[i] + m /\ due[i + m] = due[i] - m
    OBVIOUS
  <2>1. ASSUME ~(i + m <= L) PROVE FALSE
    <3>1. CASE i = L
      BY <1>1, <3>1
    <3>2. CASE i # L
      <4>1. L - i \in 1..due[i] /\ i + (L - i) = L /\ i + (L - i) <= L /\ due[i] - (L - i) > 0
        BY <1>0, <1>1, <2>1, <3>2
      <4>2. due[i + (L - i)] = due[i] - (L - i)
        BY <4>1 DEF Reads
      <4>. QED
        BY <1>1, <4>1, <4>2
    <3>. QED
      BY <3>1, <3>2
  <2>. QED
    BY <2>1 DEF Reads
<1>5. \A k \in 1..L : due[k - 1] = 0 =>
       /\ s[k] = Push(j, s[k].n)
       /\ pos[k] = pos[k - 1]
       /\ due[k] = IF s[k].n > 0 THEN s[k].n ELSE 0
  BY DEF Reads
<1>. HIDE DEF L, b
<1>6. /\ \A i \in 0..L : p[i] = pos[i] /\ d[i] = due[i]
      /\ \A i \in 0..c : p[L + 1 + i] = b + i /\ d[L + 1 + i] = c - i
  <2>1. \A i \in 0..L : i \in 0..Len(r) /\ i <= L
    BY <1>0
  <2>2. \A i \in 0..c : /\ L + 1 + i \in 0..Len(r) /\ ~(L + 1 + i <= L)
                        /\ (L + 1 + i) - (L + 1) = i
    BY <1>0
  <2>. QED
    BY <2>1, <2>2
<1>7. \A i \in 0..Len(r) : i \in 0..L \/ \E k \in 0..c : i = L + 1 + k
  <2>1. \A i \in 0..Len(r) : i \in 0..L \/ (i - (L + 1) \in 0..c /\ i = L + 1 + (i - (L + 1)))
    BY <1>0
  <2>. QED
    BY <2>1
<1>8. p \in [0..Len(r) -> Nat] /\ d \in [0..Len(r) -> Nat]
  <2>. HIDE DEF p, d
  <2>1. \A i \in 0..c : b + i \in Nat /\ c - i \in Nat
    BY <1>0, <1>1
  <2>2. ASSUME NEW i \in 0..Len(r) PROVE p[i] \in Nat /\ d[i] \in Nat
    <3>1. CASE i \in 0..L
      BY <1>1, <1>6, <3>1
    <3>2. CASE \E k \in 0..c : i = L + 1 + k
      <4>1. PICK k \in 0..c : i = L + 1 + k
        BY <3>2
      <4>. QED
        BY <1>6, <2>1, <4>1
    <3>. QED
      BY <1>7, <3>1, <3>2
  <2>. QED
    BY <2>2 DEF p, d
<1>. HIDE DEF p, d
<1>9. \A i \in 0..Len(r) : p[i] <= MaxSize(j)
  <2>1. \A i \in 0..c : b + i <= MaxSize(j)
    BY <1>0, <1>1
  <2>. QED
    BY <1>1, <1>6, <1>7, <2>1
<1>10. ASSUME NEW i \in 0..Len(r), NEW m \in 1..d[i], i + m <= Len(r)
       PROVE  /\ r[i + m] = Data(j, p[i] + m)
              /\ p[i + m] = p[i] + m /\ d[i + m] = d[i] - m
  <2>1. CASE i \in 0..L
    <3>1. m \in 1..due[i] /\ p[i] = pos[i] /\ d[i] = due[i]
      BY <1>6, <2>1
    <3>2. /\ i + m <= L
          /\ s[i + m] = Data(j, pos[i] + m)
          /\ pos[i + m] = pos[i] + m /\ due[i + m] = due[i] - m
      BY <1>4, <2>1, <3>1
    <3>3. i + m \in 1..L /\ i + m \in 0..L
      BY <1>0, <1>1, <2>1, <3>1, <3>2
    <3>. QED
      BY <1>2, <1>6, <3>1, <3>2, <3>3
  <2>2. CASE \E k \in 0..c : i = L + 1 + k
    <3>1. PICK k \in 0..c : i = L + 1 + k
      BY <2>2
    <3>2. p[i] = b + k /\ d[i] = c - k
      BY <1>6, <3>1
    <3>3. /\ k + m \in 0..c /\ k + m \in 1..c /\ i + m = L + 1 + (k + m)
          /\ b + (k + m) = (b + k) + m /\ c - (k + m) = (c - k) - m
      BY <1>0, <1>1, <1>10, <3>1, <3>2
    <3>. QED
      BY <1>3, <1>6, <3>2, <3>3
  <2>. QED
    BY <1>7, <2>1, <2>2
<1>11. ASSUME NEW i \in 1..Len(r), d[i - 1] = 0
       PROVE  /\ r[i] = Push(j, r[i].n) /\ p[i] = p[i - 1]
              /\ d[i] = IF r[i].n > 0 THEN r[i].n ELSE 0
  <2>1. CASE i \in 1..L
    <3>1. i - 1 \in 0..L /\ i \in 0..L
      BY <1>0, <2>1
    <3>. QED
      BY <1>2, <1>5, <1>6, <1>11, <2>1, <3>1
  <2>2. CASE i = L + 1
    <3>1. r[i] = Push(j, n) /\ r[i].n = n
      BY <1>3, <2>2, UnitFacts
    <3>2. i - 1 = L /\ i = L + 1 + 0 /\ 0 \in 0..c /\ b + 0 = b /\ c - 0 = c
      BY <1>0, <1>1, <2>2
    <3>3. p[i] = b /\ d[i] = c /\ p[i - 1] = b
      BY <1>0, <1>6, <3>2 DEF b
    <3>. QED
      BY <1>0, <3>1, <3>3
  <2>3. CASE i > L + 1
    <3>1. i - (L + 2) \in 0..c /\ i - 1 = L + 1 + (i - (L + 2)) /\ i - (L + 2) < c
      BY <1>0, <2>3
    <3>2. d[i - 1] = c - (i - (L + 2))
      BY <1>6, <3>1
    <3>. QED
      BY <1>0, <1>11, <3>1, <3>2
  <2>. QED
    BY <1>0, <2>1, <2>2, <2>3
<1>12. Reads(j, r, p, d)
  BY <1>8, <1>9, <1>10, <1>11 DEF Reads
<1>13. p[0] = pos[0] /\ d[0] = due[0]
  BY <1>0, <1>6
<1>14. p[Len(r)] = b + c /\ d[Len(r)] = 0
  <2>1. c \in 0..c /\ c - c = 0
    BY <1>0
  <2>. QED
    BY <1>0, <1>6, <2>1
<1>. QED
  BY <1>12, <1>13, <1>14 DEF b, L, InStep

\* One stream behind another
LEMMA Joined ==
  ASSUME NEW a \in Seq(Units), NEW b \in Seq(Units)
  PROVE  /\ Len(a) \in Nat /\ Len(b) \in Nat
         /\ a \o b \in Seq(Units) /\ Len(a \o b) = Len(a) + Len(b)
         /\ \A i \in 1..Len(a) : (a \o b)[i] = a[i]
         /\ \A i \in 1..Len(b) : (a \o b)[Len(a) + i] = b[i]
BY ConcatIndices

\* What one recv takes of a stream, and what it leaves
LEMMA ReceivedFacts ==
  ASSUME NEW q \in Seq(Units), NEW max \in Nat, NEW k \in Received(q, max)
  PROVE  /\ k \in 1..Len(q) /\ k <= max /\ k \in Nat /\ Len(q) \in Nat
         /\ First(q, k) \in Seq(Units) /\ Len(First(q, k)) = k
         /\ \A i \in 1..k : First(q, k)[i] = q[i]
         /\ Rest(q, k) \in Seq(Units) /\ Len(Rest(q, k)) = Len(q) - k
         /\ \A i \in 1..(Len(q) - k) : Rest(q, k)[i] = q[k + i]
<1>1. Len(q) \in Nat
  BY LenProperties
<1>2. k \in 1..Len(q) /\ k <= max /\ k \in Nat /\ k \in 0..Len(q)
  BY <1>1 DEF Received, Min2
<1>3. /\ First(q, k) \in Seq(Units) /\ Len(First(q, k)) = k
      /\ \A i \in 1..k : First(q, k)[i] = q[i]
  BY <1>2, FirstIndices DEF First
<1>4. /\ Rest(q, k) \in Seq(Units) /\ Len(Rest(q, k)) = Len(q) - k
      /\ \A i \in 1..(Len(q) - k) : Rest(q, k)[i] = q[k + i]
  BY <1>2, RestIndices DEF Rest
<1>. QED
  BY <1>1, <1>2, <1>3, <1>4

\* The units of a chunk
LEMMA ChunkFacts ==
  ASSUME NEW j \in Jobs, NEW data \in Seq(Units)
  PROVE  /\ Chunk(j, data) \in Seq(Units)
         /\ Len(data) \in Nat
         /\ Len(data) = 0 => Len(Chunk(j, data)) = 0
         /\ Len(data) > 0 =>
              /\ Len(Chunk(j, data)) = 1 + Len(data)
              /\ Chunk(j, data)[1] = Push(j, Len(data))
              /\ \A i \in 1..Len(data) : Chunk(j, data)[1 + i] = data[i]
<1>1. Len(data) \in Nat /\ (data = <<>> <=> Len(data) = 0)
  BY LenProperties, EmptySeq
<1>2. CASE data = <<>>
  BY <1>1, <1>2, EmptySeq DEF Chunk
<1>3. CASE data # <<>>
  <2>. DEFINE a == <<Push(j, Len(data))>>
  <2>1. a \in Seq(Units) /\ Len(a) = 1 /\ a[1] = Push(j, Len(data))
    <3>1. Push(j, Len(data)) \in Units
      BY <1>1, UnitFacts
    <3>. QED
      BY <3>1
  <2>2. Chunk(j, data) = a \o data
    BY <1>3 DEF Chunk
  <2>. HIDE DEF a
  <2>3. /\ a \o data \in Seq(Units) /\ Len(a \o data) = Len(a) + Len(data)
        /\ \A i \in 1..Len(a) : (a \o data)[i] = a[i]
        /\ \A i \in 1..Len(data) : (a \o data)[Len(a) + i] = data[i]
    BY <2>1, ConcatIndices
  <2>. QED
    BY <1>1, <1>3, <2>1, <2>2, <2>3
<1>. QED
  BY <1>2, <1>3

\* One more chunk, or one more command without data
LEMMA InStepMore ==
  ASSUME NEW j \in Jobs, NEW s \in Seq(Units), NEW t \in Seq(Units),
         NEW n, NEW m, NEW len \in Nat,
         InStep(j, s, n, m, TRUE, len),
         NEW l \in Int, NEW c \in Nat, c = IF l > 0 THEN l ELSE 0,
         len + c <= MaxSize(j), Len(t) = 1 + c, t[1] = Push(j, l),
         \A i \in 1..c : t[1 + i] = Data(j, len + i)
  PROVE  InStep(j, s \o t, n, m, TRUE, len + c)
<1>. DEFINE r == s \o t
<1>1. /\ r \in Seq(Units) /\ Len(s) \in Nat /\ Len(t) \in Nat /\ Len(r) = Len(s) + Len(t)
      /\ \A i \in 1..Len(s) : r[i] = s[i]
      /\ \A i \in 1..Len(t) : r[Len(s) + i] = t[i]
  BY Joined, Zenon
<1>. HIDE DEF r
<1>2. PICK pos, due : /\ Reads(j, s, pos, due) /\ pos[0] = n /\ due[0] = m
                      /\ pos[Len(s)] = len /\ due[Len(s)] = 0
  BY DEF InStep
<1>3. Len(r) = Len(s) + 1 + c
  <2>1. Len(r) = Len(s) + Len(t) /\ Len(t) = 1 + c /\ c \in Nat /\ Len(s) \in Nat
    BY <1>1
  <2>. QED
    BY <2>1
<1>4. r[Len(s) + 1] = Push(j, l)
  BY <1>1
<1>5. ASSUME NEW i \in 1..c PROVE r[Len(s) + 1 + i] = Data(j, len + i)
  <2>1. 1 + i \in 1..Len(t) /\ Len(s) + (1 + i) = Len(s) + 1 + i
    BY <1>1
  <2>. QED
    BY <1>1, <2>1
<1>6. Longer(j, s, r, l, c, len)
  BY <1>1, <1>3, <1>4, <1>5 DEF Longer
<1>7. InStep(j, r, pos[0], due[0], TRUE, len + c)
  BY <1>2, <1>6, ReadsChunk
<1>. QED
  BY <1>2, <1>7 DEF r

\* What a worker sends when it has the size and the first data
LEMMA InStepStart ==
  ASSUME NEW j \in Jobs, NEW data \in Seq(Units), IsDataOf(j, data)
  PROVE  InStep(j, <<Push(j, -1)>> \o Chunk(j, data), 0, 0, TRUE, Len(data))
<1>. DEFINE a == <<Push(j, -1)>>
<1>0. Len(data) \in Nat /\ MaxSize(j) \in Nat
  BY LenProperties, SizeFacts
<1>1. a \in Seq(Units) /\ Len(a) = 1 /\ a[1] = Push(j, -1)
  <2>1. Push(j, -1) \in Units
    BY UnitFacts
  <2>. QED
    BY <2>1
<1>2. InStep(j, <<>>, 0, 0, TRUE, 0)
  <2>1. <<>> \in Seq(Units) /\ Len(<<>>) = 0 /\ 0 \in 0..MaxSize(j) /\ 0 \in 0..0
    BY <1>0, EmptySeq
  <2>2. Reads(j, <<>>, [k \in 0..Len(<<>>) |-> 0], [k \in 0..Len(<<>>) |-> 0])
    BY <2>1, ReadsNothing
  <2>. QED
    BY <2>1, <2>2 DEF InStep
<1>3. InStep(j, a, 0, 0, TRUE, 0)
  <2>. HIDE DEF a
  <2>1. /\ <<>> \in Seq(Units) /\ 0 = (IF -1 > 0 THEN -1 ELSE 0) /\ 0 + 0 <= MaxSize(j)
        /\ Len(a) = 1 + 0 /\ 1..0 = {} /\ -1 \in Int
    BY <1>0, <1>1, EmptySeq
  <2>2. InStep(j, <<>> \o a, 0, 0, TRUE, 0 + 0)
    BY <1>1, <1>2, <2>1, InStepMore
  <2>3. <<>> \o a = a /\ 0 + 0 = 0
    BY <1>1, ConcatEmptySeq
  <2>. QED
    BY <2>2, <2>3, Zenon
<1>. HIDE DEF a
<1>4. CASE Len(data) = 0
  <2>1. Chunk(j, data) = <<>>
    BY <1>4, EmptySeq DEF Chunk
  <2>2. a \o Chunk(j, data) = a
    BY <1>1, <2>1, ConcatEmptySeq
  <2>. QED
    BY <1>3, <1>4, <2>2 DEF a
<1>5. CASE Len(data) > 0
  <2>1. /\ Chunk(j, data) \in Seq(Units) /\ Len(Chunk(j, data)) = 1 + Len(data)
        /\ Chunk(j, data)[1] = Push(j, Len(data))
        /\ \A i \in 1..Len(data) : Chunk(j, data)[1 + i] = data[i]
    BY <1>5, ChunkFacts
  <2>2. \A i \in 1..Len(data) : 0 + i = i /\ Chunk(j, data)[1 + i] = Data(j, 0 + i)
    BY <1>0, <2>1 DEF IsDataOf
  <2>3. Len(data) = (IF Len(data) > 0 THEN Len(data) ELSE 0) /\ 0 + Len(data) <= MaxSize(j)
        /\ 0 + Len(data) = Len(data) /\ Len(data) \in Int
    BY <1>0, <1>5 DEF IsDataOf
  <2>4. InStep(j, a \o Chunk(j, data), 0, 0, TRUE, 0 + Len(data))
    BY <1>0, <1>1, <1>3, <2>1, <2>2, <2>3, InStepMore
  <2>. QED
    BY <2>3, <2>4 DEF a
<1>6. Len(data) = 0 \/ Len(data) > 0
  BY <1>0
<1>. QED
  BY <1>4, <1>5, <1>6

\* The end is lost
LEMMA InStepFirst ==
  ASSUME NEW j \in Jobs, NEW s \in Seq(Units), NEW r \in Seq(Units),
         NEW n, NEW m, NEW all, NEW len, InStep(j, s, n, m, all, len),
         Len(r) <= Len(s), \A i \in 1..Len(r) : r[i] = s[i], NEW l
  PROVE  InStep(j, r, n, m, FALSE, l)
<1>1. PICK pos, due : Reads(j, s, pos, due) /\ pos[0] = n /\ due[0] = m
  BY DEF InStep
<1>2. PICK p, d : Reads(j, r, p, d) /\ p[0] = pos[0] /\ d[0] = due[0]
  BY <1>1, ReadsFirst
<1>. QED
  BY <1>1, <1>2 DEF InStep
-----------------------------------------------------------------------------
(***************************************************************************)
(* IInv is inductive: the initial states, and what a step that leaves one  *)
(* side of a transfer alone keeps of it.                                   *)
(***************************************************************************)
\* What is pending, index by index
LEMMA PendingFacts ==
  ASSUME TypeOK, NEW j \in Jobs
  PROVE  /\ up[TgtConn(j)] \in Seq(Units) /\ out[j] \in Seq(Units)
         /\ Len(up[TgtConn(j)]) \in Nat /\ Len(out[j]) \in Nat
         /\ Pending(j) \in Seq(Units)
         /\ Len(Pending(j)) = Len(up[TgtConn(j)]) + Len(out[j])
         /\ \A i \in 1..Len(up[TgtConn(j)]) : Pending(j)[i] = up[TgtConn(j)][i]
         /\ \A i \in 1..Len(out[j]) : Pending(j)[Len(up[TgtConn(j)]) + i] = out[j][i]
<1>1. up[TgtConn(j)] \in Seq(Units) /\ out[j] \in Seq(Units)
  BY ConnFacts DEF TypeOK
<1>. QED
  BY <1>1, Joined, Zenon DEF Pending

\* Before any worker has started
LEMMA InitIInv == Init => IInv
<1>. SUFFICES ASSUME Init PROVE IInv
  OBVIOUS
<1>0. \A S : <<>> \in Seq(S)
  BY EmptySeq
<1>1. Len(<<>>) = 0
  BY EmptySeq
<1>2. TypeOK
  <2>1. \A c \in Conns : Len(up[c]) <= SockBuf /\ Len(down[c]) <= SockBuf
    BY <1>1, TransferAssumption DEF Init
  <2>2. stored \in [Jobs -> Seq(Units)]
    BY SizeFacts DEF Init
  <2>3. /\ up \in [Conns -> Seq(Units)] /\ down \in [Conns -> Seq(Units)]
        /\ out \in [Jobs -> Seq(Units)] /\ relayed \in [Jobs -> Seq(Units)]
        /\ backlog \in [Clients -> Seq(Conns)] /\ reply \in [Clients -> Seq(Units)]
    BY <1>0 DEF Init
  <2>. QED
    BY <2>1, <2>2, <2>3 DEF Init, TypeOK
<1>3. Sessions
  BY <1>1 DEF Init, Sessions
<1>4. Closing /\ Results
  BY DEF Init, Closing, Results, ResultOf, Ended
<1>5. \A j \in Jobs : up[SrcConn(j)] = <<>> /\ down[SrcConn(j)] = <<>> /\ up[TgtConn(j)] = <<>>
  BY ConnFacts DEF Init
<1>6. \A j \in Jobs : serving[Target[j]] = None /\ serving[Source[j]] = None
  BY ConnFacts DEF Init
<1>7. ASSUME NEW j \in Jobs PROVE Requests(j) /\ Answers(j)
  BY <1>5, <1>6, ConnFacts DEF Init, Requests, Answers, Early
<1>8. ASSUME NEW j \in Jobs PROVE Relayed(j)
  <2>1. Len(relayed[j]) = 0 /\ total_transferred[j] = 0 /\ MaxSize(j) \in Nat
    BY <1>1, SizeFacts DEF Init
  <2>. QED
    BY <2>1 DEF Relayed, IsDataOf
<1>9. ASSUME NEW j \in Jobs
      PROVE  /\ Len(Pending(j)) = 0 /\ wpc[j] = "connect_source"
             /\ ~AtOpen(j) /\ ~Opened(j) /\ ~Intact(j)
  <2>1. Len(up[TgtConn(j)]) = 0 /\ Len(out[j]) = 0 /\ wpc[j] = "connect_source"
    BY <1>1, <1>5 DEF Init
  <2>2. Len(Pending(j)) = Len(up[TgtConn(j)]) + Len(out[j])
    BY <1>2, PendingFacts
  <2>. QED
    BY <2>1, <2>2 DEF AtOpen, Opened, Intact
<1>10. ASSUME NEW j \in Jobs
       PROVE  Commands(j) /\ Untouched(j) /\ Writing(j) /\ Frames(j) /\ Stored(j)
  <2>1. Commands(j)
    <3>1. 1..0 = {} /\ 2..0 = {}
      OBVIOUS
    <3>. QED
      BY <1>9, <3>1 DEF Commands
  <2>2. Untouched(j)
    BY <1>9 DEF Init, Untouched
  <2>3. Writing(j)
    BY <1>6, <1>9, ConnFacts DEF Writing
  <2>4. Frames(j) /\ Stored(j)
    BY <1>9 DEF Init, Frames, Stored
  <2>. QED
    BY <2>1, <2>2, <2>3, <2>4
<1>. QED
  BY <1>2, <1>3, <1>4, <1>7, <1>8, <1>10 DEF IInv, SourceInv, TargetInv

\* What is so for all jobs is so for one, now and after a step
LEMMA InvOf ==
  ASSUME NEW j \in Jobs
  PROVE  /\ SourceInv => Requests(j) /\ Answers(j) /\ Relayed(j)
         /\ TargetInv => Commands(j) /\ Untouched(j) /\ Writing(j) /\ Frames(j) /\ Stored(j)
BY DEF SourceInv, TargetInv

\* A step that leaves the answer to the PULL of a job alone
LEMMA SourceFrame ==
  ASSUME SourceInv, NEW j \in Jobs,
         down'[SrcConn(j)] = down[SrcConn(j)], relayed'[j] = relayed[j],
         total_transferred'[j] = total_transferred[j], up'[SrcConn(j)] = up[SrcConn(j)],
         wpc'[j] \in {"header", "relay"} => wpc'[j] = wpc[j],
         wpc'[j] \in Early => wpc[j] \in Early,
         wpc'[j] = "eof" => wpc[j] \in {"relay", "eof"},
         serving'[Source[j]] = SrcConn(j) =>
           \/ reply'[Source[j]] = <<>>
           \/ /\ serving[Source[j]] = SrcConn(j)
              /\ \/ reply'[Source[j]] = reply[Source[j]]
                 \/ reply[Source[j]] # <<>> /\ wpc'[j] \in Ended
  PROVE  Requests(j)' /\ Answers(j)' /\ Relayed(j)'
<1>. USE InvOf
<1>1. Requests(j)'
  BY DEF Requests, Early, Ended, SrcConn, Pull, Unit
<1>2. Answers(j)'
  <2>. SUFFICES ASSUME wpc'[j] \in {"header", "relay"}
                PROVE  /\ \A i \in 1..Len(down'[SrcConn(j)]) :
                            AnswerUnit(j, Taken(j)' + i, down'[SrcConn(j)][i])
                       /\ serving'[Source[j]] = SrcConn(j) =>
                            \A i \in 1..Len(reply'[Source[j]]) :
                              AnswerUnit(j, Taken(j)' + Len(down'[SrcConn(j)]) + i,
                                         reply'[Source[j]][i])
    BY DEF Answers, AnswerUnit, SrcConn, Header, Data, Unit, MaxSize
  <2>1. wpc[j] \in {"header", "relay"} /\ Taken(j)' = Taken(j) /\ wpc'[j] \notin Ended
    BY DEF Taken, Ended
  <2>2. CASE reply'[Source[j]] = <<>>
    BY <2>1, <2>2, EmptySeq DEF Answers
  <2>3. CASE reply'[Source[j]] # <<>>
    BY <2>1, <2>3 DEF Answers
  <2>. QED
    BY <2>2, <2>3
<1>3. Relayed(j)'
  BY DEF Relayed, IsDataOf, MaxSize, Data, Unit
<1>. QED
  BY <1>1, <1>2, <1>3

\* A file that is in order stays so while nobody writes it
LEMMA KeptFrame ==
  ASSUME NEW j \in Jobs, stored'[j] = stored[j], harm \subseteq harm'
  PROVE  Kept(j) => Kept(j)'
<1>1. InOrder(j, stored[j]) => InOrder(j, stored[j])'
  BY DEF InOrder, MaxSize, Data, Unit
<1>2. IsDataOf(j, stored[j]) => IsDataOf(j, stored[j])'
  BY DEF IsDataOf, MaxSize, Data, Unit
<1>. QED
  BY <1>1, <1>2 DEF Kept

\* The results of a step that reports nothing new
LEMMA ResultsFrame ==
  ASSUME Results, harm \subseteq harm', alive' \subseteq alive, NEW j \in Jobs,
         result'[j] = result[j], file_size'[j] = file_size[j],
         total_transferred'[j] = total_transferred[j],
         wpc'[j] = "done" <=> wpc[j] = "done",
         wpc'[j] \in {"relay", "eof"} => wpc'[j] = wpc[j],
         out'[j] # <<>> => wpc'[j] \in {"relay", "eof"}
  PROVE  ResultOf(j)'
BY DEF Results, ResultOf

\* ... of any job
LEMMA ResultsKept ==
  ASSUME Results, harm \subseteq harm', alive' \subseteq alive,
         UNCHANGED <<wpc, file_size, total_transferred, out, result>>
  PROVE  Results'
<1>1. ASSUME NEW j \in Jobs PROVE ResultOf(j)'
  <2>1. out'[j] # <<>> => wpc'[j] \in {"relay", "eof"}
    BY DEF Results, ResultOf
  <2>. QED
    BY <2>1, ResultsFrame
<1>. QED
  BY <1>1 DEF Results

\* A step of a worker that leaves what is pending for a job alone
LEMMA WorkerFrame ==
  ASSUME TargetInv, NEW j \in Jobs,
         UNCHANGED <<alive, serving, hpc, need, current_fd, stored>>, harm \subseteq harm',
         \/ up'[TgtConn(j)] = up[TgtConn(j)] /\ out'[j] = out[j]
         \/ Pending(j)' = Pending(j),
         wpc'[j] \in {"relay", "eof"} => wpc[j] \in {"relay", "eof"},
         wpc'[j] = "relay" => wpc[j] = "relay" /\ relayed'[j] = relayed[j],
         wpc'[j] \in Early \cup {"header"} \/ result'[j] = "err" =>
           wpc[j] \in Early \cup {"header"} \/ result[j] = "err",
         wpc[j] \in {"relay", "eof"} \cup Ended /\ result[j] # "err" =>
           wpc'[j] \in {"relay", "eof"} \cup Ended /\ result'[j] # "err"
  PROVE  Commands(j)' /\ Untouched(j)' /\ Writing(j)' /\ Frames(j)' /\ Stored(j)'
<1>. USE InvOf
<1>1. Pending(j)' = Pending(j) /\ AtOpen(j)' = AtOpen(j) /\ (Opened(j)' => Opened(j))
  <2>1. Pending(j)' = Pending(j)
    BY DEF Pending, TgtConn
  <2>. QED
    BY <2>1 DEF AtOpen, Opened, Push, Unit
<1>2. Commands(j)'
  BY <1>1 DEF Commands, Push, Unit
<1>3. Untouched(j)'
  BY <1>1 DEF Untouched, Old, Data, Unit
<1>4. Writing(j)'
  BY <1>1 DEF Writing, TgtConn, SrcConn
<1>5. (Intact(j)' => Intact(j)) /\ Written(j)' = Written(j) /\ Due(j)' = Due(j)
  BY <1>1 DEF Intact, Written, Due, Pushing, TgtConn
<1>6. Frames(j)'
  <2>. SUFFICES ASSUME <<"spoilt", j>> \notin harm', Intact(j)'
                PROVE  \E n, m : /\ Place(j, n, m)'
                                 /\ InStep(j, Pending(j)', n, m, wpc'[j] = "relay",
                                           Len(relayed'[j]))
    BY DEF Frames, InStep, Reads, Data, Push, Unit, MaxSize
  <2>1. PICK n, m : /\ Place(j, n, m)
                    /\ InStep(j, Pending(j), n, m, wpc[j] = "relay", Len(relayed[j]))
    BY <1>5 DEF Frames
  <2>2. Place(j, n, m)'
    BY <1>1, <1>5, <2>1 DEF Place, Pushing, TgtConn
  <2>3. InStep(j, Pending(j)', n, m, wpc'[j] = "relay", Len(relayed'[j]))
    BY <1>1, <2>1 DEF InStep
  <2>. QED
    BY <2>2, <2>3
<1>7. Stored(j)'
  BY <1>1, <1>5, KeptFrame DEF Stored, Old, Data, Unit
<1>. QED
  BY <1>2, <1>3, <1>4, <1>6, <1>7

\* A step of a client that reads nothing of a job's file
LEMMA ClientFrame ==
  ASSUME TargetInv, NEW j \in Jobs,
         wpc'[j] = wpc[j], result'[j] = result[j], relayed'[j] = relayed[j],
         out'[j] = out[j], stored'[j] = stored[j], up'[TgtConn(j)] = up[TgtConn(j)],
         alive' \subseteq alive, harm \subseteq harm',
         Opened(j) /\ Target[j] \in alive' =>
           /\ serving'[Target[j]] = serving[Target[j]]
           /\ need'[Target[j]] = need[Target[j]]
           /\ current_fd'[Target[j]] = current_fd[Target[j]]
           /\ hpc'[Target[j]] = "pushing" <=> hpc[Target[j]] = "pushing",
         serving'[Target[j]] = TgtConn(j) /\ hpc'[Target[j]] = "pushing" =>
           /\ serving[Target[j]] = TgtConn(j) /\ hpc[Target[j]] = "pushing"
           /\ current_fd'[Target[j]] = current_fd[Target[j]],
         serving'[Target[j]] = TgtConn(j) /\ hpc'[Target[j]] = "pulling" =>
           serving[Target[j]] = TgtConn(j) /\ hpc[Target[j]] = "pulling",
         serving'[Source[j]] = SrcConn(j) /\ hpc'[Source[j]] = "pushing" =>
           serving[Source[j]] = SrcConn(j) /\ hpc[Source[j]] = "pushing"
  PROVE  Commands(j)' /\ Untouched(j)' /\ Writing(j)' /\ Frames(j)' /\ Stored(j)'
<1>. USE InvOf
<1>1. Pending(j)' = Pending(j) /\ AtOpen(j)' = AtOpen(j) /\ Opened(j)' = Opened(j)
  <2>1. Pending(j)' = Pending(j)
    BY DEF Pending, TgtConn
  <2>. QED
    BY <2>1 DEF AtOpen, Opened, Push, Unit
<1>2. Commands(j)'
  BY <1>1 DEF Commands, Push, Unit
<1>3. Untouched(j)'
  BY <1>1 DEF Untouched, Old, Data, Unit
<1>4. Writing(j)'
  BY <1>1 DEF Writing, TgtConn, SrcConn
<1>5. /\ Intact(j)' => Intact(j)
      /\ Written(j)' = Written(j)
      /\ Intact(j)' => Due(j)' = Due(j)
  <2>1. (Intact(j)' => Intact(j)) /\ Written(j)' = Written(j)
    BY <1>1 DEF Intact, Written
  <2>2. ASSUME Intact(j)' PROVE Due(j)' = Due(j)
    <3>1. CASE AtOpen(j)
      <4>1. ~(serving[Target[j]] = TgtConn(j) /\ hpc[Target[j]] = "pushing")
        BY <3>1 DEF Writing
      <4>. QED
        BY <4>1 DEF Due, Pushing, TgtConn
    <3>2. CASE Opened(j)
      <4>1. Target[j] \in alive'
        BY <2>2 DEF Intact
      <4>. QED
        BY <3>2, <4>1 DEF Due, Pushing, TgtConn
    <3>. QED
      BY <1>1, <2>2, <3>1, <3>2 DEF Intact
  <2>. QED
    BY <2>1, <2>2
<1>6. Frames(j)'
  <2>. SUFFICES ASSUME <<"spoilt", j>> \notin harm', Intact(j)'
                PROVE  \E n, m : /\ Place(j, n, m)'
                                 /\ InStep(j, Pending(j)', n, m, wpc'[j] = "relay",
                                           Len(relayed'[j]))
    BY DEF Frames, InStep, Reads, Data, Push, Unit, MaxSize
  <2>1. PICK n, m : /\ Place(j, n, m)
                    /\ InStep(j, Pending(j), n, m, wpc[j] = "relay", Len(relayed[j]))
    BY <1>5 DEF Frames
  <2>2. Place(j, n, m)'
    BY <1>1, <1>5, <2>1 DEF Place, Pushing, TgtConn
  <2>3. InStep(j, Pending(j)', n, m, wpc'[j] = "relay", Len(relayed'[j]))
    BY <1>1, <2>1 DEF InStep
  <2>. QED
    BY <2>2, <2>3
<1>7. Stored(j)'
  BY <1>1, <1>5, KeptFrame DEF Stored, Old, Data, Unit
<1>. QED
  BY <1>2, <1>3, <1>4, <1>6, <1>7
-----------------------------------------------------------------------------
(***************************************************************************)
(* The steps of a worker.                                                  *)
(***************************************************************************)
\* connect succeeds
LEMMA ConnectIInv ==
  ASSUME IInv, NEW j \in Jobs, NEW conn \in Conns, NEW pc \in Early,
         wpc[j] \in Early, Connect(j, conn, pc),
         UNCHANGED <<file_size, total_transferred, out, relayed, up, down,
                     sclosed, alive, cvars>>
  PROVE  IInv'
<1>. USE DEF cvars, disk
<1>1. /\ wpc' = [wpc EXCEPT ![j] = pc] /\ result' = result /\ wclosed' = wclosed
      /\ backlog' = [backlog EXCEPT ![Server(conn)] = Append(@, conn)]
  BY DEF Connect, Goto
<1>2. Server(conn) \in Clients
  BY ConnFacts
<1>3. /\ Append(backlog[Server(conn)], conn) \in Seq(Conns)
      /\ Len(Append(backlog[Server(conn)], conn)) = Len(backlog[Server(conn)]) + 1
      /\ Len(backlog[Server(conn)]) \in Nat
      /\ \A i \in 1..Len(backlog[Server(conn)]) :
           Append(backlog[Server(conn)], conn)[i] = backlog[Server(conn)][i]
      /\ Append(backlog[Server(conn)], conn)[Len(backlog[Server(conn)]) + 1] = conn
  BY <1>2, AppendIndices DEF IInv, TypeOK
<1>4. TypeOK'
  BY <1>1, <1>2, <1>3 DEF IInv, TypeOK, Early
<1>5. Sessions'
  <2>1. ASSUME NEW cl \in Clients, NEW i \in 1..Len(backlog'[cl])
        PROVE  Server(backlog'[cl][i]) = cl
    <3>1. CASE cl # Server(conn)
      BY <1>1, <3>1 DEF IInv, TypeOK, Sessions
    <3>2. CASE cl = Server(conn)
      <4>1. backlog'[cl] = Append(backlog[Server(conn)], conn)
        BY <1>1, <1>2, <3>2 DEF IInv, TypeOK
      <4>2. i \in 1..Len(backlog[cl]) \/ i = Len(backlog[cl]) + 1
        BY <1>3, <3>2, <4>1
      <4>. QED
        BY <1>3, <3>2, <4>1, <4>2 DEF IInv, Sessions
    <3>. QED
      BY <3>1, <3>2
  <2>. QED
    BY <2>1 DEF IInv, Sessions, Server
<1>6. Closing'
  BY <1>1 DEF IInv, TypeOK, Closing, Ended, Early, SrcConn, TgtConn
<1>7. Results'
  BY <1>1 DEF IInv, TypeOK, Results, ResultOf, Early
<1>8. \A i \in Jobs : wpc'[i] = wpc[i] \/ (wpc[i] \in Early /\ wpc'[i] \in Early)
  BY <1>1 DEF IInv, TypeOK
<1>9. SourceInv'
  <2>1. ASSUME NEW i \in Jobs PROVE Requests(i)' /\ Answers(i)' /\ Relayed(i)'
    BY <1>8, SourceFrame DEF IInv, Early
  <2>. QED
    BY <2>1 DEF SourceInv
<1>10. TargetInv'
  <2>1. ASSUME NEW i \in Jobs
        PROVE  Commands(i)' /\ Untouched(i)' /\ Writing(i)' /\ Frames(i)' /\ Stored(i)'
    BY <1>1, <1>8, WorkerFrame DEF IInv, Early, Ended
  <2>. QED
    BY <2>1 DEF TargetInv
<1>. QED
  BY <1>4, <1>5, <1>6, <1>7, <1>9, <1>10 DEF IInv

\* sync_single_file gives up before it has sent anything to the target
LEMMA GiveUpIInv ==
  ASSUME IInv, NEW j \in Jobs, NEW conns \in SUBSET {SrcConn(j), TgtConn(j)},
         wpc[j] \in Early \cup {"header"}, Return(j, "err", conns),
         down' \in [Conns -> Seq(Units)],
         \A c \in Conns : c # SrcConn(j) => down'[c] = down[c],
         Len(down'[SrcConn(j)]) <= SockBuf,
         down[SrcConn(j)] = <<>> => down'[SrcConn(j)] = <<>>,
         UNCHANGED <<file_size, total_transferred, out, relayed, up, sclosed,
                     alive, backlog, cvars>>
  PROVE  IInv'
<1>. USE DEF cvars, disk
<1>1. /\ wpc' = [wpc EXCEPT ![j] = "done"] /\ result' = [result EXCEPT ![j] = "err"]
      /\ wclosed' = wclosed \cup conns
  BY DEF Return, Goto
<1>2. /\ \A i \in Jobs : wpc'[i] = IF i = j THEN "done" ELSE wpc[i]
      /\ \A i \in Jobs : result'[i] = IF i = j THEN "err" ELSE result[i]
  BY <1>1 DEF IInv, TypeOK
<1>3. TypeOK'
  <2>1. \A c \in Conns : Len(up'[c]) <= SockBuf /\ Len(down'[c]) <= SockBuf
    BY DEF IInv, TypeOK
  <2>2. wclosed' \subseteq Conns
    <3>1. wclosed \subseteq Conns
      BY DEF IInv, TypeOK
    <3>2. SrcConn(j) \in Conns /\ TgtConn(j) \in Conns
      BY ConnFacts
    <3>. QED
      BY <1>1, <3>1, <3>2
  <2>3. wpc' \in [Jobs -> {"connect_source", "connect_target", "pull", "header",
                           "relay", "eof", "done", "killed"}]
        /\ result' \in [Jobs -> {"none", "ok", "err"}]
    BY <1>1 DEF IInv, TypeOK
  <2>. QED
    BY <2>1, <2>2, <2>3 DEF IInv, TypeOK, Conns, Units
<1>4. Sessions'
  BY DEF IInv, Sessions, Server
<1>5. Closing'
  <2>1. \A i \in Jobs : i # j => SrcConn(i) \notin conns /\ TgtConn(i) \notin conns
    BY ConnFacts
  <2>. QED
    BY <1>1, <1>2, <2>1 DEF IInv, Closing, Ended, SrcConn, TgtConn
<1>6. Results'
  BY <1>2 DEF IInv, Results, ResultOf, Early
<1>7. SourceInv'
  <2>1. ASSUME NEW i \in Jobs, i # j PROVE Requests(i)' /\ Answers(i)' /\ Relayed(i)'
    <3>1. down'[SrcConn(i)] = down[SrcConn(i)]
      BY <2>1, ConnFacts
    <3>. QED
      BY <1>2, <2>1, <3>1, SourceFrame DEF IInv
  <2>2. Requests(j)'
    BY <1>2, InvOf DEF IInv, Requests, Early, SrcConn, Pull, Unit
  <2>3. Answers(j)' /\ Relayed(j)'
    BY <1>2, InvOf DEF IInv, Answers, Relayed, IsDataOf, MaxSize, Data, Unit
  <2>. QED
    BY <2>1, <2>2, <2>3 DEF SourceInv
<1>8. TargetInv'
  <2>1. ASSUME NEW i \in Jobs
        PROVE  Commands(i)' /\ Untouched(i)' /\ Writing(i)' /\ Frames(i)' /\ Stored(i)'
    BY <1>2, WorkerFrame DEF IInv, Early, Ended
  <2>. QED
    BY <2>1 DEF TargetInv
<1>. QED
  BY <1>3, <1>4, <1>5, <1>6, <1>7, <1>8 DEF IInv

\* ConnectSource and ConnectTarget
LEMMA DialIInv ==
  ASSUME IInv, NEW j \in Jobs, ConnectSource(j) \/ ConnectTarget(j)
  PROVE  IInv'
<1>0. /\ SrcConn(j) \in Conns /\ TgtConn(j) \in Conns
      /\ "connect_source" \in Early /\ "connect_target" \in Early /\ "pull" \in Early
      /\ {} \subseteq {SrcConn(j), TgtConn(j)} /\ {SrcConn(j)} \subseteq {SrcConn(j), TgtConn(j)}
      /\ down \in [Conns -> Seq(Units)] /\ Len(down[SrcConn(j)]) <= SockBuf
  BY ConnFacts DEF Early, IInv, TypeOK
<1>1. CASE ConnectSource(j)
  <2>1. CASE Connect(j, SrcConn(j), "connect_target")
    BY <1>0, <1>1, <2>1, ConnectIInv DEF ConnectSource
  <2>2. CASE ConnectFails(j, SrcConn(j), {})
    BY <1>0, <1>1, <2>2, GiveUpIInv DEF ConnectSource, ConnectFails
  <2>. QED
    BY <1>1, <2>1, <2>2 DEF ConnectSource
<1>2. CASE ConnectTarget(j)
  <2>1. CASE Connect(j, TgtConn(j), "pull")
    BY <1>0, <1>2, <2>1, ConnectIInv DEF ConnectTarget
  <2>2. CASE ConnectFails(j, TgtConn(j), {SrcConn(j)})
    BY <1>0, <1>2, <2>2, GiveUpIInv DEF ConnectTarget, ConnectFails
  <2>. QED
    BY <1>2, <2>1, <2>2 DEF ConnectTarget
<1>. QED
  BY <1>1, <1>2

\* SendPull
LEMMA SendPullIInv ==
  ASSUME IInv, NEW j \in Jobs, SendPull(j)
  PROVE  IInv'
<1>. USE DEF cvars, disk
<1>1. /\ wpc[j] = "pull" /\ wpc' = [wpc EXCEPT ![j] = "header"]
      /\ up' = [up EXCEPT ![SrcConn(j)] = Append(@, Pull(j))]
      /\ UNCHANGED <<file_size, total_transferred, out, result, relayed, down,
                     wclosed, sclosed, alive, backlog, cvars>>
  BY DEF SendPull, Goto
<1>2. /\ SrcConn(j) \in Conns /\ Pull(j) \in Units /\ up[SrcConn(j)] = <<>>
      /\ down[SrcConn(j)] = <<>>
      /\ serving[Source[j]] = SrcConn(j) => reply[Source[j]] = <<>>
  BY <1>1, ConnFacts, UnitFacts, InvOf DEF IInv, Requests, Early
<1>3. /\ up'[SrcConn(j)] = <<Pull(j)>>
      /\ \A c \in Conns : c # SrcConn(j) => up'[c] = up[c]
      /\ up' \in [Conns -> Seq(Units)]
  <2>1. Append(<<>>, Pull(j)) = <<Pull(j)>> /\ <<Pull(j)>> \in Seq(Units)
    BY <1>2
  <2>. QED
    BY <1>1, <1>2, <2>1 DEF IInv, TypeOK
<1>4. \A i \in Jobs : wpc'[i] = IF i = j THEN "header" ELSE wpc[i]
  BY <1>1 DEF IInv, TypeOK
<1>5. TypeOK'
  <2>1. Len(up'[SrcConn(j)]) <= SockBuf
    BY <1>3, TransferAssumption
  <2>2. \A c \in Conns : Len(up'[c]) <= SockBuf /\ Len(down'[c]) <= SockBuf
    BY <1>1, <1>3, <2>1 DEF IInv, TypeOK
  <2>. QED
    BY <1>1, <1>3, <2>2 DEF IInv, TypeOK, Conns, Units
<1>6. Sessions'
  BY <1>1 DEF IInv, Sessions, Server
<1>7. Closing'
  BY <1>1, <1>4 DEF IInv, Closing, Ended, SrcConn, TgtConn
<1>8. Results'
  <2>1. ASSUME NEW i \in Jobs PROVE ResultOf(i)'
    BY <1>1, <1>4, ResultsFrame DEF IInv, Results, ResultOf
  <2>. QED
    BY <2>1 DEF Results
<1>9. SourceInv'
  <2>1. ASSUME NEW i \in Jobs, i # j PROVE Requests(i)' /\ Answers(i)' /\ Relayed(i)'
    <3>1. up'[SrcConn(i)] = up[SrcConn(i)]
      BY <1>3, <2>1, ConnFacts
    <3>. QED
      BY <1>1, <1>4, <2>1, <3>1, SourceFrame DEF IInv
  <2>2. Requests(j)'
    BY <1>1, <1>2, <1>3, <1>4 DEF Requests, Early, SrcConn, Pull, Unit
  <2>3. Answers(j)'
    BY <1>1, <1>2, EmptySeq DEF Answers, SrcConn
  <2>4. Relayed(j)'
    BY <1>1, InvOf DEF IInv, Relayed, IsDataOf, MaxSize, Data, Unit
  <2>. QED
    BY <2>1, <2>2, <2>3, <2>4 DEF SourceInv
<1>10. TargetInv'
  <2>1. ASSUME NEW i \in Jobs
        PROVE  Commands(i)' /\ Untouched(i)' /\ Writing(i)' /\ Frames(i)' /\ Stored(i)'
    <3>1. up'[TgtConn(i)] = up[TgtConn(i)]
      BY <1>3, ConnFacts
    <3>. QED
      BY <1>1, <1>4, <3>1, WorkerFrame DEF IInv, Early, Ended
  <2>. QED
    BY <2>1 DEF TargetInv
<1>. QED
  BY <1>5, <1>6, <1>7, <1>8, <1>9, <1>10 DEF IInv

\* SendPullFails and RecvNoHeader
LEMMA NoAnswerIInv ==
  ASSUME IInv, NEW j \in Jobs, SendPullFails(j) \/ RecvNoHeader(j)
  PROVE  IInv'
<1>1. /\ wpc[j] \in Early \cup {"header"}
      /\ Return(j, "err", {SrcConn(j), TgtConn(j)})
      /\ UNCHANGED <<file_size, total_transferred, out, relayed, up, down,
                     sclosed, alive, backlog, cvars>>
  BY DEF SendPullFails, RecvNoHeader, Early
<1>2. down \in [Conns -> Seq(Units)] /\ Len(down[SrcConn(j)]) <= SockBuf
  BY ConnFacts DEF IInv, TypeOK
<1>. QED
  BY <1>1, <1>2, GiveUpIInv

\* SyncReturns
LEMMA SyncReturnsIInv ==
  ASSUME IInv, NEW j \in Jobs, SyncReturns(j)
  PROVE  IInv'
<1>. USE DEF cvars, disk
<1>1. /\ wpc[j] = "eof" /\ out[j] = <<>>
      /\ wpc' = [wpc EXCEPT ![j] = "done"] /\ result' = [result EXCEPT ![j] = "ok"]
      /\ wclosed' = wclosed \cup {SrcConn(j), TgtConn(j)}
      /\ UNCHANGED <<file_size, total_transferred, out, relayed, up, down,
                     sclosed, alive, backlog, cvars>>
  BY DEF SyncReturns, Return, Goto
<1>2. /\ \A i \in Jobs : wpc'[i] = IF i = j THEN "done" ELSE wpc[i]
      /\ \A i \in Jobs : result'[i] = IF i = j THEN "ok" ELSE result[i]
  BY <1>1 DEF IInv, TypeOK
<1>3. TypeOK'
  <2>1. wclosed' \subseteq Conns
    BY <1>1, ConnFacts DEF IInv, TypeOK
  <2>. QED
    BY <1>1, <2>1 DEF IInv, TypeOK, Conns, Units
<1>4. Sessions'
  BY <1>1 DEF IInv, Sessions, Server
<1>5. Closing'
  BY <1>1, <1>2, ConnFacts DEF IInv, Closing, Ended
<1>6. Results'
  <2>1. ASSUME NEW i \in Jobs PROVE ResultOf(i)'
    BY <1>1, <1>2 DEF IInv, Results, ResultOf
  <2>. QED
    BY <2>1 DEF Results
<1>7. SourceInv'
  <2>1. ASSUME NEW i \in Jobs PROVE Requests(i)' /\ Answers(i)' /\ Relayed(i)'
    BY <1>1, <1>2, SourceFrame DEF IInv, Early
  <2>. QED
    BY <2>1 DEF SourceInv
<1>8. TargetInv'
  <2>1. ASSUME NEW i \in Jobs
        PROVE  Commands(i)' /\ Untouched(i)' /\ Writing(i)' /\ Frames(i)' /\ Stored(i)'
    BY <1>1, <1>2, WorkerFrame DEF IInv, Early, Ended
  <2>. QED
    BY <2>1 DEF TargetInv
<1>. QED
  BY <1>3, <1>4, <1>5, <1>6, <1>7, <1>8 DEF IInv

\* The first recv has brought the size and perhaps data
LEMMA HeaderIInv ==
  ASSUME IInv, NEW j \in Jobs, wpc[j] = "header",
         NEW k \in Received(down[SrcConn(j)], BufSize),
         NEW data, data = AfterHeader(First(down[SrcConn(j)], k)),
         ~(First(down[SrcConn(j)], k)[1].n < 0),
         down' = [down EXCEPT ![SrcConn(j)] = Rest(@, k)],
         file_size' = [file_size EXCEPT ![j] = First(down[SrcConn(j)], k)[1].n],
         total_transferred' = [total_transferred EXCEPT ![j] = Len(data)],
         out' = [out EXCEPT ![j] = <<Push(j, -1)>> \o Chunk(j, data)],
         relayed' = [relayed EXCEPT ![j] = data],
         wpc' = [wpc EXCEPT ![j] = "relay"],
         UNCHANGED <<result, wclosed, up, sclosed, alive, backlog, cvars>>
  PROVE  IInv'
<1>. USE DEF cvars, disk
<1>. DEFINE q == down[SrcConn(j)]
            c == Chunk(j, data)
            a == <<Push(j, -1)>>
<1>1. SrcConn(j) \in Conns /\ q \in Seq(Units) /\ Len(q) <= SockBuf /\ BufSize \in Nat
      /\ SockBuf \in Nat
  BY ConnFacts, TransferAssumption DEF IInv, TypeOK
<1>2. /\ k \in 1..Len(q) /\ k \in Nat /\ Len(q) \in Nat
      /\ First(q, k) \in Seq(Units) /\ Len(First(q, k)) = k
      /\ \A i \in 1..k : First(q, k)[i] = q[i]
      /\ Rest(q, k) \in Seq(Units) /\ Len(Rest(q, k)) = Len(q) - k
      /\ \A i \in 1..(Len(q) - k) : Rest(q, k)[i] = q[k + i]
  BY <1>1, ReceivedFacts
<1>3. Taken(j) = 0 /\ \A i \in 1..Len(q) : AnswerUnit(j, i, q[i])
  <2>1. Taken(j) = 0 /\ \A i \in 1..Len(q) : AnswerUnit(j, Taken(j) + i, q[i])
    BY InvOf DEF IInv, Answers, Taken
  <2>2. \A i \in 1..Len(q) : 0 + i = i
    BY <1>2
  <2>. QED
    BY <2>1, <2>2
<1>4. First(q, k)[1].n = Size[j] /\ Size[j] \in Nat /\ MaxSize(j) \in Nat
  <2>1. 1 \in 1..k /\ 1 \in 1..Len(q)
    BY <1>2
  <2>2. First(q, k)[1] \in {Header(j, Size[j]), Header(j, -1)}
    BY <1>2, <1>3, <2>1 DEF AnswerUnit
  <2>. QED
    BY <2>2, UnitFacts, SizeFacts
<1>5. /\ data \in Seq(Units) /\ Len(data) = k - 1
      /\ \A i \in 1..(k - 1) : data[i] = q[1 + i]
  <2>1. 1 \in 0..Len(First(q, k))
    BY <1>2
  <2>2. /\ data \in Seq(Units) /\ Len(data) = Len(First(q, k)) - 1
        /\ \A i \in 1..(Len(First(q, k)) - 1) : data[i] = First(q, k)[1 + i]
    BY <1>2, <2>1, RestIndices DEF AfterHeader, Rest
  <2>3. \A i \in 1..(k - 1) : 1 + i \in 1..k
    BY <1>2
  <2>. QED
    BY <1>2, <2>2, <2>3
<1>6. IsDataOf(j, data)
  <2>1. ASSUME NEW i \in 1..(k - 1) PROVE i <= MaxSize(j) /\ data[i] = Data(j, i)
    <3>1. 1 + i \in 1..Len(q) /\ 1 + i # 1 /\ (1 + i) - 1 = i
      BY <1>2
    <3>2. AnswerUnit(j, 1 + i, q[1 + i])
      BY <1>3, <3>1
    <3>. QED
      BY <1>5, <3>1, <3>2 DEF AnswerUnit
  <2>2. k - 1 = 0 \/ k - 1 \in 1..(k - 1)
    BY <1>2
  <2>3. k - 1 <= MaxSize(j)
    BY <1>4, <2>1, <2>2
  <2>. QED
    BY <1>5, <2>1, <2>3 DEF IsDataOf
<1>7. /\ c \in Seq(Units) /\ a \in Seq(Units) /\ a \o c \in Seq(Units)
      /\ Len(c) \in Nat /\ Len(a \o c) = 1 + Len(c)
      /\ (a \o c)[1] = Push(j, -1)
      /\ \A i \in 1..Len(c) : (a \o c)[1 + i] = c[i]
  <2>1. c \in Seq(Units)
    BY <1>5, ChunkFacts
  <2>2. a \in Seq(Units) /\ Len(a) = 1 /\ a[1] = Push(j, -1)
    <3>1. Push(j, -1) \in Units
      BY UnitFacts
    <3>. QED
      BY <3>1
  <2>. HIDE DEF a, c
  <2>3. /\ Len(c) \in Nat /\ a \o c \in Seq(Units) /\ Len(a \o c) = Len(a) + Len(c)
        /\ \A i \in 1..Len(a) : (a \o c)[i] = a[i]
        /\ \A i \in 1..Len(c) : (a \o c)[Len(a) + i] = c[i]
    BY <2>1, <2>2, Joined, Zenon
  <2>. QED
    BY <2>1, <2>2, <2>3
<1>8. /\ Len(c) = 0 \/ (Len(c) = 1 + Len(data) /\ c[1] = Push(j, Len(data)) /\ Len(data) > 0)
      /\ \A i \in 2..Len(c) : \E l \in 1..Len(data) : c[i] = Data(j, l)
  <2>1. Len(data) \in Nat /\ (Len(data) = 0 \/ Len(data) > 0)
    BY <1>2, <1>5
  <2>2. CASE Len(data) = 0
    <3>1. Len(c) = 0
      BY <1>5, <2>2, ChunkFacts
    <3>. QED
      BY <3>1
  <2>3. CASE Len(data) > 0
    <3>1. /\ Len(c) = 1 + Len(data) /\ c[1] = Push(j, Len(data))
          /\ \A i \in 1..Len(data) : c[1 + i] = data[i]
      BY <1>5, <2>3, ChunkFacts
    <3>2. \A i \in 2..Len(c) : i - 1 \in 1..Len(data) /\ 1 + (i - 1) = i
      BY <2>1, <3>1
    <3>3. \A i \in 2..Len(c) : c[i] = Data(j, i - 1)
      BY <1>6, <3>1, <3>2 DEF IsDataOf
    <3>. QED
      BY <2>3, <3>1, <3>2, <3>3
  <2>. QED
    BY <2>1, <2>2, <2>3
<1>9. /\ \A i \in Jobs : wpc'[i] = IF i = j THEN "relay" ELSE wpc[i]
      /\ \A i \in Jobs : relayed'[i] = IF i = j THEN data ELSE relayed[i]
      /\ \A i \in Jobs : total_transferred'[i] = IF i = j THEN Len(data) ELSE total_transferred[i]
      /\ \A i \in Jobs : file_size'[i] = IF i = j THEN Size[j] ELSE file_size[i]
      /\ \A i \in Jobs : i # j => out'[i] = out[i]
      /\ out'[j] = a \o c
      /\ down'[SrcConn(j)] = Rest(q, k)
      /\ \A d \in Conns : d # SrcConn(j) => down'[d] = down[d]
  BY <1>1, <1>4 DEF IInv, TypeOK
<1>10. TypeOK'
  <2>1. down' \in [Conns -> Seq(Units)] /\ out' \in [Jobs -> Seq(Units)]
    BY <1>2, <1>7 DEF IInv, TypeOK
  <2>2. /\ file_size' \in [Jobs -> Nat] /\ total_transferred' \in [Jobs -> Nat]
        /\ relayed' \in [Jobs -> Seq(Units)]
    BY SMTT(30), <1>2, <1>4, <1>5 DEF IInv, TypeOK
  <2>3. Len(down'[SrcConn(j)]) <= SockBuf
    BY <1>1, <1>2, <1>9
  <2>4. \A d \in Conns : Len(up'[d]) <= SockBuf /\ Len(down'[d]) <= SockBuf
    BY <1>9, <2>3 DEF IInv, TypeOK
  <2>5. wpc' \in [Jobs -> {"connect_source", "connect_target", "pull", "header",
                           "relay", "eof", "done", "killed"}]
    BY DEF IInv, TypeOK
  <2>. QED
    BY <2>1, <2>2, <2>4, <2>5 DEF IInv, TypeOK, Conns, Units
<1>. HIDE DEF q, c, a
<1>11. Sessions'
  BY DEF IInv, Sessions, Server
<1>12. Closing'
  BY ZenonT(60), <1>9 DEF IInv, Closing, Ended, SrcConn, TgtConn
<1>13. Results'
  <2>1. ASSUME NEW i \in Jobs PROVE ResultOf(i)'
    BY <1>9 DEF IInv, Results, ResultOf
  <2>. QED
    BY <2>1 DEF Results
<1>14. SourceInv'
  <2>1. ASSUME NEW i \in Jobs, i # j PROVE Requests(i)' /\ Answers(i)' /\ Relayed(i)'
    <3>1. down'[SrcConn(i)] = down[SrcConn(i)]
      BY <1>9, <2>1, ConnFacts
    <3>. QED
      BY <1>9, <2>1, <3>1, SourceFrame DEF IInv
  <2>2. Requests(j)'
    <3>1. q # <<>>
      BY <1>2, EmptySeq
    <3>2. up[SrcConn(j)] = <<>>
      BY <3>1, InvOf DEF IInv, Requests, q
    <3>. QED
      BY <1>9, <3>2 DEF Requests, Early, SrcConn, Pull, Unit
  <2>3. Answers(j)'
    <3>0. Taken(j)' = k
      BY <1>2, <1>5, <1>9 DEF Taken
    <3>1. ASSUME NEW i \in 1..Len(down'[SrcConn(j)])
          PROVE  AnswerUnit(j, k + i, down'[SrcConn(j)][i])
      <4>1. i \in 1..(Len(q) - k) /\ k + i \in 1..Len(q)
        BY <1>2, <1>9
      <4>. QED
        BY <1>2, <1>3, <1>9, <4>1
    <3>2. ASSUME serving[Source[j]] = SrcConn(j), NEW i \in 1..Len(reply[Source[j]])
          PROVE  AnswerUnit(j, k + Len(down'[SrcConn(j)]) + i, reply[Source[j]][i])
      <4>1. AnswerUnit(j, Taken(j) + Len(q) + i, reply[Source[j]][i])
        BY <3>2, InvOf DEF IInv, Answers, q
      <4>2. Len(reply[Source[j]]) \in Nat
        BY ConnFacts, LenProperties DEF IInv, TypeOK
      <4>3. k + Len(down'[SrcConn(j)]) + i = Taken(j) + Len(q) + i
        BY <1>2, <1>3, <1>9, <4>2
      <4>. QED
        BY <4>1, <4>3
    <3>. QED
      BY <3>0, <3>1, <3>2 DEF Answers, AnswerUnit, SrcConn, Header, Data, Unit, MaxSize
  <2>4. Relayed(j)'
    BY <1>6, <1>9 DEF Relayed, IsDataOf, MaxSize, Data, Unit
  <2>. QED
    BY <2>1, <2>2, <2>3, <2>4 DEF SourceInv
<1>15. Pending(j)' = a \o c
  <2>0. Len(Pending(j)) = 0
    BY InvOf DEF IInv, Untouched
  <2>1. 0 = Len(up[TgtConn(j)]) + Len(out[j])
        /\ Len(up[TgtConn(j)]) \in Nat /\ Len(out[j]) \in Nat /\ up[TgtConn(j)] \in Seq(Units)
    BY <2>0, PendingFacts DEF IInv
  <2>2. up[TgtConn(j)] = <<>>
    <3>1. \A m, n \in Nat : 0 = m + n => m = 0
      OBVIOUS
    <3>2. Len(up[TgtConn(j)]) = 0
      BY <2>1, <3>1, Zenon
    <3>. QED
      BY <2>1, <3>2, EmptySeq
  <2>3. <<>> \o (a \o c) = a \o c
    BY <1>7, ConcatEmptySeq
  <2>. QED
    BY <1>9, <2>2, <2>3 DEF Pending, TgtConn
<1>16. AtOpen(j)' /\ ~Opened(j)'
  BY <1>7, <1>15 DEF AtOpen, Opened, Push, Unit
<1>17. Commands(j)'
  <2>1. ASSUME NEW i \in 1..Len(a \o c)
        PROVE  /\ (a \o c)[i].op \in {"PUSH", "DATA"} /\ (a \o c)[i].file = j
               /\ i # 1 => (a \o c)[i] # Push(j, -1)
    <3>1. CASE i = 1
      BY <1>7, <3>1, UnitFacts
    <3>2. CASE i = 2
      <4>1. Len(c) # 0 /\ 1 \in 1..Len(c) /\ (a \o c)[2] = c[1]
        BY <1>7, <3>2
      <4>2. Len(data) # -1
        BY <1>2, <1>5
      <4>. QED
        BY <1>8, <3>2, <4>1, <4>2, UnitFacts
    <3>3. CASE i > 2
      <4>1. i - 1 \in 2..Len(c) /\ i - 1 \in 1..Len(c) /\ 1 + (i - 1) = i
        BY <1>7, <3>3
      <4>2. \E l \in 1..Len(data) : (a \o c)[i] = Data(j, l)
        BY <1>7, <1>8, <4>1
      <4>. QED
        BY <4>2, UnitFacts
    <3>. QED
      BY <1>7, <3>1, <3>2, <3>3
  <2>2. \A i \in 2..Len(a \o c) : i \in 1..Len(a \o c) /\ i # 1
    BY <1>7
  <2>. QED
    BY <1>15, <2>1, <2>2 DEF Commands, Push, Unit
<1>18. Untouched(j)'
  <2>1. result[j] = "none"
    BY DEF IInv, TypeOK, Results, ResultOf
  <2>2. stored[j] = Old(j)
    BY InvOf DEF IInv, Untouched
  <2>. QED
    BY <1>9, <2>1, <2>2 DEF Untouched, Early, Old, Data, Unit
<1>19. Writing(j)'
  BY <1>9, <1>16, InvOf DEF IInv, Writing, TgtConn, SrcConn, Ended
<1>20. Frames(j)'
  <2>1. InStep(j, a \o c, 0, 0, TRUE, Len(data))
    BY <1>5, <1>6, InStepStart DEF a, c
  <2>2. Written(j)' = 0
    BY <1>16 DEF Written
  <2>3. Due(j)' = 0
    BY <1>19, <1>16 DEF Due, Pushing, Writing
  <2>4. InStep(j, Pending(j)', 0, 0, wpc'[j] = "relay", Len(relayed'[j]))
    BY <1>9, <1>15, <2>1
  <2>5. Place(j, 0, 0)'
    BY <1>16, <2>2, <2>3 DEF Place
  <2>6. \E n, m : Place(j, n, m)' /\ InStep(j, Pending(j)', n, m, wpc'[j] = "relay", Len(relayed'[j]))
    BY <2>4, <2>5
  <2>. QED
    BY <2>6 DEF Frames, InStep, Reads, Data, Push, Unit, MaxSize
<1>21. Stored(j)'
  BY <1>16, InvOf, KeptFrame DEF IInv, Stored, Old, Data, Unit
<1>22. TargetInv'
  <2>1. ASSUME NEW i \in Jobs, i # j
        PROVE  Commands(i)' /\ Untouched(i)' /\ Writing(i)' /\ Frames(i)' /\ Stored(i)'
    BY <1>9, <2>1, WorkerFrame DEF IInv
  <2>. QED
    BY <1>17, <1>18, <1>19, <1>20, <1>21, <2>1 DEF TargetInv
<1>. QED
  BY <1>10, <1>11, <1>12, <1>13, <1>14, <1>22 DEF IInv

\* RecvHeader
LEMMA RecvHeaderIInv ==
  ASSUME IInv, NEW j \in Jobs, RecvHeader(j)
  PROVE  IInv'
<1>. DEFINE q == down[SrcConn(j)]
<1>1. PICK k \in Received(q, BufSize) :
        LET units == First(q, k)
            data == AfterHeader(units)
        IN /\ down' = [down EXCEPT ![SrcConn(j)] = Rest(@, k)]
           /\ IF units[1].n < 0
              THEN /\ Return(j, "err", {SrcConn(j), TgtConn(j)})
                   /\ UNCHANGED <<file_size, total_transferred, out, relayed>>
              ELSE /\ file_size' = [file_size EXCEPT ![j] = units[1].n]
                   /\ total_transferred' = [total_transferred EXCEPT ![j] = Len(data)]
                   /\ out' = [out EXCEPT ![j] = <<Push(j, -1)>> \o Chunk(j, data)]
                   /\ relayed' = [relayed EXCEPT ![j] = data]
                   /\ Goto(j, "relay")
                   /\ UNCHANGED <<result, wclosed>>
  BY DEF RecvHeader
<1>2. wpc[j] = "header" /\ UNCHANGED <<up, sclosed, alive, backlog, cvars>>
  BY DEF RecvHeader
<1>3. CASE First(q, k)[1].n < 0
  <2>1. /\ SrcConn(j) \in Conns /\ q \in Seq(Units) /\ Len(q) <= SockBuf
        /\ BufSize \in Nat /\ SockBuf \in Nat /\ down \in [Conns -> Seq(Units)]
    BY ConnFacts, TransferAssumption DEF IInv, TypeOK
  <2>2. /\ Rest(q, k) \in Seq(Units) /\ Len(Rest(q, k)) = Len(q) - k
        /\ k \in Nat /\ k \in 1..Len(q) /\ Len(q) \in Nat
    BY <2>1, ReceivedFacts
  <2>3. /\ down' \in [Conns -> Seq(Units)] /\ down'[SrcConn(j)] = Rest(q, k)
        /\ \A d \in Conns : d # SrcConn(j) => down'[d] = down[d]
    BY <1>1, <2>1, <2>2
  <2>4. Len(down'[SrcConn(j)]) <= SockBuf /\ q # <<>>
    BY <2>1, <2>2, <2>3, EmptySeq
  <2>5. /\ Return(j, "err", {SrcConn(j), TgtConn(j)})
        /\ UNCHANGED <<file_size, total_transferred, out, relayed>>
    BY <1>1, <1>3
  <2>6. {SrcConn(j), TgtConn(j)} \in SUBSET {SrcConn(j), TgtConn(j)}
        /\ wpc[j] \in Early \cup {"header"}
    BY <1>2
  <2>. QED
    BY <1>2, <2>3, <2>4, <2>5, <2>6, GiveUpIInv
<1>4. CASE ~(First(q, k)[1].n < 0)
  <2>. DEFINE data == AfterHeader(First(q, k))
  <2>1. /\ file_size' = [file_size EXCEPT ![j] = First(q, k)[1].n]
        /\ total_transferred' = [total_transferred EXCEPT ![j] = Len(data)]
        /\ out' = [out EXCEPT ![j] = <<Push(j, -1)>> \o Chunk(j, data)]
        /\ relayed' = [relayed EXCEPT ![j] = data]
        /\ wpc' = [wpc EXCEPT ![j] = "relay"]
        /\ down' = [down EXCEPT ![SrcConn(j)] = Rest(@, k)]
        /\ UNCHANGED <<result, wclosed>>
    BY <1>1, <1>4 DEF Goto
  <2>. HIDE DEF data
  <2>2. data = AfterHeader(First(q, k))
    BY DEF data
  <2>. QED
    BY <1>2, <1>4, <2>1, <2>2, HeaderIInv
<1>. QED
  BY <1>3, <1>4

\* SendToTarget
LEMMA SendToTargetIInv ==
  ASSUME IInv, NEW j \in Jobs, SendToTarget(j)
  PROVE  IInv'
<1>. USE DEF cvars, disk
<1>. DEFINE t == TgtConn(j)
<1>1. /\ out[j] # <<>> /\ Len(up[t]) < SockBuf
      /\ up' = [up EXCEPT ![t] = Append(@, Head(out[j]))]
      /\ out' = [out EXCEPT ![j] = Tail(@)]
      /\ UNCHANGED <<wpc, file_size, total_transferred, result, relayed, down,
                     wclosed, sclosed, alive, backlog, cvars>>
  BY DEF SendToTarget
<1>2. t \in Conns /\ up[t] \in Seq(Units) /\ out[j] \in Seq(Units) /\ SockBuf \in Nat
  BY ConnFacts, TransferAssumption DEF IInv, TypeOK
<1>3. Head(out[j]) \in Units /\ Tail(out[j]) \in Seq(Units)
  BY <1>1, <1>2, TailIndices
<1>4. /\ Append(up[t], Head(out[j])) \in Seq(Units) /\ Len(up[t]) \in Nat
      /\ Len(Append(up[t], Head(out[j]))) = Len(up[t]) + 1
  BY <1>2, <1>3, AppendIndices
<1>5. /\ up'[t] = Append(up[t], Head(out[j])) /\ out'[j] = Tail(out[j])
      /\ \A c \in Conns : c # t => up'[c] = up[c]
      /\ \A i \in Jobs : i # j => out'[i] = out[i]
      /\ up' \in [Conns -> Seq(Units)] /\ out' \in [Jobs -> Seq(Units)]
  BY <1>1, <1>2, <1>3, <1>4 DEF IInv, TypeOK
<1>6. Pending(j)' = Pending(j)
  <2>1. Append(up[t], Head(out[j])) \o Tail(out[j]) = up[t] \o out[j]
    BY <1>1, <1>2, ConcatShift
  <2>. QED
    BY <1>5, <2>1 DEF Pending, TgtConn
<1>7. TypeOK'
  <2>1. \A c \in Conns : Len(up'[c]) <= SockBuf /\ Len(down'[c]) <= SockBuf
    <3>1. Len(up'[t]) <= SockBuf
      BY <1>1, <1>2, <1>4, <1>5
    <3>. QED
      BY <1>1, <1>5, <3>1 DEF IInv, TypeOK
  <2>. QED
    BY <1>1, <1>5, <2>1 DEF IInv, TypeOK, Conns, Units
<1>. HIDE DEF t
<1>8. Sessions' /\ Closing'
  BY <1>1 DEF IInv, Sessions, Closing, Server, SrcConn, TgtConn
<1>9. Results'
  BY <1>1, <1>5 DEF IInv, Results, ResultOf
<1>10. SourceInv'
  <2>1. ASSUME NEW i \in Jobs PROVE Requests(i)' /\ Answers(i)' /\ Relayed(i)'
    <3>1. up'[SrcConn(i)] = up[SrcConn(i)]
      BY <1>5, ConnFacts DEF t
    <3>. QED
      BY <1>1, <3>1, SourceFrame DEF IInv
  <2>. QED
    BY <2>1 DEF SourceInv
<1>11. TargetInv'
  <2>1. ASSUME NEW i \in Jobs
        PROVE  Commands(i)' /\ Untouched(i)' /\ Writing(i)' /\ Frames(i)' /\ Stored(i)'
    <3>1. CASE i = j
      BY <1>1, <1>6, <3>1, WorkerFrame DEF IInv
    <3>2. CASE i # j
      <4>1. up'[TgtConn(i)] = up[TgtConn(i)] /\ out'[i] = out[i]
        BY <1>5, <3>2, ConnFacts DEF t
      <4>. QED
        BY <1>1, <4>1, WorkerFrame DEF IInv
    <3>. QED
      BY <3>1, <3>2
  <2>. QED
    BY <2>1 DEF TargetInv
<1>. QED
  BY <1>7, <1>8, <1>9, <1>10, <1>11 DEF IInv

\* A worker whose target is gone still runs, and the target is dead
LEMMA TargetGone ==
  ASSUME IInv, NEW j \in Jobs, out[j] # <<>>, TgtConn(j) \in sclosed
  PROVE  /\ wpc[j] \in {"relay", "eof"} /\ result[j] = "none" /\ Target[j] \notin alive
         /\ serving[Target[j]] = None
<1>1. wpc[j] \in {"relay", "eof"} /\ result[j] = "none"
  BY DEF IInv, Results, ResultOf
<1>2. Target[j] \notin alive
  BY <1>1 DEF IInv, Closing, Ended
<1>. QED
  BY <1>1, <1>2, ConnFacts DEF IInv, Sessions

\* What is left of the units to send when one send is given up
LEMMA AfterSendFacts ==
  ASSUME NEW o \in Seq(Units), o # <<>>
  PROVE  /\ AfterSend(o) \in Seq(Units) /\ Len(AfterSend(o)) \in Nat /\ Len(o) \in Nat
         /\ Len(AfterSend(o)) < Len(o)
         /\ \A i \in 1..Len(AfterSend(o)) : AfterSend(o)[i] = o[i + 1]
<1>1. /\ Tail(o) \in Seq(Units) /\ Len(Tail(o)) = Len(o) - 1 /\ Len(o) \in Nat \ {0}
      /\ \A i \in 1..(Len(o) - 1) : Tail(o)[i] = o[i + 1]
  BY TailIndices
<1>2. <<>> \in Seq(Units) /\ Len(<<>>) = 0
  BY EmptySeq
<1>3. AfterSend(o) = <<>> \/ AfterSend(o) = Tail(o)
  BY DEF AfterSend
<1>4. CASE AfterSend(o) = <<>>
  <2>1. Len(AfterSend(o)) = 0
    BY <1>2, <1>4
  <2>. QED
    BY <1>1, <1>2, <1>4, <2>1
<1>5. CASE AfterSend(o) = Tail(o)
  BY <1>1, <1>5
<1>. QED
  BY <1>3, <1>4, <1>5

\* SendLost
LEMMA SendLostIInv ==
  ASSUME IInv, NEW j \in Jobs, SendLost(j)
  PROVE  IInv'
<1>. DEFINE u == up[TgtConn(j)]
            o == out[j]
            r == AfterSend(o)
<1>1. /\ o # <<>> /\ out' = [out EXCEPT ![j] = r]
      /\ harm \subseteq harm' /\ harm' \subseteq harm \cup {<<"spoilt", j>>}
      /\ UNCHANGED <<wpc, file_size, total_transferred, result, relayed, up, down,
                     wclosed, sclosed, alive, backlog, hpc, serving, reply, need,
                     current_fd, stored>>
  BY DEF SendLost
<1>2. /\ wpc[j] \in {"relay", "eof"} /\ result[j] = "none"
      /\ \/ Target[j] \notin alive /\ serving[Target[j]] = None
         \/ Len(u) > 0 /\ <<"spoilt", j>> \in harm'
  <2>1. wpc[j] \in {"relay", "eof"} /\ result[j] = "none"
    BY <1>1 DEF IInv, Results, ResultOf
  <2>2. CASE TgtConn(j) \in sclosed
    BY <1>1, <2>1, <2>2, TargetGone
  <2>3. CASE Len(u) >= SockBuf /\ harm' = harm \cup {<<"spoilt", j>>}
    <3>1. Len(u) \in Nat
      BY PendingFacts DEF IInv
    <3>2. Len(u) > 0
      BY <2>3, <3>1, TransferAssumption
    <3>. QED
      BY <2>1, <2>3, <3>2
  <2>. QED
    BY <2>2, <2>3 DEF SendLost
<1>3. /\ u \in Seq(Units) /\ o \in Seq(Units) /\ Len(u) \in Nat /\ Len(o) \in Nat
      /\ Pending(j) \in Seq(Units) /\ Len(Pending(j)) = Len(u) + Len(o)
      /\ \A i \in 1..Len(u) : Pending(j)[i] = u[i]
      /\ \A i \in 1..Len(o) : Pending(j)[Len(u) + i] = o[i]
  BY PendingFacts DEF IInv
<1>. HIDE DEF o
<1>4. /\ r \in Seq(Units) /\ Len(r) \in Nat /\ Len(r) < Len(o)
      /\ \A i \in 1..Len(r) : r[i] = o[i + 1]
  BY <1>1, <1>3, AfterSendFacts
<1>. HIDE DEF r
<1>5. /\ out'[j] = r /\ \A i \in Jobs : i # j => out'[i] = out[i]
      /\ out' \in [Jobs -> Seq(Units)]
  BY <1>1, <1>4 DEF IInv, TypeOK
<1>6. Pending(j)' = u \o r
  BY <1>1, <1>5 DEF Pending, TgtConn
<1>. HIDE DEF u
<1>7. /\ Len(u \o r) = Len(u) + Len(r)
      /\ \A i \in 1..Len(u) : (u \o r)[i] = u[i]
      /\ \A i \in 1..Len(r) : (u \o r)[Len(u) + i] = r[i]
  BY <1>3, <1>4, Joined, Zenon
<1>8. /\ Len(Pending(j)') < Len(Pending(j))
      /\ Len(Pending(j)') \in Nat /\ Len(Pending(j)) \in Nat
      /\ \A i \in 1..Len(Pending(j)') :
           \/ i \in 1..Len(u) /\ Pending(j)'[i] = Pending(j)[i] /\ i \in 1..Len(Pending(j))
           \/ Pending(j)'[i] = Pending(j)[i + 1] /\ i + 1 \in 2..Len(Pending(j))
  <2>1. Len(Pending(j)') = Len(u) + Len(r) /\ Len(Pending(j)') < Len(Pending(j))
    BY <1>3, <1>4, <1>6, <1>7
  <2>2. ASSUME NEW i \in 1..Len(Pending(j)'), i \notin 1..Len(u)
        PROVE  Pending(j)'[i] = Pending(j)[i + 1] /\ i + 1 \in 2..Len(Pending(j))
    <3>1. /\ i - Len(u) \in 1..Len(r) /\ Len(u) + (i - Len(u)) = i
          /\ (i - Len(u)) + 1 \in 1..Len(o) /\ Len(u) + ((i - Len(u)) + 1) = i + 1
          /\ i + 1 \in 2..Len(Pending(j))
      BY <1>3, <1>4, <2>1, <2>2
    <3>2. Pending(j)'[i] = r[i - Len(u)]
      BY <1>6, <1>7, <3>1
    <3>3. r[i - Len(u)] = o[(i - Len(u)) + 1]
      BY <1>4, <3>1
    <3>4. Pending(j)[i + 1] = o[(i - Len(u)) + 1]
      BY <1>3, <3>1
    <3>. QED
      BY <3>1, <3>2, <3>3, <3>4
  <2>3. ASSUME NEW i \in 1..Len(u)
        PROVE  Pending(j)'[i] = Pending(j)[i] /\ i \in 1..Len(Pending(j))
    BY <1>3, <1>6, <1>7
  <2>. QED
    BY <1>3, <1>4, <2>1, <2>2, <2>3
<1>9. TypeOK'
  <2>1. harm' \subseteq {"shrink", "nowrite", "full", "signal", "spoilt"} \X Jobs
    BY <1>1 DEF IInv, TypeOK
  <2>. QED
    BY <1>1, <1>5, <2>1 DEF IInv, TypeOK, Conns, Units
<1>10. Sessions' /\ Closing'
  BY <1>1 DEF IInv, Sessions, Closing, Server, SrcConn, TgtConn
<1>11. Results'
  <2>1. ASSUME NEW i \in Jobs PROVE ResultOf(i)'
    <3>1. out'[i] # <<>> => wpc'[i] \in {"relay", "eof"}
      BY <1>1, <1>2, <1>5 DEF IInv, Results, ResultOf
    <3>. QED
      BY <1>1, <3>1, ResultsFrame DEF IInv
  <2>. QED
    BY <2>1 DEF Results
<1>12. SourceInv'
  <2>1. ASSUME NEW i \in Jobs PROVE Requests(i)' /\ Answers(i)' /\ Relayed(i)'
    BY <1>1, SourceFrame DEF IInv
  <2>. QED
    BY <2>1 DEF SourceInv
<1>13. Commands(j)'
  <2>1. /\ \A i \in 1..Len(Pending(j)) :
             Pending(j)[i].op \in {"PUSH", "DATA"} /\ Pending(j)[i].file = j
        /\ \A i \in 2..Len(Pending(j)) : Pending(j)[i] # Push(j, -1)
    BY <1>8, InvOf DEF IInv, Commands
  <2>2. \A i \in 2..Len(Pending(j)) : i \in 1..Len(Pending(j))
    BY <1>8
  <2>3. \A i \in 1..Len(Pending(j)') :
          Pending(j)'[i].op \in {"PUSH", "DATA"} /\ Pending(j)'[i].file = j
    BY <1>8, <2>1, <2>2
  <2>4. ASSUME NEW i \in 2..Len(Pending(j)') PROVE Pending(j)'[i] # Push(j, -1)
    <3>1. i \in 1..Len(Pending(j)') /\ i \in 2..Len(Pending(j))
      BY <1>8
    <3>. QED
      BY <1>8, <2>1, <3>1
  <2>. QED
    BY <2>3, <2>4 DEF Commands, Push, Unit
<1>14. AtOpen(j)' => AtOpen(j)
  <2>1. ASSUME Len(Pending(j)') > 0, Pending(j)'[1] = Push(j, -1)
        PROVE  Len(Pending(j)) > 0 /\ Pending(j)[1] = Push(j, -1)
    <3>1. 1 \in 1..Len(Pending(j)')
      BY <1>8, <2>1
    <3>2. Pending(j)[1 + 1] # Push(j, -1) \/ 1 + 1 \notin 2..Len(Pending(j))
      BY InvOf DEF IInv, Commands
    <3>3. Pending(j)'[1] = Pending(j)[1] /\ 1 \in 1..Len(Pending(j))
      BY <1>8, <2>1, <3>1, <3>2
    <3>. QED
      BY <1>8, <2>1, <3>3
  <2>. QED
    BY <2>1 DEF AtOpen, Push, Unit
<1>15. Untouched(j)'
  BY <1>1, <1>2, <1>14, InvOf DEF IInv, Untouched, Early, Old, Data, Unit
<1>16. Len(u) > 0 => (AtOpen(j)' <=> AtOpen(j)) /\ (Opened(j)' <=> Opened(j))
  <2>. SUFFICES ASSUME Len(u) > 0
                PROVE  (AtOpen(j)' <=> AtOpen(j)) /\ (Opened(j)' <=> Opened(j))
    OBVIOUS
  <2>1. 1 \in 1..Len(u) /\ Len(Pending(j)) > 0 /\ Len(u \o r) > 0
    BY <1>3, <1>4, <1>7
  <2>2. Pending(j)[1] = u[1] /\ Pending(j)'[1] = u[1] /\ Len(Pending(j)') > 0
    BY <1>3, <1>6, <1>7, <2>1
  <2>. QED
    BY <2>1, <2>2 DEF AtOpen, Opened, Push, Unit
<1>17. Writing(j)'
  <2>1. CASE Target[j] \notin alive /\ serving[Target[j]] = None
    BY <1>1, <2>1, InvOf, ConnFacts DEF IInv, Writing, SrcConn, TgtConn
  <2>2. CASE Len(u) > 0
    BY <1>1, <1>16, <2>2, InvOf DEF IInv, Writing, SrcConn, TgtConn
  <2>. QED
    BY <1>2, <2>1, <2>2
<1>18. Frames(j)' /\ Stored(j)'
  <2>1. CASE <<"spoilt", j>> \in harm'
    BY <2>1 DEF Frames, Stored
  <2>2. CASE Target[j] \notin alive
    <3>1. ~Intact(j)'
      BY <1>1, <2>2 DEF Intact
    <3>. QED
      BY <1>1, <3>1, InvOf, KeptFrame DEF IInv, Frames, Stored, Old, Data, Unit
  <2>. QED
    BY <1>2, <2>1, <2>2
<1>19. TargetInv'
  <2>1. ASSUME NEW i \in Jobs, i # j
        PROVE  Commands(i)' /\ Untouched(i)' /\ Writing(i)' /\ Frames(i)' /\ Stored(i)'
    BY <1>1, <1>5, <2>1, WorkerFrame DEF IInv
  <2>. QED
    BY <1>13, <1>15, <1>17, <1>18, <2>1 DEF TargetInv
<1>. QED
  BY <1>9, <1>10, <1>11, <1>12, <1>19 DEF IInv

\* A worker that ends with something still to send
LEMMA CutFrame ==
  ASSUME IInv, NEW j \in Jobs,
         UNCHANGED <<alive, serving, hpc, need, current_fd, stored>>, harm \subseteq harm',
         up'[TgtConn(j)] = up[TgtConn(j)], out'[j] = <<>>, wpc'[j] \in Ended,
         result'[j] = "err" =>
           /\ Len(up[TgtConn(j)]) = 0 /\ stored[j] = Old(j)
           /\ ~(serving[Target[j]] = TgtConn(j) /\ hpc[Target[j]] = "pushing")
  PROVE  Commands(j)' /\ Untouched(j)' /\ Writing(j)' /\ Frames(j)' /\ Stored(j)'
<1>. DEFINE u == up[TgtConn(j)]
            P == Pending(j)
<1>1. /\ u \in Seq(Units) /\ Len(u) \in Nat /\ P \in Seq(Units) /\ Len(P) \in Nat
      /\ Len(u) <= Len(P) /\ \A i \in 1..Len(u) : P[i] = u[i]
  <2>1. /\ u \in Seq(Units) /\ Len(u) \in Nat /\ Len(out[j]) \in Nat /\ P \in Seq(Units)
        /\ Len(P) = Len(u) + Len(out[j])
        /\ \A i \in 1..Len(u) : P[i] = u[i]
    BY PendingFacts DEF IInv
  <2>. HIDE DEF u, P
  <2>. QED
    BY <2>1
<1>2. Pending(j)' = u
  <2>1. u \o <<>> = u
    BY <1>1, ConcatEmptySeq
  <2>. QED
    BY <2>1 DEF Pending, TgtConn
<1>3. /\ Commands(j) /\ Untouched(j) /\ Writing(j) /\ Frames(j) /\ Stored(j)
  BY InvOf DEF IInv
<1>. HIDE DEF u, P
<1>4. \A i \in 1..Len(u) : i \in 1..Len(P)
  BY <1>1
<1>5. \A i \in 2..Len(u) : i \in 2..Len(P) /\ i \in 1..Len(u)
  BY <1>1
<1>6. /\ Len(u) > 0 => (AtOpen(j)' <=> AtOpen(j)) /\ (Opened(j)' <=> Opened(j))
      /\ ~(Len(u) > 0) => ~AtOpen(j)' /\ ~Opened(j)'
  <2>1. Len(u) > 0 => Len(P) > 0 /\ P[1] = u[1]
    BY <1>1
  <2>2. /\ AtOpen(j)' <=> Len(u) > 0 /\ u[1] = Push(j, -1)
        /\ AtOpen(j) <=> Len(P) > 0 /\ P[1] = Push(j, -1)
        /\ Len(P) > 0 => (Opened(j) <=> P[1] # Push(j, -1))
        /\ Opened(j)' <=> Len(u) > 0 /\ u[1] # Push(j, -1)
    BY <1>2 DEF AtOpen, Opened, P, Push, Unit, Ended
  <2>. QED
    BY <2>1, <2>2
<1>7. Commands(j)'
  <2>1. /\ \A i \in 1..Len(P) : P[i].op \in {"PUSH", "DATA"} /\ P[i].file = j
        /\ \A i \in 2..Len(P) : P[i] # Push(j, -1)
    BY <1>3 DEF Commands, P
  <2>2. /\ \A i \in 1..Len(u) : u[i].op \in {"PUSH", "DATA"} /\ u[i].file = j
        /\ \A i \in 2..Len(u) : u[i] # Push(j, -1)
    BY <1>1, <1>4, <1>5, <2>1
  <2>. QED
    BY <1>2, <2>2 DEF Commands, Push, Unit
<1>8. Untouched(j)'
  BY <1>2, <1>3, <1>6 DEF Untouched, Old, Data, Unit, Early, Ended, u
<1>9. Writing(j)'
  BY <1>3, <1>6 DEF Writing, TgtConn, SrcConn, Ended
<1>10. /\ Intact(j)' => Intact(j) /\ (AtOpen(j)' <=> AtOpen(j)) /\ Written(j)' = Written(j)
       /\ Due(j)' = Due(j)
  BY <1>6 DEF Intact, Written, Due, Pushing, TgtConn
<1>11. Frames(j)'
  <2>. SUFFICES ASSUME <<"spoilt", j>> \notin harm', Intact(j)'
                PROVE  \E n, m : /\ Place(j, n, m)'
                                 /\ InStep(j, Pending(j)', n, m, wpc'[j] = "relay",
                                           Len(relayed'[j]))
    BY DEF Frames, InStep, Reads, Data, Push, Unit, MaxSize
  <2>1. PICK n, m : /\ Place(j, n, m)
                    /\ InStep(j, P, n, m, wpc[j] = "relay", Len(relayed[j]))
    BY <1>3, <1>10 DEF Frames, P
  <2>2. InStep(j, u, n, m, FALSE, Len(relayed'[j]))
    BY <1>1, <2>1, InStepFirst
  <2>3. InStep(j, u, n, m, wpc'[j] = "relay", Len(relayed'[j]))
    BY <2>2 DEF InStep, Ended
  <2>4. Place(j, n, m)'
    BY <1>10, <2>1 DEF Place, Pushing, TgtConn
  <2>. QED
    BY <1>2, <2>3, <2>4
<1>12. Stored(j)'
  BY <1>3, <1>10, KeptFrame DEF Stored, Old, Data, Unit
<1>. QED
  BY <1>7, <1>8, <1>9, <1>11, <1>12

\* SendOpenFails
LEMMA SendOpenFailsIInv ==
  ASSUME IInv, NEW j \in Jobs, SendOpenFails(j)
  PROVE  IInv'
<1>. USE DEF cvars, disk
<1>1. /\ out[j] # <<>> /\ TgtConn(j) \in sclosed /\ Head(out[j]) = Push(j, -1)
      /\ wpc' = [wpc EXCEPT ![j] = "done"] /\ result' = [result EXCEPT ![j] = "err"]
      /\ wclosed' = wclosed \cup {SrcConn(j), TgtConn(j)}
      /\ out' = [out EXCEPT ![j] = <<>>]
      /\ UNCHANGED <<file_size, total_transferred, relayed, up, down, sclosed,
                     alive, backlog, cvars>>
  BY DEF SendOpenFails, Return, Goto
<1>2. /\ wpc[j] \in {"relay", "eof"} /\ result[j] = "none" /\ Target[j] \notin alive
      /\ serving[Target[j]] = None
  BY <1>1, TargetGone
<1>3. /\ \A i \in Jobs : wpc'[i] = IF i = j THEN "done" ELSE wpc[i]
      /\ \A i \in Jobs : result'[i] = IF i = j THEN "err" ELSE result[i]
      /\ \A i \in Jobs : out'[i] = IF i = j THEN <<>> ELSE out[i]
      /\ out' \in [Jobs -> Seq(Units)]
  BY <1>1, EmptySeq DEF IInv, TypeOK
<1>4. TypeOK'
  <2>1. wclosed' \subseteq Conns
    BY SMTT(30), <1>1, ConnFacts DEF IInv, TypeOK
  <2>. QED
    BY <1>1, <1>3, <2>1 DEF IInv, TypeOK, Conns, Units
<1>5. Sessions'
  BY <1>1 DEF IInv, Sessions, Server
<1>6. Closing'
  BY <1>1, <1>3, ConnFacts DEF IInv, Closing, Ended
<1>7. Results'
  <2>1. ASSUME NEW i \in Jobs PROVE ResultOf(i)'
    BY <1>1, <1>3 DEF IInv, Results, ResultOf
  <2>. QED
    BY <2>1 DEF Results
<1>8. SourceInv'
  <2>1. ASSUME NEW i \in Jobs PROVE Requests(i)' /\ Answers(i)' /\ Relayed(i)'
    BY <1>1, <1>3, SourceFrame DEF IInv, Early
  <2>. QED
    BY <2>1 DEF SourceInv
<1>9. Len(up[TgtConn(j)]) = 0 /\ stored[j] = Old(j)
  <2>. DEFINE u == up[TgtConn(j)]
  <2>1. /\ Len(u) \in Nat /\ Len(out[j]) \in Nat /\ out[j] \in Seq(Units)
        /\ Len(Pending(j)) = Len(u) + Len(out[j])
        /\ \A i \in 1..Len(out[j]) : Pending(j)[Len(u) + i] = out[j][i]
    BY PendingFacts DEF IInv
  <2>2. 1 \in 1..Len(out[j]) /\ out[j][1] = Push(j, -1)
    <3>1. Len(out[j]) \in Nat \ {0} /\ Head(out[j]) = out[j][1]
      BY <1>1, <2>1, TailIndices
    <3>. QED
      BY <1>1, <3>1
  <2>. HIDE DEF u
  <2>3. Pending(j)[Len(u) + 1] = Push(j, -1) /\ Len(u) + 1 \in 1..Len(Pending(j))
    BY <2>1, <2>2
  <2>4. Len(u) + 1 \notin 2..Len(Pending(j))
    BY <2>3, InvOf DEF IInv, Commands
  <2>5. Len(u) = 0
    BY <2>1, <2>2, <2>4
  <2>6. Len(Pending(j)) > 0 /\ Pending(j)[1] = Push(j, -1)
    BY <2>1, <2>2, <2>3, <2>5
  <2>. QED
    BY <2>5, <2>6, InvOf DEF IInv, Untouched, AtOpen, u
<1>10. TargetInv'
  <2>1. Commands(j)' /\ Untouched(j)' /\ Writing(j)' /\ Frames(j)' /\ Stored(j)'
    BY <1>1, <1>2, <1>3, <1>9, ConnFacts, CutFrame DEF Ended
  <2>2. ASSUME NEW i \in Jobs, i # j
        PROVE  Commands(i)' /\ Untouched(i)' /\ Writing(i)' /\ Frames(i)' /\ Stored(i)'
    BY <1>1, <1>3, <2>2, WorkerFrame DEF IInv
  <2>. QED
    BY <2>1, <2>2 DEF TargetInv
<1>. QED
  BY <1>4, <1>5, <1>6, <1>7, <1>8, <1>10 DEF IInv

\* ManagerKilled
LEMMA ManagerKilledIInv ==
  ASSUME IInv, NEW j \in Jobs, ManagerKilled(j)
  PROVE  IInv'
<1>. USE DEF cvars, disk
<1>1. /\ wpc' = [i \in Jobs |-> IF wpc[i] = "done" THEN "done" ELSE "killed"]
      /\ out' = [i \in Jobs |-> <<>>] /\ wclosed' = Conns
      /\ UNCHANGED <<file_size, total_transferred, result, relayed, up, down,
                     sclosed, alive, backlog, cvars>>
  BY DEF ManagerKilled
<1>2. /\ \A i \in Jobs : wpc'[i] \in Ended /\ (wpc'[i] = "done" <=> wpc[i] = "done")
      /\ \A i \in Jobs : out'[i] = <<>>
      /\ out' \in [Jobs -> Seq(Units)]
  BY <1>1, EmptySeq DEF Ended
<1>3. TypeOK'
  BY <1>1, <1>2 DEF IInv, TypeOK, Conns, Units
<1>4. Sessions'
  BY <1>1 DEF IInv, Sessions, Server
<1>5. Closing'
  BY <1>2 DEF Closing, Ended
<1>6. Results'
  BY <1>1, <1>2 DEF IInv, Results, ResultOf, Ended
<1>7. SourceInv'
  <2>1. ASSUME NEW i \in Jobs PROVE Requests(i)' /\ Answers(i)' /\ Relayed(i)'
    BY <1>1, <1>2, SourceFrame DEF IInv, Early, Ended
  <2>. QED
    BY <2>1 DEF SourceInv
<1>8. TargetInv'
  <2>1. ASSUME NEW i \in Jobs
        PROVE  Commands(i)' /\ Untouched(i)' /\ Writing(i)' /\ Frames(i)' /\ Stored(i)'
    <3>1. ASSUME result[i] = "err"
          PROVE  /\ Len(up[TgtConn(i)]) = 0 /\ stored[i] = Old(i)
                 /\ ~(serving[Target[i]] = TgtConn(i) /\ hpc[Target[i]] = "pushing")
      <4>1. Len(Pending(i)) = 0 /\ stored[i] = Old(i)
        BY <3>1, InvOf DEF IInv, Untouched
      <4>2. /\ Len(up[TgtConn(i)]) \in Nat /\ Len(out[i]) \in Nat
            /\ 0 = Len(up[TgtConn(i)]) + Len(out[i])
        BY <4>1, PendingFacts DEF IInv
      <4>3. \A m, n \in Nat : 0 = m + n => m = 0
        OBVIOUS
      <4>4. Len(up[TgtConn(i)]) = 0
        BY <4>2, <4>3, Zenon
      <4>. QED
        BY <3>1, <4>1, <4>4, InvOf DEF IInv, Writing
    <3>. QED
      BY <1>1, <1>2, <3>1, CutFrame
  <2>. QED
    BY <2>1 DEF TargetInv
<1>. QED
  BY <1>3, <1>4, <1>5, <1>6, <1>7, <1>8 DEF IInv

\* What a worker sends once the file is started: a command, and c units of
\* data when it announces that many
IsChunk(j, t, l, c, len) ==
  /\ l \in Int /\ l # -1 /\ c \in Nat /\ c = IF l > 0 THEN l ELSE 0
  /\ len + c <= MaxSize(j)
  /\ t \in Seq(Units) /\ Len(t) = 1 + c /\ t[1] = Push(j, l)
  /\ \A i \in 1..c : t[1 + i] = Data(j, len + i)

\* A worker that has sent everything goes on
LEMMA MoreFrame ==
  ASSUME IInv, NEW j \in Jobs,
         UNCHANGED <<alive, serving, hpc, need, current_fd, stored>>, harm \subseteq harm',
         up'[TgtConn(j)] = up[TgtConn(j)], result'[j] = result[j],
         wpc[j] = "relay", out[j] = <<>>, wpc'[j] \in {"relay", "eof"},
         NEW t, NEW l, NEW c, IsChunk(j, t, l, c, Len(relayed[j])), out'[j] = t,
         wpc'[j] = "relay" => Len(relayed'[j]) = Len(relayed[j]) + c
  PROVE  Commands(j)' /\ Untouched(j)' /\ Writing(j)' /\ Frames(j)' /\ Stored(j)'
<1>. DEFINE P == Pending(j)
            r == P \o t
<1>1. /\ l \in Int /\ l # -1 /\ c \in Nat /\ c = (IF l > 0 THEN l ELSE 0)
      /\ Len(relayed[j]) + c <= MaxSize(j)
      /\ t \in Seq(Units) /\ Len(t) = 1 + c /\ t[1] = Push(j, l)
      /\ \A i \in 1..c : t[1 + i] = Data(j, Len(relayed[j]) + i)
  BY DEF IsChunk
<1>2. P \in Seq(Units) /\ P = up[TgtConn(j)] /\ Len(relayed[j]) \in Nat
  <2>1. up[TgtConn(j)] \in Seq(Units) /\ relayed[j] \in Seq(Units)
    BY ConnFacts DEF IInv, TypeOK
  <2>. QED
    BY <2>1, ConcatEmptySeq, LenProperties DEF Pending
<1>3. Pending(j)' = r
  BY <1>2 DEF Pending, TgtConn
<1>4. /\ r \in Seq(Units) /\ Len(P) \in Nat /\ Len(t) \in Nat /\ Len(r) = Len(P) + Len(t)
      /\ \A i \in 1..Len(P) : r[i] = P[i]
      /\ \A i \in 1..Len(t) : r[Len(P) + i] = t[i]
  <2>. HIDE DEF P
  <2>. QED
    BY <1>1, <1>2, Joined, Zenon
<1>5. /\ Commands(j) /\ Untouched(j) /\ Writing(j) /\ Frames(j) /\ Stored(j)
  BY InvOf DEF IInv
<1>6. \A i \in 1..Len(t) : /\ t[i].op \in {"PUSH", "DATA"} /\ t[i].file = j
                           /\ t[i] # Push(j, -1)
  <2>. SUFFICES ASSUME NEW i \in 1..Len(t)
                PROVE  /\ t[i].op \in {"PUSH", "DATA"} /\ t[i].file = j
                       /\ t[i] # Push(j, -1)
    OBVIOUS
  <2>1. CASE i = 1
    BY <1>1, <2>1, UnitFacts
  <2>2. CASE i # 1
    <3>1. i - 1 \in 1..c /\ 1 + (i - 1) = i
      BY <1>1, <2>2
    <3>2. t[i] = Data(j, Len(relayed[j]) + (i - 1))
      BY <1>1, <3>1
    <3>. QED
      BY <3>2, UnitFacts
  <2>. QED
    BY <2>1, <2>2
<1>. HIDE DEF P, r
<1>7. \A i \in 1..Len(r) : \/ i \in 1..Len(P) /\ r[i] = P[i]
                           \/ \E k \in 1..Len(t) : r[i] = t[k]
  <2>. SUFFICES ASSUME NEW i \in 1..Len(r), i \notin 1..Len(P)
                PROVE  \E k \in 1..Len(t) : r[i] = t[k]
    BY <1>4
  <2>1. i - Len(P) \in 1..Len(t) /\ Len(P) + (i - Len(P)) = i
    BY <1>4
  <2>2. r[i] = t[i - Len(P)]
    BY <1>4, <2>1
  <2>. QED
    BY <2>1, <2>2
<1>8. Commands(j)'
  <2>1. /\ \A i \in 1..Len(P) : P[i].op \in {"PUSH", "DATA"} /\ P[i].file = j
        /\ \A i \in 2..Len(P) : P[i] # Push(j, -1)
    BY <1>5 DEF Commands, P
  <2>2. \A i \in 1..Len(r) : r[i].op \in {"PUSH", "DATA"} /\ r[i].file = j
    BY <1>6, <1>7, <2>1
  <2>3. ASSUME NEW i \in 2..Len(r) PROVE r[i] # Push(j, -1)
    <3>1. i \in 1..Len(r) /\ (i \in 1..Len(P) => i \in 2..Len(P))
      BY <1>4
    <3>. QED
      BY <1>6, <1>7, <2>1, <3>1
  <2>. QED
    BY <1>3, <2>2, <2>3 DEF Commands, Push, Unit
<1>9. /\ AtOpen(j)' <=> AtOpen(j)
      /\ Opened(j)' <=> Opened(j)
  <2>1. Len(r) > 0
    BY <1>1, <1>4
  <2>2. /\ AtOpen(j)' <=> r[1] = Push(j, -1)
        /\ AtOpen(j) <=> Len(P) > 0 /\ P[1] = Push(j, -1)
        /\ Opened(j)' <=> r[1] # Push(j, -1)
        /\ Opened(j) <=> ~(Len(P) > 0) \/ P[1] # Push(j, -1)
    BY <1>3, <2>1 DEF AtOpen, Opened, P, Push, Unit
  <2>3. CASE Len(P) > 0
    BY <1>4, <2>2, <2>3
  <2>4. CASE ~(Len(P) > 0)
    <3>1. Len(P) = 0 /\ 1 \in 1..Len(t) /\ Len(P) + 1 = 1
      BY <1>1, <1>4, <2>4
    <3>2. r[1] = t[1]
      BY <1>4, <3>1
    <3>. QED
      BY <1>6, <2>2, <2>4, <3>1, <3>2
  <2>. QED
    BY <2>3, <2>4
<1>10. Untouched(j)'
  <2>1. wpc'[j] \notin Early \cup {"header"} /\ result'[j] # "err"
    BY DEF IInv, Results, ResultOf, Early
  <2>. QED
    BY <1>5, <1>9, <2>1 DEF Untouched, Old, Data, Unit
<1>11. Writing(j)'
  BY <1>5, <1>9 DEF Writing, TgtConn, SrcConn
<1>12. /\ Intact(j)' <=> Intact(j)
       /\ Written(j)' = Written(j) /\ Due(j)' = Due(j)
  BY <1>9 DEF Intact, Written, Due, Pushing, TgtConn
<1>13. Frames(j)'
  <2>. SUFFICES ASSUME <<"spoilt", j>> \notin harm', Intact(j)'
                PROVE  \E n, m : /\ Place(j, n, m)'
                                 /\ InStep(j, Pending(j)', n, m, wpc'[j] = "relay",
                                           Len(relayed'[j]))
    BY DEF Frames, InStep, Reads, Data, Push, Unit, MaxSize
  <2>1. PICK n, m : /\ Place(j, n, m)
                    /\ InStep(j, P, n, m, wpc[j] = "relay", Len(relayed[j]))
    BY <1>5, <1>12 DEF Frames, P
  <2>2. InStep(j, P, n, m, TRUE, Len(relayed[j]))
    BY <2>1 DEF InStep
  <2>3. InStep(j, P \o t, n, m, TRUE, Len(relayed[j]) + c)
    BY <1>1, <1>2, <2>2, InStepMore
  <2>4. InStep(j, r, n, m, wpc'[j] = "relay", Len(relayed'[j]))
    BY <2>3 DEF InStep, r
  <2>5. Place(j, n, m)'
    BY <1>9, <1>12, <2>1 DEF Place, Pushing, TgtConn
  <2>. QED
    BY <1>3, <2>4, <2>5
<1>14. Stored(j)'
  BY <1>5, <1>9, <1>12, KeptFrame DEF Stored, Old, Data, Unit
<1>. QED
  BY <1>8, <1>10, <1>11, <1>13, <1>14

\* RelayEnds and RelayInterrupted
LEMMA RelayEndsIInv ==
  ASSUME IInv, NEW j \in Jobs, RelayEnds(j) \/ RelayInterrupted(j)
  PROVE  IInv'
<1>1. /\ wpc[j] = "relay" /\ out[j] = <<>>
      /\ out' = [out EXCEPT ![j] = <<Push(j, 0)>>]
      /\ wpc' = [wpc EXCEPT ![j] = "eof"]
      /\ UNCHANGED <<file_size, total_transferred, result, relayed, up, down,
                     wclosed, sclosed, alive, backlog, hpc, serving, reply, need,
                     current_fd, stored>>
      /\ harm \subseteq harm' /\ harm' \subseteq harm \cup {<<"signal", j>>}
  BY DEF RelayEnds, RelayInterrupted, EndRelay, Goto
<1>10. total_transferred[j] < file_size[j] =>
         SrcConn(j) \in sclosed \/ <<"signal", j>> \in harm'
  BY DEF RelayEnds, RelayInterrupted, MoreToRelay, EndOf
<1>2. <<Push(j, 0)>> \in Seq(Units) /\ Len(<<Push(j, 0)>>) = 1 /\ <<Push(j, 0)>>[1] = Push(j, 0)
  <2>1. Push(j, 0) \in Units
    BY UnitFacts
  <2>. QED
    BY <2>1
<1>3. /\ \A i \in Jobs : wpc'[i] = IF i = j THEN "eof" ELSE wpc[i]
      /\ \A i \in Jobs : i # j => out'[i] = out[i]
      /\ out'[j] = <<Push(j, 0)>>
      /\ out' \in [Jobs -> Seq(Units)]
  BY <1>1, <1>2 DEF IInv, TypeOK
<1>4. TypeOK'
  <2>1. harm' \subseteq {"shrink", "nowrite", "full", "signal", "spoilt"} \X Jobs
    BY <1>1 DEF IInv, TypeOK
  <2>. QED
    BY <1>1, <1>3, <2>1 DEF IInv, TypeOK, Conns, Units
<1>5. Sessions'
  BY <1>1 DEF IInv, Sessions, Server
<1>6. Closing'
  BY <1>1, <1>3 DEF IInv, Closing, Ended, SrcConn, TgtConn
<1>7. Results'
  <2>1. \/ <<"signal", j>> \in harm'
        \/ Source[j] \in alive => total_transferred[j] >= file_size[j]
    <3>1. SrcConn(j) \in sclosed => Source[j] \notin alive
      BY <1>1 DEF IInv, Closing, Ended
    <3>2. total_transferred[j] \in Nat /\ file_size[j] \in Nat
      BY DEF IInv, TypeOK
    <3>. QED
      BY <1>10, <3>1, <3>2
  <2>2. ResultOf(j)'
    BY <1>1, <1>3, <2>1 DEF IInv, Results, ResultOf
  <2>3. ASSUME NEW i \in Jobs, i # j PROVE ResultOf(i)'
    <3>1. out'[i] # <<>> => wpc'[i] \in {"relay", "eof"}
      BY <1>1, <1>3, <2>3 DEF IInv, Results, ResultOf
    <3>. QED
      BY <1>1, <1>3, <2>3, <3>1, ResultsFrame DEF IInv
  <2>. QED
    BY <2>2, <2>3 DEF Results
<1>8. SourceInv'
  <2>1. ASSUME NEW i \in Jobs PROVE Requests(i)' /\ Answers(i)' /\ Relayed(i)'
    BY <1>1, <1>3, SourceFrame DEF IInv, Early
  <2>. QED
    BY <2>1 DEF SourceInv
<1>9. TargetInv'
  <2>1. IsChunk(j, <<Push(j, 0)>>, 0, 0, Len(relayed[j]))
    <3>1. Len(relayed[j]) + 0 <= MaxSize(j)
      <4>1. Len(relayed[j]) <= MaxSize(j)
        BY InvOf DEF IInv, Relayed, IsDataOf
      <4>2. Len(relayed[j]) \in Nat
        BY LenProperties DEF IInv, TypeOK
      <4>. QED
        BY <4>1, <4>2
    <3>2. 0 \in Int /\ 0 # -1 /\ 0 \in Nat /\ 0 = (IF 0 > 0 THEN 0 ELSE 0) /\ 1..0 = {} /\ 1 + 0 = 1
      OBVIOUS
    <3>. QED
      BY <1>2, <3>1, <3>2 DEF IsChunk
  <2>2. Commands(j)' /\ Untouched(j)' /\ Writing(j)' /\ Frames(j)' /\ Stored(j)'
    <3>. DEFINE t == <<Push(j, 0)>>
    <3>1. IsChunk(j, t, 0, 0, Len(relayed[j])) /\ out'[j] = t
      BY <1>3, <2>1
    <3>2. /\ wpc'[j] \in {"relay", "eof"} /\ wpc'[j] # "relay"
          /\ up'[TgtConn(j)] = up[TgtConn(j)] /\ result'[j] = result[j]
      BY <1>1, <1>3
    <3>. HIDE DEF t
    <3>. QED
      BY <1>1, <3>1, <3>2, MoreFrame
  <2>3. ASSUME NEW i \in Jobs, i # j
        PROVE  Commands(i)' /\ Untouched(i)' /\ Writing(i)' /\ Frames(i)' /\ Stored(i)'
    BY <1>1, <1>3, <2>3, WorkerFrame DEF IInv
  <2>. QED
    BY <2>2, <2>3 DEF TargetInv
<1>. QED
  BY <1>4, <1>5, <1>6, <1>7, <1>8, <1>9 DEF IInv

\* RelayChunk
LEMMA RelayChunkIInv ==
  ASSUME IInv, NEW j \in Jobs, RelayChunk(j)
  PROVE  IInv'
<1>. USE DEF cvars, disk
<1>. DEFINE q == down[SrcConn(j)]
            old == relayed[j]
            len == Len(relayed[j])
<1>1. PICK k \in Received(q, BufSize) :
        /\ down' = [down EXCEPT ![SrcConn(j)] = Rest(@, k)]
        /\ total_transferred' = [total_transferred EXCEPT ![j] = @ + k]
        /\ out' = [out EXCEPT ![j] = Chunk(j, First(q, k))]
        /\ relayed' = [relayed EXCEPT ![j] = @ \o First(q, k)]
  BY DEF RelayChunk
<1>2. /\ wpc[j] = "relay" /\ out[j] = <<>>
      /\ UNCHANGED <<wpc, file_size, result, up, wclosed, sclosed, alive, backlog, cvars>>
  BY DEF RelayChunk
<1>3. /\ SrcConn(j) \in Conns /\ q \in Seq(Units) /\ Len(q) <= SockBuf /\ BufSize \in Nat
      /\ SockBuf \in Nat /\ old \in Seq(Units) /\ len \in Nat
  BY ConnFacts, TransferAssumption, LenProperties DEF IInv, TypeOK
<1>. DEFINE data == First(q, k)
            c == Chunk(j, data)
            more == old \o data
<1>4. /\ k \in 1..Len(q) /\ k \in Nat /\ Len(q) \in Nat
      /\ data \in Seq(Units) /\ Len(data) = k
      /\ \A i \in 1..k : data[i] = q[i]
      /\ Rest(q, k) \in Seq(Units) /\ Len(Rest(q, k)) = Len(q) - k
      /\ \A i \in 1..(Len(q) - k) : Rest(q, k)[i] = q[k + i]
  BY <1>3, ReceivedFacts
<1>. HIDE DEF data
<1>5. Taken(j) = len + 1 /\ \A i \in 1..Len(q) : AnswerUnit(j, (len + 1) + i, q[i])
  BY <1>2, InvOf DEF IInv, Answers, Taken
<1>6. \A i \in 1..Len(q) : len + i <= MaxSize(j) /\ q[i] = Data(j, len + i)
  <2>. SUFFICES ASSUME NEW i \in 1..Len(q)
                PROVE  len + i <= MaxSize(j) /\ q[i] = Data(j, len + i)
    OBVIOUS
  <2>1. (len + 1) + i # 1 /\ ((len + 1) + i) - 1 = len + i
    BY <1>3, <1>4
  <2>2. AnswerUnit(j, (len + 1) + i, q[i])
    BY <1>5
  <2>. QED
    BY <2>1, <2>2 DEF AnswerUnit
<1>7. /\ IsDataOf(j, old) /\ total_transferred[j] = len
  BY InvOf DEF IInv, Relayed
<1>8. /\ more \in Seq(Units) /\ Len(more) = len + k
      /\ \A i \in 1..len : more[i] = old[i]
      /\ \A i \in 1..k : more[len + i] = data[i]
  <2>1. /\ more \in Seq(Units) /\ Len(more) = Len(old) + Len(data)
        /\ \A i \in 1..Len(old) : more[i] = old[i]
        /\ \A i \in 1..Len(data) : more[Len(old) + i] = data[i]
    <3>. HIDE DEF old
    <3>. QED
      BY <1>3, <1>4, Joined, Zenon
  <2>. QED
    BY <1>4, <2>1
<1>9. /\ k \in 1..k /\ MaxSize(j) \in Nat /\ \A i \in 1..k : i \in 1..Len(q)
  BY <1>4, SizeFacts
<1>10. len + k <= MaxSize(j) /\ \A i \in 1..k : data[i] = Data(j, len + i)
  BY <1>4, <1>6, <1>9
<1>11. IsDataOf(j, more)
  <2>1. ASSUME NEW i \in 1..(len + k) PROVE more[i] = Data(j, i)
    <3>1. CASE i \in 1..len
      BY <1>7, <1>8, <3>1 DEF IsDataOf
    <3>2. CASE i \notin 1..len
      <4>1. i - len \in 1..k /\ len + (i - len) = i
        BY <1>3, <1>4, <3>2
      <4>. QED
        BY <1>8, <1>10, <4>1
    <3>. QED
      BY <3>1, <3>2
  <2>. QED
    BY <1>8, <1>10, <2>1 DEF IsDataOf
<1>12. c \in Seq(Units) /\ IsChunk(j, c, k, k, len)
  <2>1. k > 0 /\ k \in Int /\ k # -1 /\ k = IF k > 0 THEN k ELSE 0
    BY <1>4
  <2>2. /\ c \in Seq(Units) /\ Len(c) = 1 + k /\ c[1] = Push(j, k)
        /\ \A i \in 1..k : c[1 + i] = data[i]
    BY <1>4, <2>1, ChunkFacts
  <2>3. \A i \in 1..k : c[1 + i] = Data(j, len + i)
    BY <1>10, <2>2
  <2>. QED
    BY <1>4, <1>10, <2>1, <2>2, <2>3 DEF IsChunk
<1>13. /\ \A i \in Jobs : relayed'[i] = IF i = j THEN more ELSE relayed[i]
       /\ \A i \in Jobs : total_transferred'[i] =
                            IF i = j THEN len + k ELSE total_transferred[i]
       /\ \A i \in Jobs : i # j => out'[i] = out[i]
       /\ out'[j] = c
       /\ down'[SrcConn(j)] = Rest(q, k)
       /\ \A d \in Conns : d # SrcConn(j) => down'[d] = down[d]
  BY <1>1, <1>3, <1>7 DEF IInv, TypeOK, data
<1>14. TypeOK'
  <2>1. down' \in [Conns -> Seq(Units)] /\ out' \in [Jobs -> Seq(Units)]
    BY <1>1, <1>4, <1>12 DEF IInv, TypeOK, data
  <2>2. len + k \in Nat
    BY <1>3, <1>4
  <2>3. total_transferred' \in [Jobs -> Nat] /\ relayed' \in [Jobs -> Seq(Units)]
    BY <1>1, <1>4, <1>8, <1>13, <2>2 DEF IInv, TypeOK, data
  <2>4. Len(down'[SrcConn(j)]) <= SockBuf
    BY <1>3, <1>4, <1>13
  <2>5. \A d \in Conns : Len(up'[d]) <= SockBuf /\ Len(down'[d]) <= SockBuf
    BY <1>2, <1>13, <2>4 DEF IInv, TypeOK
  <2>. QED
    BY <1>2, <2>1, <2>3, <2>5 DEF IInv, TypeOK, Conns, Units
<1>. HIDE DEF q, c, more, old, len
<1>15. Sessions' /\ Closing'
  BY <1>2 DEF IInv, Sessions, Closing, Server, SrcConn, TgtConn
<1>16. Results'
  <2>1. \A i \in Jobs : i # j => total_transferred'[i] = total_transferred[i]
    BY <1>13
  <2>2. wpc[j] = "relay" /\ result[j] # "ok"
    BY <1>2 DEF IInv, Results, ResultOf
  <2>3. ASSUME NEW i \in Jobs PROVE ResultOf(i)'
    BY <1>2, <1>13, <2>1, <2>2 DEF IInv, Results, ResultOf
  <2>. QED
    BY <2>3 DEF Results
<1>17. SourceInv'
  <2>1. ASSUME NEW i \in Jobs, i # j PROVE Requests(i)' /\ Answers(i)' /\ Relayed(i)'
    <3>1. down'[SrcConn(i)] = down[SrcConn(i)]
      BY <1>13, <2>1, ConnFacts
    <3>. QED
      BY <1>2, <1>13, <2>1, <3>1, SourceFrame DEF IInv
  <2>2. Requests(j)'
    BY <1>2, InvOf DEF IInv, Requests, Early, SrcConn, Pull, Unit
  <2>3. Answers(j)'
    <3>0. Taken(j)' = (len + 1) + k
      <4>1. Len(more) + 1 = (len + 1) + k
        BY <1>3, <1>4, <1>8
      <4>. QED
        BY <1>2, <1>13, <4>1 DEF Taken
    <3>1. ASSUME NEW i \in 1..Len(down'[SrcConn(j)])
          PROVE  AnswerUnit(j, ((len + 1) + k) + i, down'[SrcConn(j)][i])
      <4>1. i \in 1..(Len(q) - k) /\ k + i \in 1..Len(q)
            /\ ((len + 1) + k) + i = (len + 1) + (k + i)
        BY <1>3, <1>4, <1>13
      <4>2. AnswerUnit(j, (len + 1) + (k + i), q[k + i])
        BY <1>5, <4>1
      <4>. QED
        BY <1>4, <1>13, <4>1, <4>2
    <3>2. ASSUME serving[Source[j]] = SrcConn(j), NEW i \in 1..Len(reply[Source[j]])
          PROVE  AnswerUnit(j, ((len + 1) + k) + Len(down'[SrcConn(j)]) + i, reply[Source[j]][i])
      <4>1. AnswerUnit(j, Taken(j) + Len(q) + i, reply[Source[j]][i])
        BY <1>2, <3>2, InvOf DEF IInv, Answers, q
      <4>2. Len(reply[Source[j]]) \in Nat
        BY ConnFacts, LenProperties DEF IInv, TypeOK
      <4>3. ((len + 1) + k) + Len(down'[SrcConn(j)]) + i = Taken(j) + Len(q) + i
        <5>1. Len(down'[SrcConn(j)]) = Len(q) - k /\ Taken(j) = len + 1
          BY <1>4, <1>5, <1>13
        <5>2. len \in Nat /\ k \in Nat /\ Len(q) \in Nat /\ i \in Nat
          BY <1>3, <1>4, <4>2
        <5>. QED
          BY <5>1, <5>2
      <4>. QED
        BY <4>1, <4>3
    <3>. QED
      BY <1>2, <3>0, <3>1, <3>2 DEF Answers, AnswerUnit, SrcConn, Header, Data, Unit, MaxSize
  <2>4. Relayed(j)'
    BY <1>8, <1>11, <1>13 DEF Relayed, IsDataOf, MaxSize, Data, Unit
  <2>. QED
    BY <2>1, <2>2, <2>3, <2>4 DEF SourceInv
<1>18. TargetInv'
  <2>1. Commands(j)' /\ Untouched(j)' /\ Writing(j)' /\ Frames(j)' /\ Stored(j)'
    <3>1. IsChunk(j, c, k, k, Len(relayed[j])) /\ out'[j] = c
      BY <1>12, <1>13 DEF len
    <3>2. /\ wpc'[j] = "relay" /\ Len(relayed'[j]) = Len(relayed[j]) + k
          /\ up'[TgtConn(j)] = up[TgtConn(j)] /\ result'[j] = result[j]
      BY <1>2, <1>8, <1>13 DEF len
    <3>. QED
      BY <1>2, <3>1, <3>2, MoreFrame
  <2>2. ASSUME NEW i \in Jobs, i # j
        PROVE  Commands(i)' /\ Untouched(i)' /\ Writing(i)' /\ Frames(i)' /\ Stored(i)'
    BY <1>2, <1>13, <2>2, WorkerFrame DEF IInv
  <2>. QED
    BY <2>1, <2>2 DEF TargetInv
<1>. QED
  BY <1>14, <1>15, <1>16, <1>17, <1>18 DEF IInv
-----------------------------------------------------------------------------
(***************************************************************************)
(* ... and the steps of the clients.                                       *)
(***************************************************************************)
\* The connection a client serves, and the job it belongs to
LEMMA ServingFacts ==
  ASSUME IInv, NEW cl \in Clients, serving[cl] # None
  PROVE  /\ serving[cl] \in Conns /\ Server(serving[cl]) = cl /\ cl \in alive
         /\ \E j \in Jobs : \/ serving[cl] = SrcConn(j) /\ Source[j] = cl
                            \/ serving[cl] = TgtConn(j) /\ Target[j] = cl
<1>1. serving[cl] \in Conns /\ Server(serving[cl]) = cl /\ cl \in alive
  BY DEF IInv, TypeOK, Sessions
<1>2. \E j \in Jobs : serving[cl] = SrcConn(j) \/ serving[cl] = TgtConn(j)
  BY <1>1, ConnFacts
<1>. QED
  BY <1>1, <1>2, ConnFacts

\* Accept
LEMMA AcceptIInv ==
  ASSUME IInv, NEW cl \in Clients, Accept(cl)
  PROVE  IInv'
<1>. USE DEF wvars, disk
<1>1. /\ hpc[cl] = "accept" /\ backlog[cl] # <<>>
      /\ serving' = [serving EXCEPT ![cl] = Head(backlog[cl])]
      /\ backlog' = [backlog EXCEPT ![cl] = Tail(@)]
      /\ hpc' = [hpc EXCEPT ![cl] = "command"]
      /\ UNCHANGED <<wvars, up, down, wclosed, sclosed, alive, reply, need,
                     current_fd, disk>>
  BY DEF Accept, Handle
<1>2. /\ backlog[cl] \in Seq(Conns) /\ Len(backlog[cl]) \in Nat \ {0}
      /\ Head(backlog[cl]) = backlog[cl][1] /\ Head(backlog[cl]) \in Conns
      /\ Tail(backlog[cl]) \in Seq(Conns)
      /\ Len(Tail(backlog[cl])) = Len(backlog[cl]) - 1
      /\ \A i \in 1..(Len(backlog[cl]) - 1) : Tail(backlog[cl])[i] = backlog[cl][i + 1]
  BY <1>1, TailIndices DEF IInv, TypeOK
<1>3. /\ serving[cl] = None /\ reply[cl] = <<>>
      /\ \A i \in 1..Len(backlog[cl]) : Server(backlog[cl][i]) = cl
  BY <1>1 DEF IInv, Sessions
<1>4. /\ \A d \in Clients : serving'[d] = IF d = cl THEN Head(backlog[cl]) ELSE serving[d]
      /\ \A d \in Clients : hpc'[d] = IF d = cl THEN "command" ELSE hpc[d]
      /\ \A d \in Clients : backlog'[d] = IF d = cl THEN Tail(backlog[cl]) ELSE backlog[d]
  BY <1>1 DEF IInv, TypeOK
<1>5. TypeOK'
  <2>1. backlog' \in [Clients -> Seq(Conns)] /\ serving' \in [Clients -> Conns \cup {None}]
    BY <1>1, <1>2 DEF IInv, TypeOK
  <2>. QED
    BY <1>1, <2>1 DEF IInv, TypeOK, Conns, Units
<1>6. Sessions'
  <2>1. Server(Head(backlog[cl])) = cl /\ Head(backlog[cl]) # None
    BY <1>2, <1>3, ConnFacts
  <2>2. \A i \in 1..Len(Tail(backlog[cl])) : Server(Tail(backlog[cl])[i]) = cl
    <3>1. \A i \in 1..(Len(backlog[cl]) - 1) : i + 1 \in 1..Len(backlog[cl])
      BY <1>2
    <3>. QED
      BY <1>2, <1>3, <3>1
  <2>3. \A d : Server(d)' = Server(d)
    BY DEF Server
  <2>. QED
    BY <1>1, <1>3, <1>4, <2>1, <2>2, <2>3 DEF IInv, Sessions
<1>7. Closing' /\ Results'
  BY <1>1, ResultsKept DEF IInv, Closing, SrcConn, TgtConn
<1>8. SourceInv'
  <2>1. ASSUME NEW j \in Jobs PROVE Requests(j)' /\ Answers(j)' /\ Relayed(j)'
    <3>1. Source[j] = cl => reply'[Source[j]] = <<>>
      BY <1>1, <1>3
    <3>2. Source[j] # cl => serving'[Source[j]] = serving[Source[j]]
      BY <1>4, ConnFacts
    <3>. QED
      BY <1>1, <3>1, <3>2, SourceFrame DEF IInv
  <2>. QED
    BY <2>1 DEF SourceInv
<1>9. TargetInv'
  <2>1. ASSUME NEW j \in Jobs
        PROVE  Commands(j)' /\ Untouched(j)' /\ Writing(j)' /\ Frames(j)' /\ Stored(j)'
    <3>1. Opened(j) /\ Target[j] \in alive => Target[j] # cl
      BY <1>3, ConnFacts, InvOf DEF IInv, Writing
    <3>. QED
      BY <1>1, <1>4, <3>1, ConnFacts, ClientFrame DEF IInv
  <2>. QED
    BY <2>1 DEF TargetInv
<1>. QED
  BY <1>5, <1>6, <1>7, <1>8, <1>9 DEF IInv

\* A target that has read everything its worker sent
LEMMA ReadAll ==
  ASSUME IInv, NEW j \in Jobs, EndOf(up, TgtConn(j), wclosed)
  PROVE  Len(Pending(j)) = 0 /\ wpc[j] \in Ended /\ ~Opened(j)
<1>1. up[TgtConn(j)] = <<>> /\ wpc[j] \in Ended
  BY DEF EndOf, IInv, Closing
<1>2. out[j] = <<>>
  BY <1>1 DEF IInv, Results, ResultOf, Ended
<1>3. Len(Pending(j)) = 0
  <2>1. Len(up[TgtConn(j)]) = 0 /\ Len(out[j]) = 0
    BY <1>1, <1>2, EmptySeq
  <2>2. Len(Pending(j)) = Len(up[TgtConn(j)]) + Len(out[j])
    BY PendingFacts DEF IInv
  <2>. QED
    BY <2>1, <2>2
<1>. QED
  BY <1>1, <1>3 DEF Opened, Ended

\* Disconnect
LEMMA DisconnectIInv ==
  ASSUME IInv, NEW cl \in Clients, Disconnect(cl)
  PROVE  IInv'
<1>. USE DEF wvars, disk
<1>1. /\ hpc[cl] = "command" /\ EndOf(up, serving[cl], wclosed)
      /\ sclosed' = sclosed \cup {serving[cl]}
      /\ serving' = [serving EXCEPT ![cl] = None]
      /\ hpc' = [hpc EXCEPT ![cl] = "accept"]
      /\ UNCHANGED <<wvars, up, down, wclosed, alive, backlog, reply, need,
                     current_fd, disk>>
  BY DEF Disconnect, Handle
<1>2. /\ serving[cl] # None /\ serving[cl] \in Conns /\ serving[cl] \in wclosed
      /\ Server(serving[cl]) = cl /\ reply[cl] = <<>>
  BY <1>1 DEF IInv, TypeOK, Sessions, EndOf
<1>3. /\ \A d \in Clients : serving'[d] = IF d = cl THEN None ELSE serving[d]
      /\ \A d \in Clients : hpc'[d] = IF d = cl THEN "accept" ELSE hpc[d]
  BY <1>1 DEF IInv, TypeOK
<1>4. TypeOK'
  <2>1. sclosed' \subseteq Conns /\ serving' \in [Clients -> Conns \cup {None}]
    BY <1>1, <1>2 DEF IInv, TypeOK
  <2>. QED
    BY <1>1, <2>1 DEF IInv, TypeOK, Conns, Units
<1>5. Sessions'
  BY <1>1, <1>2, <1>3 DEF IInv, Sessions, Server
<1>6. Closing'
  BY <1>1, <1>2 DEF IInv, Closing, SrcConn, TgtConn
<1>7. Results'
  BY <1>1, ResultsKept DEF IInv
<1>8. SourceInv'
  <2>1. ASSUME NEW j \in Jobs PROVE Requests(j)' /\ Answers(j)' /\ Relayed(j)'
    <3>1. serving'[Source[j]] = SrcConn(j) => serving[Source[j]] = SrcConn(j)
      BY <1>3, ConnFacts
    <3>. QED
      BY <1>1, <3>1, SourceFrame DEF IInv
  <2>. QED
    BY <2>1 DEF SourceInv
<1>9. TargetInv'
  <2>1. ASSUME NEW j \in Jobs
        PROVE  Commands(j)' /\ Untouched(j)' /\ Writing(j)' /\ Frames(j)' /\ Stored(j)'
    <3>1. Opened(j) /\ Target[j] \in alive => Target[j] # cl
      <4>1. Opened(j) /\ Target[j] \in alive => serving[Target[j]] = TgtConn(j)
        BY InvOf DEF IInv, Writing
      <4>2. ASSUME serving[cl] = TgtConn(j) PROVE ~Opened(j)
        BY <1>1, <4>2, ReadAll
      <4>. QED
        BY <4>1, <4>2
    <3>. QED
      BY <1>1, <1>3, <3>1, ConnFacts, ClientFrame DEF IInv
  <2>. QED
    BY <2>1 DEF TargetInv
<1>. QED
  BY <1>4, <1>5, <1>6, <1>7, <1>8, <1>9 DEF IInv

\* PullLost
LEMMA PullLostIInv ==
  ASSUME IInv, NEW cl \in Clients, PullLost(cl)
  PROVE  IInv'
<1>. USE DEF wvars, disk
<1>1. PICK rest \in {<<>>, Tail(reply[cl])} : reply' = [reply EXCEPT ![cl] = rest]
  BY DEF PullLost
<1>2. /\ hpc[cl] = "pulling" /\ reply[cl] # <<>> /\ serving[cl] \in wclosed
      /\ UNCHANGED <<wvars, up, down, wclosed, sclosed, alive, backlog, serving,
                     hpc, need, current_fd, disk>>
  BY DEF PullLost
<1>3. rest \in Seq(Units)
  <2>1. <<>> \in Seq(Units)
    BY EmptySeq
  <2>2. Tail(reply[cl]) \in Seq(Units)
    BY <1>2, TailIndices DEF IInv, TypeOK
  <2>. QED
    BY <2>1, <2>2
<1>4. \A d \in Clients : d # cl => reply'[d] = reply[d]
  BY <1>1 DEF IInv, TypeOK
<1>5. TypeOK'
  <2>1. reply' \in [Clients -> Seq(Units)]
    BY <1>1, <1>3 DEF IInv, TypeOK
  <2>. QED
    BY <1>2, <2>1 DEF IInv, TypeOK, Conns, Units
<1>6. Sessions'
  BY <1>2, <1>4 DEF IInv, Sessions, Server
<1>7. Closing' /\ Results'
  BY <1>2, ResultsKept DEF IInv, Closing, SrcConn, TgtConn
<1>8. SourceInv'
  <2>1. ASSUME NEW j \in Jobs PROVE Requests(j)' /\ Answers(j)' /\ Relayed(j)'
    <3>1. ASSUME serving[Source[j]] = SrcConn(j)
          PROVE  \/ reply'[Source[j]] = reply[Source[j]]
                 \/ reply[Source[j]] # <<>> /\ wpc'[j] \in Ended
      <4>1. CASE Source[j] = cl
        BY <1>2, <3>1, <4>1 DEF IInv, Closing
      <4>2. CASE Source[j] # cl
        BY <1>4, <4>2, ConnFacts
      <4>. QED
        BY <4>1, <4>2
    <3>. QED
      BY <1>2, <3>1, SourceFrame DEF IInv
  <2>. QED
    BY <2>1 DEF SourceInv
<1>9. TargetInv'
  <2>1. ASSUME NEW j \in Jobs
        PROVE  Commands(j)' /\ Untouched(j)' /\ Writing(j)' /\ Frames(j)' /\ Stored(j)'
    BY <1>2, ClientFrame DEF IInv
  <2>. QED
    BY <2>1 DEF TargetInv
<1>. QED
  BY <1>5, <1>6, <1>7, <1>8, <1>9 DEF IInv

\* PullDone and PushCut: the handler returns to handle_client_connection
LEMMA HandlerEndsIInv ==
  ASSUME IInv, NEW cl \in Clients, PullDone(cl) \/ PushCut(cl)
  PROVE  IInv'
<1>. USE DEF wvars, disk
<1>1. /\ hpc[cl] \in {"pulling", "pushing"} /\ hpc' = [hpc EXCEPT ![cl] = "command"]
      /\ UNCHANGED <<wvars, up, down, wclosed, sclosed, alive, backlog, serving,
                     reply, need, current_fd, disk>>
  BY DEF PullDone, PushCut, Handle
<1>2. reply[cl] = <<>>
  BY <1>1 DEF PullDone, PushCut, IInv, Sessions
<1>3. \A d \in Clients : hpc'[d] = IF d = cl THEN "command" ELSE hpc[d]
  BY <1>1 DEF IInv, TypeOK
<1>4. TypeOK'
  BY <1>1 DEF IInv, TypeOK, Conns, Units
<1>5. Sessions'
  BY <1>1, <1>2, <1>3 DEF IInv, Sessions, Server
<1>6. Closing' /\ Results'
  BY <1>1, ResultsKept DEF IInv, Closing, SrcConn, TgtConn
<1>7. SourceInv'
  <2>1. ASSUME NEW j \in Jobs PROVE Requests(j)' /\ Answers(j)' /\ Relayed(j)'
    BY <1>1, SourceFrame DEF IInv
  <2>. QED
    BY <2>1 DEF SourceInv
<1>8. TargetInv'
  <2>1. ASSUME NEW j \in Jobs
        PROVE  Commands(j)' /\ Untouched(j)' /\ Writing(j)' /\ Frames(j)' /\ Stored(j)'
    <3>1. ASSUME Opened(j), Target[j] \in alive, hpc[Target[j]] = "pushing" PROVE Target[j] # cl
      <4>1. serving[Target[j]] = TgtConn(j)
        BY <3>1, InvOf DEF IInv, Writing
      <4>2. ASSUME Target[j] = cl PROVE FALSE
        <5>1. EndOf(up, TgtConn(j), wclosed)
          BY <3>1, <4>1, <4>2 DEF PushCut, PullDone
        <5>. QED
          BY <3>1, <5>1, ReadAll
      <4>. QED
        BY <4>2
    <3>2. Opened(j) /\ Target[j] \in alive =>
            (hpc'[Target[j]] = "pushing" <=> hpc[Target[j]] = "pushing")
      BY <1>3, <3>1, ConnFacts
    <3>. QED
      BY <1>1, <1>3, <3>2, ConnFacts, ClientFrame DEF IInv
  <2>. QED
    BY <2>1 DEF TargetInv
<1>. QED
  BY <1>4, <1>5, <1>6, <1>7, <1>8 DEF IInv

\* Killed and BrokenPipe
LEMMA DiesIInv ==
  ASSUME IInv, NEW cl \in Clients, Dies(cl)
  PROVE  IInv'
<1>. USE DEF wvars, disk
<1>1. /\ alive' = alive \ {cl}
      /\ sclosed' = sclosed \cup {c \in Conns : Server(c) = cl}
      /\ serving' = [serving EXCEPT ![cl] = None]
      /\ reply' = [reply EXCEPT ![cl] = <<>>]
      /\ hpc' = [hpc EXCEPT ![cl] = "dead"]
      /\ UNCHANGED <<wvars, up, down, wclosed, backlog, need, current_fd, disk>>
  BY DEF Dies, Handle
<1>2. /\ \A d \in Clients : serving'[d] = IF d = cl THEN None ELSE serving[d]
      /\ \A d \in Clients : hpc'[d] = IF d = cl THEN "dead" ELSE hpc[d]
      /\ \A d \in Clients : reply'[d] = IF d = cl THEN <<>> ELSE reply[d]
      /\ reply' \in [Clients -> Seq(Units)]
  BY <1>1, EmptySeq DEF IInv, TypeOK
<1>3. TypeOK'
  <2>1. sclosed' \subseteq Conns /\ serving' \in [Clients -> Conns \cup {None}]
        /\ alive' \subseteq Clients
    BY <1>1 DEF IInv, TypeOK
  <2>. QED
    BY <1>1, <1>2, <2>1 DEF IInv, TypeOK, Conns, Units
<1>4. Sessions'
  BY <1>1, <1>2 DEF IInv, Sessions, Server
<1>5. Closing'
  <2>1. ASSUME NEW j \in Jobs
        PROVE  /\ SrcConn(j) \in sclosed' => SrcConn(j) \in sclosed \/ Source[j] = cl
               /\ TgtConn(j) \in sclosed' => TgtConn(j) \in sclosed \/ Target[j] = cl
    BY <1>1, ConnFacts
  <2>. QED
    BY <1>1, <2>1 DEF IInv, Closing, SrcConn, TgtConn
<1>6. Results'
  BY <1>1, ResultsKept DEF IInv
<1>7. SourceInv'
  <2>1. ASSUME NEW j \in Jobs PROVE Requests(j)' /\ Answers(j)' /\ Relayed(j)'
    <3>1. serving'[Source[j]] = SrcConn(j) =>
            serving[Source[j]] = SrcConn(j) /\ reply'[Source[j]] = reply[Source[j]]
      BY <1>2, ConnFacts
    <3>. QED
      BY <1>1, <3>1, SourceFrame DEF IInv
  <2>. QED
    BY <2>1 DEF SourceInv
<1>8. TargetInv'
  <2>1. ASSUME NEW j \in Jobs
        PROVE  Commands(j)' /\ Untouched(j)' /\ Writing(j)' /\ Frames(j)' /\ Stored(j)'
    <3>1. Target[j] \in alive' => Target[j] # cl
      BY <1>1
    <3>2. alive' \subseteq alive
      BY <1>1
    <3>. QED
      BY <1>1, <1>2, <3>1, <3>2, ConnFacts, ClientFrame DEF IInv
  <2>. QED
    BY <2>1 DEF TargetInv
<1>. QED
  BY <1>3, <1>4, <1>5, <1>6, <1>7, <1>8 DEF IInv

\* Nothing happens
LEMMA StutterIInv ==
  ASSUME IInv, UNCHANGED vars
  PROVE  IInv'
<1>. USE DEF vars, wvars, cvars, disk
<1>1. TypeOK'
  BY DEF IInv, TypeOK, Conns, Units
<1>2. Sessions' /\ Closing' /\ Results'
  BY ResultsKept DEF IInv, Sessions, Closing, Server, SrcConn, TgtConn
<1>3. ASSUME NEW j \in Jobs PROVE Requests(j)' /\ Answers(j)' /\ Relayed(j)'
  BY SourceFrame DEF IInv
<1>4. ASSUME NEW j \in Jobs
      PROVE  Commands(j)' /\ Untouched(j)' /\ Writing(j)' /\ Frames(j)' /\ Stored(j)'
  BY ClientFrame DEF IInv
<1>. QED
  BY <1>1, <1>2, <1>3, <1>4 DEF IInv, SourceInv, TargetInv

\* PullSends
LEMMA PullSendsIInv ==
  ASSUME IInv, NEW cl \in Clients, PullSends(cl)
  PROVE  IInv'
<1>. USE DEF wvars, disk
<1>. DEFINE c == serving[cl]
            q == down[c]
            r == reply[cl]
            s == Append(q, Head(r))
<1>1. /\ hpc[cl] = "pulling" /\ r # <<>> /\ Len(q) < SockBuf
      /\ down' = [down EXCEPT ![c] = Append(@, Head(r))]
      /\ reply' = [reply EXCEPT ![cl] = Tail(@)]
      /\ UNCHANGED <<wvars, up, wclosed, sclosed, alive, backlog, serving, hpc,
                     need, current_fd, disk>>
  BY DEF PullSends
<1>2. c # None /\ c \in Conns /\ Server(c) = cl
  BY <1>1, ServingFacts DEF IInv, Sessions
<1>3. q \in Seq(Units) /\ r \in Seq(Units) /\ SockBuf \in Nat
  BY <1>2, TransferAssumption DEF IInv, TypeOK
<1>4. /\ Len(r) \in Nat \ {0} /\ Head(r) = r[1] /\ Head(r) \in Units
      /\ Tail(r) \in Seq(Units) /\ Len(Tail(r)) = Len(r) - 1
      /\ \A i \in 1..(Len(r) - 1) : Tail(r)[i] = r[i + 1]
  BY <1>1, <1>3, TailIndices
<1>5. /\ s \in Seq(Units) /\ Len(q) \in Nat /\ Len(s) = Len(q) + 1
      /\ \A i \in 1..Len(q) : s[i] = q[i]
      /\ s[Len(q) + 1] = Head(r)
  BY <1>3, <1>4, AppendIndices
<1>6. /\ down'[c] = s /\ \A d \in Conns : d # c => down'[d] = down[d]
      /\ reply'[cl] = Tail(r) /\ \A d \in Clients : d # cl => reply'[d] = reply[d]
      /\ down' \in [Conns -> Seq(Units)] /\ reply' \in [Clients -> Seq(Units)]
  BY <1>1, <1>2, <1>4, <1>5 DEF IInv, TypeOK
<1>7. TypeOK'
  <2>1. Len(down'[c]) <= SockBuf
    BY <1>1, <1>3, <1>5, <1>6
  <2>2. \A d \in Conns : Len(up'[d]) <= SockBuf /\ Len(down'[d]) <= SockBuf
    BY <1>1, <1>6, <2>1 DEF IInv, TypeOK
  <2>. QED
    BY <1>1, <1>6, <2>2 DEF IInv, TypeOK, Conns, Units
<1>. HIDE DEF q, r, s, c
<1>8. Sessions'
  BY <1>1, <1>6 DEF IInv, Sessions, Server
<1>9. Closing' /\ Results'
  BY <1>1, ResultsKept DEF IInv, Closing, SrcConn, TgtConn
<1>10. ASSUME NEW j \in Jobs, SrcConn(j) = c PROVE Requests(j)' /\ Answers(j)' /\ Relayed(j)'
  <2>0. Source[j] = cl /\ serving[Source[j]] = SrcConn(j) /\ reply[Source[j]] = r
        /\ down[SrcConn(j)] = q
    BY <1>2, <1>10, ConnFacts DEF c, r, q
  <2>1. Requests(j)'
    <3>1. wpc[j] \notin Early /\ up[SrcConn(j)] = <<>>
      BY <1>1, <2>0, InvOf DEF IInv, Requests
    <3>. QED
      BY <1>1, <3>1 DEF Requests, SrcConn, Pull, Unit
  <2>2. Answers(j)'
    <3>. SUFFICES ASSUME wpc[j] \in {"header", "relay"}
                  PROVE  /\ \A i \in 1..Len(s) : AnswerUnit(j, Taken(j) + i, s[i])
                         /\ \A i \in 1..Len(Tail(r)) :
                              AnswerUnit(j, Taken(j) + Len(s) + i, Tail(r)[i])
      <4>1. Taken(j)' = Taken(j)
        BY <1>1 DEF Taken
      <4>2. /\ down'[SrcConn(j)] = s /\ reply'[Source[j]] = Tail(r) /\ wpc'[j] = wpc[j]
        BY <1>1, <1>6, <1>10, <2>0
      <4>. QED
        BY <4>1, <4>2 DEF Answers, AnswerUnit, SrcConn, Header, Data, Unit, MaxSize
    <3>1. /\ \A i \in 1..Len(q) : AnswerUnit(j, Taken(j) + i, q[i])
          /\ \A i \in 1..Len(r) : AnswerUnit(j, Taken(j) + Len(q) + i, r[i])
      BY <2>0, InvOf DEF IInv, Answers
    <3>2. Taken(j) \in Nat
      BY LenProperties DEF IInv, TypeOK, Taken
    <3>3. ASSUME NEW i \in 1..Len(s) PROVE AnswerUnit(j, Taken(j) + i, s[i])
      <4>1. CASE i \in 1..Len(q)
        BY <1>5, <3>1, <4>1
      <4>2. CASE i \notin 1..Len(q)
        <5>1. i = Len(q) + 1 /\ Taken(j) + i = Taken(j) + Len(q) + 1 /\ 1 \in 1..Len(r)
          BY <1>4, <1>5, <3>2, <4>2
        <5>2. AnswerUnit(j, Taken(j) + Len(q) + 1, r[1])
          BY <3>1, <5>1
        <5>. QED
          BY <1>4, <1>5, <5>1, <5>2
      <4>. QED
        BY <4>1, <4>2
    <3>4. ASSUME NEW i \in 1..Len(Tail(r))
          PROVE  AnswerUnit(j, Taken(j) + Len(s) + i, Tail(r)[i])
      <4>1. /\ i \in 1..(Len(r) - 1) /\ i + 1 \in 1..Len(r)
            /\ Taken(j) + Len(s) + i = Taken(j) + Len(q) + (i + 1)
        <5>1. Len(r) \in Nat /\ Len(Tail(r)) = Len(r) - 1 /\ Len(q) \in Nat
              /\ Len(s) = Len(q) + 1
          BY <1>4, <1>5
        <5>. QED
          BY <3>2, <5>1
      <4>2. AnswerUnit(j, Taken(j) + Len(q) + (i + 1), r[i + 1])
        BY <3>1, <4>1
      <4>. QED
        BY <1>4, <4>1, <4>2
    <3>. QED
      BY <3>3, <3>4
  <2>3. Relayed(j)'
    BY <1>1, InvOf DEF IInv, Relayed, IsDataOf, MaxSize, Data, Unit
  <2>. QED
    BY <2>1, <2>2, <2>3
<1>11. ASSUME NEW j \in Jobs, SrcConn(j) # c PROVE Requests(j)' /\ Answers(j)' /\ Relayed(j)'
  <2>1. down'[SrcConn(j)] = down[SrcConn(j)]
    BY <1>6, <1>11, ConnFacts
  <2>2. serving[Source[j]] = SrcConn(j) => reply'[Source[j]] = reply[Source[j]]
    BY <1>6, <1>11, ConnFacts DEF c
  <2>. QED
    BY <1>1, <2>1, <2>2, SourceFrame DEF IInv
<1>12. SourceInv'
  BY <1>10, <1>11 DEF SourceInv
<1>13. TargetInv'
  <2>1. ASSUME NEW j \in Jobs
        PROVE  Commands(j)' /\ Untouched(j)' /\ Writing(j)' /\ Frames(j)' /\ Stored(j)'
    BY <1>1, ClientFrame DEF IInv
  <2>. QED
    BY <2>1 DEF TargetInv
<1>. QED
  BY <1>7, <1>8, <1>9, <1>12, <1>13 DEF IInv

\* What a client has for a command comes from the connection it serves, which
\* is the source's for PULL and the target's for PUSH and for data
LEMMA CommandFacts ==
  ASSUME IInv, NEW cl \in Clients, NEW cmd, NEW hits, RecvCommand(cl, cmd, hits)
  PROVE  /\ hpc[cl] = "command" /\ cl \in alive /\ reply[cl] = <<>> /\ serving[cl] # None
         /\ up[serving[cl]] \in Seq(Units) /\ Len(up[serving[cl]]) \in Nat \ {0}
         /\ cmd = up[serving[cl]][1]
         /\ \E k \in 1..Len(up[serving[cl]]) :
              /\ up' = [up EXCEPT ![serving[cl]] = Rest(@, k)]
              /\ k = 1 \/ <<"spoilt", serving[cl][1]>> \in harm'
         /\ harm \cup hits \subseteq harm'
         /\ harm' \subseteq harm \cup hits \cup {<<"spoilt", serving[cl][1]>>}
<1>. DEFINE c == serving[cl]
            q == up[c]
<1>1. hpc[cl] = "command" /\ q # <<>> /\ cmd = Head(q)
  BY DEF RecvCommand
<1>2. serving[cl] # None /\ reply[cl] = <<>>
  BY <1>1 DEF IInv, Sessions
<1>3. /\ c \in Conns /\ cl \in alive
      /\ \E j \in Jobs : \/ c = SrcConn(j) /\ Source[j] = cl
                         \/ c = TgtConn(j) /\ Target[j] = cl
  BY <1>2, ServingFacts, Zenon
<1>4. q \in Seq(Units) /\ BufSize \in Nat
  BY <1>3, TransferAssumption DEF IInv, TypeOK
<1>5. Len(q) \in Nat \ {0} /\ Head(q) = q[1] /\ 1 \in 1..Len(q)
  BY <1>1, <1>4, TailIndices
<1>6. /\ \E k \in 1..Len(q) : /\ up' = [up EXCEPT ![c] = Rest(@, k)]
                              /\ k = 1 \/ <<"spoilt", c[1]>> \in harm'
      /\ harm \cup hits \subseteq harm'
      /\ harm' \subseteq harm \cup hits \cup {<<"spoilt", c[1]>>}
  <2>1. PICK k \in IF "coalesce" \in Faults THEN Received(q, BufSize) ELSE {1} :
          /\ up' = [up EXCEPT ![c] = Rest(@, k)]
          /\ harm' = harm \cup hits \cup (IF k = 1 THEN {} ELSE {<<"spoilt", c[1]>>})
    BY DEF RecvCommand
  <2>2. k \in 1..Len(q)
    BY <1>4, <1>5, <2>1, ReceivedFacts
  <2>. QED
    BY <2>1, <2>2
<1>. QED
  BY <1>1, <1>2, <1>3, <1>4, <1>5, <1>6

\* The job it belongs to
LEMMA CommandOrigin ==
  ASSUME IInv, NEW cl \in Clients, NEW cmd, NEW hits, RecvCommand(cl, cmd, hits)
  PROVE  \E j \in Jobs :
           \/ /\ serving[cl] = SrcConn(j) /\ Source[j] = cl
              /\ up[serving[cl]] = <<Pull(j)>> /\ cmd = Pull(j)
           \/ /\ serving[cl] = TgtConn(j) /\ Target[j] = cl
              /\ cmd.op \in {"PUSH", "DATA"} /\ cmd.file = j
<1>. DEFINE c == serving[cl]
            q == up[c]
<1>1. q # <<>> /\ cmd = Head(q) /\ cmd = q[1] /\ Len(q) \in Nat \ {0} /\ c # None
  <2>1. q # <<>> /\ cmd = Head(q)
    BY DEF RecvCommand
  <2>2. cmd = q[1] /\ Len(q) \in Nat \ {0} /\ c # None
    BY CommandFacts
  <2>. QED
    BY <2>1, <2>2
<1>3. \E j \in Jobs : \/ c = SrcConn(j) /\ Source[j] = cl
                      \/ c = TgtConn(j) /\ Target[j] = cl
  BY <1>1, ServingFacts, Zenon
<1>7. ASSUME NEW j \in Jobs, c = SrcConn(j), Source[j] = cl
      PROVE  q = <<Pull(j)>> /\ cmd = Pull(j)
  <2>1. q = <<Pull(j)>>
    BY <1>1, <1>7, InvOf DEF IInv, Requests
  <2>. QED
    BY <1>1, <2>1
<1>8. ASSUME NEW j \in Jobs, c = TgtConn(j), Target[j] = cl
      PROVE  cmd.op \in {"PUSH", "DATA"} /\ cmd.file = j
  <2>1. /\ Len(up[TgtConn(j)]) \in Nat /\ Len(out[j]) \in Nat
        /\ Len(Pending(j)) = Len(up[TgtConn(j)]) + Len(out[j])
        /\ \A i \in 1..Len(up[TgtConn(j)]) : Pending(j)[i] = up[TgtConn(j)][i]
    BY PendingFacts DEF IInv
  <2>2. Len(q) = Len(up[TgtConn(j)]) /\ q[1] = up[TgtConn(j)][1]
    BY <1>8
  <2>. HIDE DEF q, c
  <2>3. 1 \in 1..Len(Pending(j)) /\ Pending(j)[1] = q[1]
    <3>1. Len(q) \in Nat \ {0} /\ Len(out[j]) \in Nat /\ Len(Pending(j)) = Len(q) + Len(out[j])
      BY <1>1, <2>1, <2>2
    <3>2. 1 \in 1..Len(Pending(j)) /\ 1 \in 1..Len(q)
      BY <3>1
    <3>. QED
      BY <2>1, <2>2, <3>2
  <2>4. Pending(j)[1].op \in {"PUSH", "DATA"} /\ Pending(j)[1].file = j
    BY <2>3, InvOf DEF IInv, Commands
  <2>. QED
    BY <1>1, <2>3, <2>4
<1>. QED
  BY <1>3, <1>7, <1>8

\* What handle_pull_command sends is an answer
LEMMA ReplyFacts ==
  ASSUME NEW j \in Jobs, NEW r,
         \/ \E n \in Lengths(j) : r = PullReply(j, n)
         \/ r = Refused(j)
  PROVE  r \in Seq(Units) /\ \A i \in 1..Len(r) : AnswerUnit(j, i, r[i])
<1>1. CASE r = Refused(j)
  <2>1. Header(j, -1) \in Units
    BY UnitFacts
  <2>2. r \in Seq(Units) /\ Len(r) = 1 /\ r[1] = Header(j, -1)
    BY <1>1, <2>1 DEF Refused
  <2>3. \A i \in 1..1 : i = 1
    OBVIOUS
  <2>. QED
    BY <2>2, <2>3 DEF AnswerUnit
<1>2. ASSUME NEW n \in Lengths(j), r = PullReply(j, n)
      PROVE  r \in Seq(Units) /\ \A i \in 1..Len(r) : AnswerUnit(j, i, r[i])
  <2>. DEFINE a == <<Header(j, Size[j])>>
              b == First(Content(j), n)
  <2>1. n \in 0..MaxSize(j) /\ n \in Nat /\ MaxSize(j) \in Nat
    BY SizeFacts DEF Lengths
  <2>2. a \in Seq(Units) /\ Len(a) = 1 /\ a[1] = Header(j, Size[j])
    <3>1. Header(j, Size[j]) \in Units
      BY UnitFacts, SizeFacts
    <3>. QED
      BY <3>1
  <2>3. b \in Seq(Units) /\ Len(b) = n /\ \A i \in 1..n : b[i] = Content(j)[i]
    BY <2>1, SizeFacts, FirstIndices DEF First
  <2>4. r = a \o b
    BY <1>2 DEF PullReply
  <2>. HIDE DEF a, b
  <2>5. /\ r \in Seq(Units) /\ Len(r) = Len(a) + Len(b)
        /\ \A i \in 1..Len(a) : r[i] = a[i]
        /\ \A i \in 1..Len(b) : r[Len(a) + i] = b[i]
    BY <2>2, <2>3, <2>4, Joined, Zenon
  <2>6. ASSUME NEW i \in 1..Len(r) PROVE AnswerUnit(j, i, r[i])
    <3>1. CASE i = 1
      BY <2>2, <2>5, <3>1 DEF AnswerUnit
    <3>2. CASE i # 1
      <4>1. i - 1 \in 1..n /\ 1 + (i - 1) = i /\ i - 1 \in 1..MaxSize(j) /\ i - 1 <= MaxSize(j)
        BY <2>1, <2>2, <2>3, <2>5, <3>2
      <4>2. r[i] = Data(j, i - 1)
        <5>1. r[1 + (i - 1)] = b[i - 1]
          BY <2>2, <2>3, <2>5, <4>1
        <5>2. b[i - 1] = Data(j, i - 1)
          BY <2>3, <4>1, SizeFacts
        <5>. QED
          BY <4>1, <5>1, <5>2
      <4>. QED
        BY <3>2, <4>1, <4>2 DEF AnswerUnit
    <3>. QED
      BY <3>1, <3>2
  <2>. QED
    BY <2>5, <2>6
<1>. QED
  BY <1>1, <1>2

\* HandlePull
LEMMA HandlePullIInv ==
  ASSUME IInv, NEW cl \in Clients, HandlePull(cl)
  PROVE  IInv'
<1>. USE DEF wvars, disk
<1>1. PICK j \in Jobs :
        /\ \E hits \in SUBSET {<<"shrink", j>>} : RecvCommand(cl, Pull(j), hits)
        /\ \E r : /\ reply' = [reply EXCEPT ![cl] = r]
                  /\ (\E n \in Lengths(j) : r = PullReply(j, n)) \/ r = Refused(j)
  <2>1. PICK j \in Jobs :
          \/ \E n \in Lengths(j) :
               /\ RecvCommand(cl, Pull(j), IF n < Size[j] THEN {<<"shrink", j>>} ELSE {})
               /\ reply' = [reply EXCEPT ![cl] = PullReply(j, n)]
          \/ RecvCommand(cl, Pull(j), {}) /\ reply' = [reply EXCEPT ![cl] = Refused(j)]
    BY DEF HandlePull
  <2>2. \A n : (IF n < Size[j] THEN {<<"shrink", j>>} ELSE {}) \in SUBSET {<<"shrink", j>>}
    OBVIOUS
  <2>3. {} \in SUBSET {<<"shrink", j>>}
    OBVIOUS
  <2>. QED
    BY <2>1, <2>2, <2>3, Zenon
<1>0. PICK hits \in SUBSET {<<"shrink", j>>} : RecvCommand(cl, Pull(j), hits)
  BY <1>1
<1>2. PICK r : /\ reply' = [reply EXCEPT ![cl] = r]
               /\ (\E n \in Lengths(j) : r = PullReply(j, n)) \/ r = Refused(j)
  BY <1>1
<1>3. /\ hpc' = [hpc EXCEPT ![cl] = "pulling"]
      /\ UNCHANGED <<wvars, down, wclosed, sclosed, alive, backlog, serving,
                     need, current_fd, stored>>
  BY <1>0 DEF HandlePull, Handle, RecvCommand
<1>4. r \in Seq(Units) /\ \A i \in 1..Len(r) : AnswerUnit(j, i, r[i])
  BY <1>2, ReplyFacts
<1>5. /\ hpc[cl] = "command" /\ cl \in alive /\ serving[cl] # None
      /\ serving[cl] = SrcConn(j) /\ Source[j] = cl /\ up[SrcConn(j)] = <<Pull(j)>>
  <2>1. hpc[cl] = "command" /\ cl \in alive /\ serving[cl] # None
    BY <1>0, CommandFacts
  <2>2. \E i \in Jobs :
              \/ /\ serving[cl] = SrcConn(i) /\ Source[i] = cl
                 /\ up[serving[cl]] = <<Pull(i)>> /\ Pull(j) = Pull(i)
              \/ /\ serving[cl] = TgtConn(i) /\ Target[i] = cl
                 /\ Pull(j).op \in {"PUSH", "DATA"} /\ Pull(j).file = i
    BY <1>0, CommandOrigin
  <2>. QED
    BY <2>1, <2>2, UnitFacts
<1>6. up' = [up EXCEPT ![SrcConn(j)] = <<>>]
  <2>1. PICK k \in 1..Len(up[SrcConn(j)]) : up' = [up EXCEPT ![SrcConn(j)] = Rest(@, k)]
    <3>1. \E k \in 1..Len(up[serving[cl]]) :
            /\ up' = [up EXCEPT ![serving[cl]] = Rest(@, k)]
            /\ k = 1 \/ <<"spoilt", serving[cl][1]>> \in harm'
      BY <1>0, CommandFacts
    <3>. QED
      BY <1>5, <3>1
  <2>2. Len(<<Pull(j)>>) = 1 /\ <<Pull(j)>> \in Seq(Units)
    BY UnitFacts
  <2>3. k = 1
    BY <1>5, <2>1, <2>2
  <2>4. Rest(<<Pull(j)>>, 1) = <<>>
    <3>1. 1 \in 0..Len(<<Pull(j)>>) /\ Len(<<Pull(j)>>) - 1 = 0
      BY <2>2
    <3>2. Rest(<<Pull(j)>>, 1) \in Seq(Units) /\ Len(Rest(<<Pull(j)>>, 1)) = 0
      BY <2>2, <3>1, RestIndices DEF Rest
    <3>. QED
      BY <3>2, EmptySeq
  <2>. QED
    BY <1>5, <2>1, <2>3, <2>4
<1>14. harm \subseteq harm' /\ harm' \subseteq harm \cup {<<"shrink", j>>, <<"spoilt", j>>}
  <2>1. harm \cup hits \subseteq harm' /\ harm' \subseteq harm \cup hits \cup {<<"spoilt", serving[cl][1]>>}
    BY <1>0, CommandFacts
  <2>2. serving[cl][1] = j
    BY <1>5 DEF SrcConn
  <2>. QED
    BY <2>1, <2>2
<1>7. SrcConn(j) \in Conns /\ <<>> \in Seq(Units) /\ Len(<<>>) = 0 /\ SockBuf \in Nat
  BY ConnFacts, EmptySeq, TransferAssumption
<1>8. /\ up'[SrcConn(j)] = <<>> /\ \A c \in Conns : c # SrcConn(j) => up'[c] = up[c]
      /\ up' \in [Conns -> Seq(Units)]
      /\ \A d \in Clients : hpc'[d] = IF d = cl THEN "pulling" ELSE hpc[d]
      /\ reply'[cl] = r /\ \A d \in Clients : d # cl => reply'[d] = reply[d]
      /\ reply' \in [Clients -> Seq(Units)]
  BY <1>2, <1>3, <1>4, <1>6, <1>7 DEF IInv, TypeOK
<1>9. TypeOK'
  <2>1. Len(up'[SrcConn(j)]) <= SockBuf
    BY <1>7, <1>8
  <2>2. \A c \in Conns : Len(up'[c]) <= SockBuf /\ Len(down'[c]) <= SockBuf
    BY <1>3, <1>8, <2>1 DEF IInv, TypeOK
  <2>3. harm' \subseteq {"shrink", "nowrite", "full", "signal", "spoilt"} \X Jobs
    BY <1>14 DEF IInv, TypeOK
  <2>. QED
    BY <1>3, <1>8, <2>2, <2>3 DEF IInv, TypeOK, Conns, Units
<1>10. Sessions'
  BY <1>3, <1>5, <1>8 DEF IInv, Sessions, Server
<1>11. Closing' /\ Results'
  BY <1>3, <1>14, ResultsKept DEF IInv, Closing, SrcConn, TgtConn
<1>12. SourceInv'
  <2>1. ASSUME NEW i \in Jobs, i # j PROVE Requests(i)' /\ Answers(i)' /\ Relayed(i)'
    <3>1. up'[SrcConn(i)] = up[SrcConn(i)]
      BY <1>8, <2>1, ConnFacts
    <3>2. serving[Source[i]] = SrcConn(i) => reply'[Source[i]] = reply[Source[i]]
      BY <1>5, <1>8, <2>1, ConnFacts
    <3>. QED
      BY <1>3, <3>1, <3>2, SourceFrame DEF IInv
  <2>2. wpc[j] \notin Early \cup {"relay", "eof"} /\ down[SrcConn(j)] = <<>>
    <3>1. up[SrcConn(j)] # <<>>
      BY <1>5
    <3>. QED
      BY <3>1, InvOf DEF IInv, Requests
  <2>3. Requests(j)'
    BY <1>3, <1>8, <2>2 DEF Requests, SrcConn, Pull, Unit
  <2>4. Answers(j)'
    <3>1. wpc[j] = "header" => Taken(j)' = 0
      BY <1>3 DEF Taken
    <3>2. \A i \in 1..Len(r) : 0 + 0 + i = i
      BY <1>4, LenProperties
    <3>3. \A i \in 1..Len(r) : AnswerUnit(j, 0 + 0 + i, r[i])
      BY <1>4, <3>2
    <3>4. down'[SrcConn(j)] = <<>> /\ reply'[Source[j]] = r /\ wpc'[j] = wpc[j]
      BY <1>3, <1>5, <1>8, <2>2
    <3>. QED
      BY <1>7, <2>2, <3>1, <3>3, <3>4
         DEF Answers, AnswerUnit, SrcConn, Header, Data, Unit, MaxSize
  <2>5. Relayed(j)'
    BY <1>3, InvOf DEF IInv, Relayed, IsDataOf, MaxSize, Data, Unit
  <2>. QED
    BY <2>1, <2>3, <2>4, <2>5 DEF SourceInv
<1>13. TargetInv'
  <2>1. ASSUME NEW i \in Jobs
        PROVE  Commands(i)' /\ Untouched(i)' /\ Writing(i)' /\ Frames(i)' /\ Stored(i)'
    <3>1. up'[TgtConn(i)] = up[TgtConn(i)]
      BY <1>8, ConnFacts
    <3>2. Opened(i) /\ Target[i] \in alive => Target[i] # cl
      BY <1>5, ConnFacts, InvOf DEF IInv, Writing
    <3>3. serving[Target[i]] = TgtConn(i) => Target[i] # cl
      BY <1>5, ConnFacts
    <3>4. /\ Opened(i) /\ Target[i] \in alive' => hpc'[Target[i]] = hpc[Target[i]]
          /\ serving'[Target[i]] = TgtConn(i) => hpc'[Target[i]] = hpc[Target[i]]
          /\ hpc'[Source[i]] = "pushing" => hpc[Source[i]] = "pushing"
      BY <1>3, <1>8, <3>2, <3>3, ConnFacts
    <3>5. /\ wpc'[i] = wpc[i] /\ result'[i] = result[i] /\ relayed'[i] = relayed[i]
          /\ out'[i] = out[i] /\ stored'[i] = stored[i]
          /\ UNCHANGED <<need, alive, serving, current_fd>>
      BY <1>3
    <3>. QED
      BY <1>14, <3>1, <3>4, <3>5, ClientFrame DEF IInv
  <2>. QED
    BY <2>1 DEF TargetInv
<1>. QED
  BY <1>9, <1>10, <1>11, <1>12, <1>13 DEF IInv

\* A target takes the first k units of what is pending for it
LEMMA PopFacts ==
  ASSUME IInv, NEW j \in Jobs, NEW k \in 1..Len(up[TgtConn(j)]),
         up' = [up EXCEPT ![TgtConn(j)] = Rest(@, k)],
         wpc'[j] = wpc[j], out'[j] = out[j], result'[j] = result[j]
  PROVE  /\ up' \in [Conns -> Seq(Units)]
         /\ \A c \in Conns : Len(up'[c]) <= SockBuf
         /\ \A c \in Conns : c # TgtConn(j) => up'[c] = up[c]
         /\ k \in Nat /\ Len(Pending(j)) \in Nat /\ k \in 1..Len(Pending(j))
         /\ \A i \in 1..k : Pending(j)[i] = up[TgtConn(j)][i]
         /\ Pending(j)' \in Seq(Units) /\ Len(Pending(j)') = Len(Pending(j)) - k
         /\ \A i \in 1..Len(Pending(j)') : Pending(j)'[i] = Pending(j)[k + i]
         /\ Commands(j)' /\ Untouched(j)' /\ ~AtOpen(j)'
         /\ wpc[j] \in {"relay", "eof"} \cup Ended /\ result[j] # "err"
         /\ Opened(j)' => Len(Pending(j)') > 0 \/ wpc[j] \in {"relay", "eof"}
<1>. DEFINE u == up[TgtConn(j)]
            o == out[j]
            P == Pending(j)
            v == Rest(u, k)
            Q == v \o o
<1>1. /\ u \in Seq(Units) /\ o \in Seq(Units) /\ Len(u) \in Nat /\ Len(o) \in Nat
      /\ P \in Seq(Units) /\ Len(P) = Len(u) + Len(o)
      /\ \A i \in 1..Len(u) : P[i] = u[i]
      /\ \A i \in 1..Len(o) : P[Len(u) + i] = o[i]
  BY PendingFacts DEF IInv
<1>2. TgtConn(j) \in Conns /\ SockBuf \in Nat /\ Len(u) <= SockBuf /\ k \in 0..Len(u)
  BY <1>1, ConnFacts, TransferAssumption DEF IInv, TypeOK
<1>3. /\ v \in Seq(Units) /\ Len(v) = Len(u) - k
      /\ \A i \in 1..(Len(u) - k) : v[i] = u[k + i]
  BY <1>1, <1>2, RestIndices DEF Rest
<1>4. /\ up' \in [Conns -> Seq(Units)] /\ up'[TgtConn(j)] = v
      /\ \A c \in Conns : c # TgtConn(j) => up'[c] = up[c]
  BY <1>2, <1>3 DEF IInv, TypeOK
<1>5. Pending(j)' = Q
  BY <1>4 DEF Pending, TgtConn
<1>. HIDE DEF u, o, P, v
<1>6. /\ Q \in Seq(Units) /\ Len(v) \in Nat /\ Len(Q) = Len(v) + Len(o)
      /\ \A i \in 1..Len(v) : Q[i] = v[i]
      /\ \A i \in 1..Len(o) : Q[Len(v) + i] = o[i]
  BY <1>1, <1>3, Joined, Zenon
<1>. HIDE DEF Q
<1>7. /\ k \in Nat /\ k \in 1..Len(u) /\ Len(P) \in Nat /\ k \in 1..Len(P)
      /\ Len(Q) = Len(P) - k /\ Len(v) <= SockBuf
      /\ \A i \in 1..k : i \in 1..Len(u)
  <2>1. k \in 1..Len(u)
    BY DEF u
  <2>. QED
    BY <1>1, <1>2, <1>3, <1>6, <2>1
<1>8. ASSUME NEW i \in 1..Len(Q) PROVE Q[i] = P[k + i]
  <2>1. CASE i \in 1..Len(v)
    <3>1. i \in 1..(Len(u) - k) /\ k + i \in 1..Len(u)
      BY <1>1, <1>3, <1>7, <2>1
    <3>. QED
      BY <1>1, <1>3, <1>6, <2>1, <3>1
  <2>2. CASE i \notin 1..Len(v)
    <3>1. /\ i - Len(v) \in 1..Len(o) /\ Len(v) + (i - Len(v)) = i
          /\ Len(u) + (i - Len(v)) = k + i
      BY <1>1, <1>3, <1>6, <1>7, <2>2
    <3>2. Q[i] = o[i - Len(v)] /\ P[k + i] = o[i - Len(v)]
      BY <1>1, <1>6, <3>1
    <3>. QED
      BY <3>2
  <2>. QED
    BY <2>1, <2>2
<1>9. \A c \in Conns : Len(up'[c]) <= SockBuf
  BY <1>4, <1>7 DEF IInv, TypeOK
<1>10. \A i \in 1..k : P[i] = u[i]
  BY <1>1, <1>7
<1>11. /\ \A i \in 1..Len(Q) : Q[i].op \in {"PUSH", "DATA"} /\ Q[i].file = j
       /\ \A i \in 1..Len(Q) : Q[i] # Push(j, -1)
  <2>1. /\ \A i \in 1..Len(P) : P[i].op \in {"PUSH", "DATA"} /\ P[i].file = j
        /\ \A i \in 2..Len(P) : P[i] # Push(j, -1)
    BY InvOf DEF IInv, Commands, P
  <2>2. \A i \in 1..Len(Q) : k + i \in 1..Len(P) /\ k + i \in 2..Len(P)
    BY <1>7
  <2>. QED
    BY <1>8, <2>1, <2>2
<1>12. Commands(j)'
  <2>1. \A i \in 2..Len(Q) : i \in 1..Len(Q)
    BY <1>7
  <2>. QED
    BY <1>5, <1>11, <2>1 DEF Commands, Push, Unit
<1>13. ~AtOpen(j)'
  <2>1. Len(Q) > 0 => Q[1] # Push(j, -1)
    BY <1>7, <1>11
  <2>. QED
    BY <1>5, <2>1 DEF AtOpen, Push, Unit
<1>14. wpc[j] \in {"relay", "eof"} \cup Ended /\ result[j] # "err"
  <2>1. Len(P) # 0
    BY <1>7
  <2>2. wpc[j] \notin Early \cup {"header"} /\ result[j] # "err"
    BY <2>1, InvOf DEF IInv, Untouched, P
  <2>. QED
    BY <2>2 DEF IInv, TypeOK, Early, Ended
<1>15. Untouched(j)'
  BY <1>13, <1>14 DEF Untouched, Early, Ended
<1>16. Opened(j)' => Len(Pending(j)') > 0 \/ wpc[j] \in {"relay", "eof"}
  BY DEF Opened
<1>. QED
  BY <1>4, <1>5, <1>6, <1>7, <1>8, <1>9, <1>10, <1>12, <1>13, <1>14, <1>15, <1>16 DEF u, P

\* A client takes k units from the connection of target j: what such a step
\* leaves alone, and the types of what it changes
Reading(cl, j, k) ==
  /\ serving[cl] = TgtConn(j) /\ Target[j] = cl
  /\ k \in 1..Len(up[TgtConn(j)])
  /\ up' = [up EXCEPT ![TgtConn(j)] = Rest(@, k)]
  /\ UNCHANGED <<wvars, down, wclosed, sclosed, alive, backlog, serving, reply>>
  /\ hpc[cl] \in {"command", "pushing"} /\ hpc'[cl] \in {"command", "pushing"}
  /\ hpc' \in [Clients -> {"accept", "command", "pulling", "pushing", "dead"}]
  /\ need' \in [Clients -> Nat] /\ current_fd' \in [Clients -> Jobs \cup {None}]
  /\ stored' \in [Jobs -> Seq(Units)]
  /\ harm \subseteq harm' /\ harm' \subseteq Harms
  /\ \A d \in Clients : d # cl =>
       hpc'[d] = hpc[d] /\ need'[d] = need[d] /\ current_fd'[d] = current_fd[d]
  /\ \A i \in Jobs : i # j => stored'[i] = stored[i]
  /\ current_fd'[cl] \in {j, None}
  /\ hpc'[cl] = "pushing" => current_fd'[cl] = j

\* Such a step keeps IInv if the target's file stays in step
LEMMA ReadingIInv ==
  ASSUME IInv, NEW cl \in Clients, NEW j \in Jobs, NEW k, Reading(cl, j, k),
         Frames(j)', Stored(j)'
  PROVE  IInv'
<1>. USE DEF wvars
<1>1. /\ serving[cl] = TgtConn(j) /\ Target[j] = cl
      /\ k \in 1..Len(up[TgtConn(j)])
      /\ up' = [up EXCEPT ![TgtConn(j)] = Rest(@, k)]
      /\ UNCHANGED <<wvars, down, wclosed, sclosed, alive, backlog, serving, reply>>
      /\ hpc[cl] \in {"command", "pushing"} /\ hpc'[cl] \in {"command", "pushing"}
      /\ harm \subseteq harm'
  BY DEF Reading
<1>2. /\ \A d \in Clients : d # cl =>
           hpc'[d] = hpc[d] /\ need'[d] = need[d] /\ current_fd'[d] = current_fd[d]
      /\ \A i \in Jobs : i # j => stored'[i] = stored[i]
      /\ current_fd'[cl] \in {j, None}
      /\ hpc'[cl] = "pushing" => current_fd'[cl] = j
  BY DEF Reading
<1>3. /\ up' \in [Conns -> Seq(Units)]
      /\ \A c \in Conns : Len(up'[c]) <= SockBuf
      /\ \A c \in Conns : c # TgtConn(j) => up'[c] = up[c]
      /\ Commands(j)' /\ Untouched(j)' /\ ~AtOpen(j)'
      /\ wpc[j] \in {"relay", "eof"} \cup Ended /\ result[j] # "err"
  BY <1>1, PopFacts
<1>4. TypeOK'
  <2>1. \A c \in Conns : Len(up'[c]) <= SockBuf /\ Len(down'[c]) <= SockBuf
    BY <1>1, <1>3 DEF IInv, TypeOK
  <2>2. /\ hpc' \in [Clients -> {"accept", "command", "pulling", "pushing", "dead"}]
        /\ need' \in [Clients -> Nat] /\ current_fd' \in [Clients -> Jobs \cup {None}]
        /\ stored' \in [Jobs -> Seq(Units)]
        /\ harm' \subseteq {"shrink", "nowrite", "full", "signal", "spoilt"} \X Jobs
    BY DEF Reading, Harms
  <2>. QED
    BY <1>1, <1>3, <2>1, <2>2 DEF IInv, TypeOK, Conns, Units
<1>5. Sessions'
  BY <1>1, <1>2 DEF IInv, Sessions, Server
<1>6. Closing' /\ Results'
  BY <1>1, ResultsKept DEF IInv, Closing, SrcConn, TgtConn
<1>7. SourceInv'
  <2>1. ASSUME NEW i \in Jobs PROVE Requests(i)' /\ Answers(i)' /\ Relayed(i)'
    <3>1. up'[SrcConn(i)] = up[SrcConn(i)]
      BY <1>3, ConnFacts
    <3>. QED
      BY <1>1, <3>1, SourceFrame DEF IInv
  <2>. QED
    BY <2>1 DEF SourceInv
<1>8. Writing(j)'
  <2>1. Source[j] = cl => serving[cl] # SrcConn(j)
    BY <1>1, ConnFacts
  <2>2. Source[j] # cl => hpc'[Source[j]] = hpc[Source[j]]
    BY <1>2, ConnFacts
  <2>. QED
    BY <1>1, <1>2, <1>3, <2>1, <2>2, InvOf DEF IInv, Writing, SrcConn, TgtConn
<1>9. TargetInv'
  <2>1. ASSUME NEW i \in Jobs, i # j
        PROVE  Commands(i)' /\ Untouched(i)' /\ Writing(i)' /\ Frames(i)' /\ Stored(i)'
    <3>1. up'[TgtConn(i)] = up[TgtConn(i)] /\ stored'[i] = stored[i]
      BY <1>2, <1>3, <2>1, ConnFacts
    <3>2. TgtConn(i) # serving[cl] /\ SrcConn(i) # serving[cl]
      BY <1>1, <2>1, ConnFacts
    <3>3. Opened(i) /\ Target[i] \in alive => Target[i] # cl
      BY <3>2, InvOf DEF IInv, Writing
    <3>4. /\ Opened(i) /\ Target[i] \in alive' =>
               hpc'[Target[i]] = hpc[Target[i]] /\ current_fd'[Target[i]] = current_fd[Target[i]]
               /\ need'[Target[i]] = need[Target[i]]
          /\ serving'[Target[i]] = TgtConn(i) =>
               hpc'[Target[i]] = hpc[Target[i]] /\ current_fd'[Target[i]] = current_fd[Target[i]]
          /\ serving'[Source[i]] = SrcConn(i) => hpc'[Source[i]] = hpc[Source[i]]
      BY <1>1, <1>2, <3>2, <3>3, ConnFacts
    <3>5. /\ wpc'[i] = wpc[i] /\ result'[i] = result[i] /\ relayed'[i] = relayed[i]
          /\ out'[i] = out[i]
          /\ UNCHANGED <<alive, serving>>
      BY <1>1
    <3>. QED
      BY <1>1, <3>1, <3>4, <3>5, ClientFrame DEF IInv
  <2>. QED
    BY <1>3, <1>8, <2>1 DEF TargetInv
<1>. QED
  BY <1>4, <1>5, <1>6, <1>7, <1>9 DEF IInv

\* The file stays in step if what was read is what Reads says of it
LEMMA ReadingFrames ==
  ASSUME IInv, NEW cl \in Clients, NEW j \in Jobs, NEW k, Reading(cl, j, k),
         <<"spoilt", j>> \notin harm' /\ Intact(j)' =>
           /\ Intact(j)
           /\ \A n, m, pos, due :
                Place(j, n, m) /\ Reads(j, Pending(j), pos, due) /\ pos[0] = n /\ due[0] = m =>
                  Place(j, pos[k], due[k])'
  PROVE  Frames(j)'
<1>. SUFFICES ASSUME <<"spoilt", j>> \notin harm', Intact(j)'
              PROVE  \E n, m : /\ Place(j, n, m)'
                               /\ InStep(j, Pending(j)', n, m, wpc'[j] = "relay",
                                         Len(relayed'[j]))
  BY DEF Frames, InStep, Reads, Data, Push, Unit, MaxSize
<1>1. /\ k \in 1..Len(up[TgtConn(j)])
      /\ up' = [up EXCEPT ![TgtConn(j)] = Rest(@, k)]
      /\ wpc'[j] = wpc[j] /\ out'[j] = out[j] /\ result'[j] = result[j]
      /\ relayed'[j] = relayed[j] /\ harm \subseteq harm'
  BY DEF Reading, wvars
<1>2. /\ k \in Nat /\ Len(Pending(j)) \in Nat /\ k \in 1..Len(Pending(j))
      /\ Pending(j)' \in Seq(Units) /\ Len(Pending(j)') = Len(Pending(j)) - k
      /\ \A i \in 1..Len(Pending(j)') : Pending(j)'[i] = Pending(j)[k + i]
  BY <1>1, PopFacts
<1>3. Pending(j) \in Seq(Units)
  BY PendingFacts DEF IInv
<1>. DEFINE all == wpc[j] = "relay"
            len == Len(relayed[j])
            P == Pending(j)
            Q == Pending(j)'
<1>4. PICK n, m : Place(j, n, m) /\ InStep(j, P, n, m, all, len)
  BY <1>1, InvOf DEF IInv, Frames
<1>5. PICK pos, due : /\ Reads(j, P, pos, due) /\ pos[0] = n /\ due[0] = m
                      /\ all => pos[Len(P)] = len /\ due[Len(P)] = 0
  BY <1>4 DEF InStep
<1>6. Place(j, pos[k], due[k])'
  BY <1>4, <1>5
<1>7. k \in 0..Len(P)
  BY <1>2
<1>8. InStep(j, Q, pos[k], due[k], all, len)
  <2>. HIDE DEF P, Q, all, len
  <2>1. /\ P \in Seq(Units) /\ Q \in Seq(Units) /\ Len(Q) = Len(P) - k
        /\ \A i \in 1..Len(Q) : Q[i] = P[k + i]
    BY <1>2, <1>3 DEF P, Q
  <2>. QED
    BY <1>5, <1>7, <2>1, InStepRest
<1>. QED
  BY <1>1, <1>6, <1>8

\* A command is read where no chunk is due ...
LEMMA ReadsCommand ==
  ASSUME NEW j \in Jobs, NEW s, NEW pos, NEW due, Reads(j, s, pos, due),
         Len(s) \in Nat, Len(s) > 0, s[1].op = "PUSH"
  PROVE  /\ due[0] = 0 /\ pos[1] = pos[0] /\ pos[0] \in Nat
         /\ due[1] = IF s[1].n > 0 THEN s[1].n ELSE 0
<1>1. 1 \in 1..Len(s) /\ 1 - 1 = 0 /\ 0 \in 0..Len(s) /\ 0 + 1 = 1
  OBVIOUS
<1>2. due[0] \in Nat /\ pos[0] \in Nat
  BY <1>1 DEF Reads
<1>3. due[0] = 0
  <2>. SUFFICES ASSUME due[0] # 0 PROVE FALSE
    OBVIOUS
  <2>1. 1 \in 1..due[0] /\ 0 + 1 <= Len(s)
    BY <1>2
  <2>2. s[0 + 1] = Data(j, pos[0] + 1)
    BY <1>1, <2>1 DEF Reads
  <2>. QED
    BY <1>1, <2>2, UnitFacts
<1>4. due[1 - 1] = 0
  BY <1>1, <1>3
<1>. QED
  BY <1>1, <1>2, <1>3, <1>4 DEF Reads

\* ... and data where one is
LEMMA ReadsData ==
  ASSUME NEW j \in Jobs, NEW s, NEW pos, NEW due, Reads(j, s, pos, due),
         Len(s) \in Nat, Len(s) > 0, s[1].op = "DATA"
  PROVE  /\ due[0] \in Nat \ {0} /\ pos[0] \in Nat
         /\ pos[1] = pos[0] + 1 /\ due[1] = due[0] - 1
<1>1. 1 \in 1..Len(s) /\ 1 - 1 = 0 /\ 0 \in 0..Len(s) /\ 0 + 1 = 1
  OBVIOUS
<1>2. due[0] \in Nat /\ pos[0] \in Nat
  BY <1>1 DEF Reads
<1>3. due[0] # 0
  <2>. SUFFICES ASSUME due[0] = 0 PROVE FALSE
    OBVIOUS
  <2>1. due[1 - 1] = 0
    BY <1>1
  <2>2. s[1] = Push(j, s[1].n)
    BY <1>1, <2>1 DEF Reads
  <2>3. Push(j, s[1].n).op = "PUSH"
    BY UnitFacts
  <2>. QED
    BY <2>2, <2>3
<1>4. 1 \in 1..due[0] /\ 0 + 1 <= Len(s)
  BY <1>2, <1>3
<1>5. pos[0 + 1] = pos[0] + 1 /\ due[0 + 1] = due[0] - 1
  BY <1>1, <1>4 DEF Reads
<1>. QED
  BY <1>1, <1>2, <1>3, <1>5

\* PUSH, or data that is taken for a command, is the first thing its connection
\* has pending
LEMMA CommandPending ==
  ASSUME IInv, NEW cl \in Clients, NEW j \in Jobs, NEW cmd, NEW hits,
         RecvCommand(cl, cmd, hits), cmd.op \in {"PUSH", "DATA"}, cmd.file = j
  PROVE  Len(Pending(j)) \in Nat /\ Len(Pending(j)) > 0 /\ Pending(j)[1] = cmd
<1>. DEFINE u == up[TgtConn(j)]
<1>1. cmd = up[serving[cl]][1] /\ Len(up[serving[cl]]) \in Nat \ {0}
  BY CommandFacts
<1>2. serving[cl] = TgtConn(j)
  <2>1. \E i \in Jobs :
            \/ /\ serving[cl] = SrcConn(i) /\ Source[i] = cl
               /\ up[serving[cl]] = <<Pull(i)>> /\ cmd = Pull(i)
            \/ /\ serving[cl] = TgtConn(i) /\ Target[i] = cl
               /\ cmd.op \in {"PUSH", "DATA"} /\ cmd.file = i
    BY CommandOrigin
  <2>. QED
    BY <2>1, UnitFacts
<1>3. /\ Len(u) \in Nat /\ Len(out[j]) \in Nat
      /\ Len(Pending(j)) = Len(u) + Len(out[j])
      /\ \A i \in 1..Len(u) : Pending(j)[i] = u[i]
  BY PendingFacts DEF IInv
<1>4. Len(u) \in Nat \ {0} /\ cmd = u[1]
  BY <1>1, <1>2
<1>. HIDE DEF u
<1>5. 1 \in 1..Len(u) /\ Len(Pending(j)) \in Nat /\ Len(Pending(j)) > 0
  BY <1>3, <1>4
<1>. QED
  BY <1>3, <1>4, <1>5

\* The step of its client
LEMMA PushCommand ==
  ASSUME IInv, NEW cl \in Clients, NEW j \in Jobs, NEW cmd, NEW hits,
         RecvCommand(cl, cmd, hits), cmd.op \in {"PUSH", "DATA"}, cmd.file = j
  PROVE  /\ serving[cl] = TgtConn(j) /\ Target[j] = cl /\ cl \in alive
         /\ hpc[cl] = "command" /\ Due(j) = 0 /\ ~Pushing(j)
         /\ \E k \in 1..Len(up[TgtConn(j)]) :
              /\ up' = [up EXCEPT ![TgtConn(j)] = Rest(@, k)]
              /\ k = 1 \/ <<"spoilt", j>> \in harm'
         /\ harm \cup hits \subseteq harm' /\ harm' \subseteq harm \cup hits \cup {<<"spoilt", j>>}
         /\ Len(Pending(j)) \in Nat /\ Len(Pending(j)) > 0 /\ Pending(j)[1] = cmd
         /\ UNCHANGED <<wvars, down, wclosed, sclosed, alive, backlog, serving>>
<1>1. /\ hpc[cl] = "command" /\ cl \in alive /\ serving[cl] # None
      /\ cmd = up[serving[cl]][1] /\ Len(up[serving[cl]]) \in Nat \ {0}
      /\ \E i \in Jobs :
            \/ /\ serving[cl] = SrcConn(i) /\ Source[i] = cl
               /\ up[serving[cl]] = <<Pull(i)>> /\ cmd = Pull(i)
            \/ /\ serving[cl] = TgtConn(i) /\ Target[i] = cl
               /\ cmd.op \in {"PUSH", "DATA"} /\ cmd.file = i
  <2>1. /\ hpc[cl] = "command" /\ cl \in alive /\ serving[cl] # None
        /\ cmd = up[serving[cl]][1] /\ Len(up[serving[cl]]) \in Nat \ {0}
    BY CommandFacts
  <2>2. \E i \in Jobs :
            \/ /\ serving[cl] = SrcConn(i) /\ Source[i] = cl
               /\ up[serving[cl]] = <<Pull(i)>> /\ cmd = Pull(i)
            \/ /\ serving[cl] = TgtConn(i) /\ Target[i] = cl
               /\ cmd.op \in {"PUSH", "DATA"} /\ cmd.file = i
    BY CommandOrigin
  <2>. QED
    BY <2>1, <2>2
<1>2. serving[cl] = TgtConn(j) /\ Target[j] = cl
  BY <1>1, UnitFacts
<1>3. /\ \E k \in 1..Len(up[serving[cl]]) :
           /\ up' = [up EXCEPT ![serving[cl]] = Rest(@, k)]
           /\ k = 1 \/ <<"spoilt", serving[cl][1]>> \in harm'
      /\ harm \cup hits \subseteq harm'
      /\ harm' \subseteq harm \cup hits \cup {<<"spoilt", serving[cl][1]>>}
  BY CommandFacts
<1>4. /\ \E k \in 1..Len(up[TgtConn(j)]) :
           /\ up' = [up EXCEPT ![TgtConn(j)] = Rest(@, k)]
           /\ k = 1 \/ <<"spoilt", j>> \in harm'
      /\ harm \cup hits \subseteq harm' /\ harm' \subseteq harm \cup hits \cup {<<"spoilt", j>>}
  <2>1. serving[cl][1] = j
    BY <1>2 DEF TgtConn
  <2>. QED
    BY <1>2, <1>3, <2>1
<1>5. Len(Pending(j)) \in Nat /\ Len(Pending(j)) > 0 /\ Pending(j)[1] = cmd
  BY CommandPending
<1>6. Due(j) = 0 /\ ~Pushing(j)
  BY <1>1, <1>2 DEF Due, Pushing
<1>7. UNCHANGED <<wvars, down, wclosed, sclosed, alive, backlog, serving>>
  BY DEF RecvCommand
<1>. QED
  BY <1>1, <1>2, <1>4, <1>5, <1>6, <1>7

\* HandlePushOpen
LEMMA HandlePushOpenIInv ==
  ASSUME IInv, NEW cl \in Clients, HandlePushOpen(cl)
  PROVE  IInv'
<1>1. PICK j \in Jobs : \E hits \in SUBSET {<<"nowrite", j>>} :
        /\ RecvCommand(cl, Push(j, -1), hits)
        /\ \/ /\ current_fd' = [current_fd EXCEPT ![cl] = j]
              /\ stored' = [stored EXCEPT ![j] = <<>>]
           \/ /\ current_fd' = [current_fd EXCEPT ![cl] = None]
              /\ UNCHANGED stored
  BY DEF HandlePushOpen, Truncated
<1>0. PICK hits \in SUBSET {<<"nowrite", j>>} :
        /\ RecvCommand(cl, Push(j, -1), hits)
        /\ \/ /\ current_fd' = [current_fd EXCEPT ![cl] = j]
              /\ stored' = [stored EXCEPT ![j] = <<>>]
           \/ /\ current_fd' = [current_fd EXCEPT ![cl] = None]
              /\ UNCHANGED stored
  BY <1>1
<1>2. UNCHANGED <<hpc, reply, need>>
  BY DEF HandlePushOpen
<1>3. /\ serving[cl] = TgtConn(j) /\ Target[j] = cl /\ cl \in alive
      /\ hpc[cl] = "command"
      /\ \E k \in 1..Len(up[TgtConn(j)]) :
            /\ up' = [up EXCEPT ![TgtConn(j)] = Rest(@, k)]
            /\ k = 1 \/ <<"spoilt", j>> \in harm'
      /\ harm \cup hits \subseteq harm' /\ harm' \subseteq harm \cup hits \cup {<<"spoilt", j>>}
      /\ Len(Pending(j)) \in Nat /\ Len(Pending(j)) > 0 /\ Pending(j)[1] = Push(j, -1)
      /\ UNCHANGED <<wvars, down, wclosed, sclosed, alive, backlog, serving>>
  <2>1. Push(j, -1).op \in {"PUSH", "DATA"} /\ Push(j, -1).file = j
    BY UnitFacts
  <2>. QED
    BY <1>0, <2>1, PushCommand
<1>4. PICK k \in 1..Len(up[TgtConn(j)]) : /\ up' = [up EXCEPT ![TgtConn(j)] = Rest(@, k)]
                                          /\ k = 1 \/ <<"spoilt", j>> \in harm'
  BY <1>3
<1>5. AtOpen(j) /\ stored[j] = Old(j) /\ Written(j) = 0
  BY <1>3, InvOf DEF IInv, Untouched, AtOpen, Written
<1>6. Reading(cl, j, k)
  <2>1. <<>> \in Seq(Units)
    BY EmptySeq
  <2>2. /\ hpc \in [Clients -> {"accept", "command", "pulling", "pushing", "dead"}]
        /\ need \in [Clients -> Nat] /\ current_fd \in [Clients -> Jobs \cup {None}]
        /\ stored \in [Jobs -> Seq(Units)] /\ harm \subseteq Harms
    BY DEF IInv, TypeOK, Harms
  <2>3. /\ current_fd' \in [Clients -> Jobs \cup {None}]
        /\ \A d \in Clients : d # cl => current_fd'[d] = current_fd[d]
        /\ current_fd'[cl] \in {j, None}
    BY <1>0, <2>2
  <2>4. stored' \in [Jobs -> Seq(Units)] /\ \A i \in Jobs : i # j => stored'[i] = stored[i]
    BY <1>0, <2>1, <2>2
  <2>5. harm \subseteq harm' /\ harm' \subseteq Harms
    BY <1>3, <2>2 DEF Harms
  <2>. QED
    BY <1>2, <1>3, <1>4, <2>2, <2>3, <2>4, <2>5 DEF Reading
<1>7. ~AtOpen(j)' /\ harm \subseteq harm'
  BY <1>3, <1>4, PopFacts DEF wvars
<1>8. CASE current_fd' = [current_fd EXCEPT ![cl] = None]
  <2>1. current_fd'[cl] = None /\ None # j
    BY <1>8, TransferAssumption DEF IInv, TypeOK
  <2>2. ~Intact(j)'
    BY <1>3, <1>7, <2>1 DEF Intact
  <2>3. Frames(j)'
    BY <2>2 DEF Frames
  <2>4. stored'[j] = stored[j]
    <3>1. j = None \/ UNCHANGED stored
      BY <1>0, <1>8 DEF IInv, TypeOK
    <3>. QED
      BY <2>1, <3>1
  <2>5. Stored(j)'
    BY <1>5, <2>2, <2>4 DEF Stored, Old, Data, Unit
  <2>. QED
    BY <1>6, <2>3, <2>5, ReadingIInv
<1>9. CASE current_fd' # [current_fd EXCEPT ![cl] = None]
  <2>1. stored'[j] = <<>>
    BY <1>0, <1>9 DEF IInv, TypeOK
  <2>2. Len(stored'[j]) = 0
    BY <2>1, EmptySeq
  <2>3. Written(j)' = 0 /\ Due(j)' = 0
    BY <1>2, <1>3, <1>7, <2>2 DEF Written, Due, Pushing
  <2>4. Intact(j)' => Intact(j)
    BY <1>3, <1>5 DEF Intact
  <2>5. ASSUME <<"spoilt", j>> \notin harm',
               NEW n, NEW m, NEW pos, NEW due, Place(j, n, m),
               Reads(j, Pending(j), pos, due), pos[0] = n, due[0] = m
        PROVE  Place(j, pos[k], due[k])'
    <3>1. Pending(j)[1].n = -1 /\ Pending(j)[1].op = "PUSH"
      BY <1>3, UnitFacts
    <3>2. /\ pos[1] = pos[0]
          /\ due[1] = IF Pending(j)[1].n > 0 THEN Pending(j)[1].n ELSE 0
      BY <1>3, <2>5, <3>1, ReadsCommand
    <3>3. k = 1 /\ pos[k] = n /\ due[k] = 0
      BY <1>4, <2>5, <3>1, <3>2
    <3>4. n = 0 \/ <<"full", j>> \in harm'
      BY <1>5, <1>7, <2>5 DEF Place
    <3>. QED
      BY <2>2, <2>3, <3>3, <3>4 DEF Place
  <2>6. Frames(j)'
    BY <1>6, <2>4, <2>5, ReadingFrames
  <2>7. Kept(j)'
    <3>1. InOrder(j, stored[j])'
      BY <2>2 DEF InOrder
    <3>2. MaxSize(j)' \in Nat
      BY SizeFacts DEF MaxSize
    <3>3. IsDataOf(j, stored[j])'
      BY <2>2, <3>2 DEF IsDataOf
    <3>. QED
      BY <3>1, <3>3 DEF Kept
  <2>8. Stored(j)'
    BY <2>7 DEF Stored
  <2>. QED
    BY <1>6, <2>6, <2>8, ReadingIInv
<1>. QED
  BY <1>8, <1>9

\* HandlePushEnd
LEMMA HandlePushEndIInv ==
  ASSUME IInv, NEW cl \in Clients, HandlePushEnd(cl)
  PROVE  IInv'
<1>1. PICK j \in Jobs : RecvCommand(cl, Push(j, 0), {})
  BY DEF HandlePushEnd
<1>2. current_fd' = [current_fd EXCEPT ![cl] = None] /\ UNCHANGED <<hpc, reply, need, stored>>
  BY DEF HandlePushEnd
<1>3. /\ serving[cl] = TgtConn(j) /\ Target[j] = cl /\ cl \in alive
      /\ hpc[cl] = "command"
      /\ \E k \in 1..Len(up[TgtConn(j)]) :
            /\ up' = [up EXCEPT ![TgtConn(j)] = Rest(@, k)]
            /\ k = 1 \/ <<"spoilt", j>> \in harm'
      /\ harm \cup {} \subseteq harm' /\ harm' \subseteq harm \cup {} \cup {<<"spoilt", j>>}
      /\ UNCHANGED <<wvars, down, wclosed, sclosed, alive, backlog, serving>>
  <2>1. Push(j, 0).op \in {"PUSH", "DATA"} /\ Push(j, 0).file = j
    BY UnitFacts
  <2>. QED
    BY <1>1, <2>1, PushCommand
<1>4. PICK k \in 1..Len(up[TgtConn(j)]) : up' = [up EXCEPT ![TgtConn(j)] = Rest(@, k)]
  BY <1>3
<1>5. /\ current_fd' \in [Clients -> Jobs \cup {None}]
      /\ \A d \in Clients : d # cl => current_fd'[d] = current_fd[d]
      /\ current_fd'[cl] = None /\ None # j
  BY <1>2, TransferAssumption DEF IInv, TypeOK
<1>6. harm \subseteq harm' /\ harm' \subseteq Harms
  BY <1>3 DEF IInv, TypeOK, Harms
<1>7. Reading(cl, j, k)
  BY <1>2, <1>3, <1>4, <1>5, <1>6 DEF Reading, IInv, TypeOK
<1>8. ~AtOpen(j)'
  BY <1>3, <1>4, PopFacts DEF wvars
<1>9. ~Intact(j)'
  BY <1>3, <1>5, <1>8 DEF Intact
<1>10. Frames(j)' /\ Stored(j)'
  BY <1>2, <1>6, <1>9, InvOf, KeptFrame DEF IInv, Frames, Stored, Old, Data, Unit
<1>. QED
  BY <1>7, <1>10, ReadingIInv

\* HandlePushChunk
LEMMA HandlePushChunkIInv ==
  ASSUME IInv, NEW cl \in Clients, HandlePushChunk(cl)
  PROVE  IInv'
<1>1. PICK j \in Jobs, c \in 1..BufSize :
        /\ RecvCommand(cl, Push(j, c), {})
        /\ IF current_fd[cl] = None THEN UNCHANGED <<hpc, need>>
           ELSE /\ need' = [need EXCEPT ![cl] = c]
                /\ hpc' = [hpc EXCEPT ![cl] = "pushing"]
  BY DEF HandlePushChunk, Handle
<1>2. UNCHANGED <<reply, current_fd, stored>>
  BY DEF HandlePushChunk
<1>3. /\ serving[cl] = TgtConn(j) /\ Target[j] = cl /\ cl \in alive
      /\ hpc[cl] = "command"
      /\ \E k \in 1..Len(up[TgtConn(j)]) :
            /\ up' = [up EXCEPT ![TgtConn(j)] = Rest(@, k)]
            /\ k = 1 \/ <<"spoilt", j>> \in harm'
      /\ harm \cup {} \subseteq harm' /\ harm' \subseteq harm \cup {} \cup {<<"spoilt", j>>}
      /\ Len(Pending(j)) \in Nat /\ Len(Pending(j)) > 0 /\ Pending(j)[1] = Push(j, c)
      /\ UNCHANGED <<wvars, down, wclosed, sclosed, alive, backlog, serving>>
  <2>1. Push(j, c).op \in {"PUSH", "DATA"} /\ Push(j, c).file = j
    BY UnitFacts
  <2>. QED
    BY <1>1, <2>1, PushCommand
<1>4. PICK k \in 1..Len(up[TgtConn(j)]) : /\ up' = [up EXCEPT ![TgtConn(j)] = Rest(@, k)]
                                          /\ k = 1 \/ <<"spoilt", j>> \in harm'
  BY <1>3
<1>5. c \in Nat /\ c > 0 /\ c # -1
  BY TransferAssumption
<1>6. ~AtOpen(j) /\ Opened(j)
  <2>1. Push(j, c) # Push(j, -1)
    BY <1>5, UnitFacts
  <2>. QED
    BY <1>3, <2>1 DEF AtOpen, Opened
<1>7. current_fd[cl] \in {j, None}
  BY <1>3, <1>6, InvOf DEF IInv, Writing
<1>8. ~AtOpen(j)'
  BY <1>3, <1>4, PopFacts DEF wvars
<1>11. harm \subseteq harm' /\ harm' \subseteq Harms
  BY <1>3 DEF IInv, TypeOK, Harms
<1>9. CASE current_fd[cl] = None
  <2>1. UNCHANGED <<hpc, need>> /\ None # j
    BY <1>1, <1>9, TransferAssumption
  <2>2. Reading(cl, j, k)
    BY <1>2, <1>3, <1>4, <1>7, <1>11, <2>1 DEF Reading, IInv, TypeOK
  <2>3. ~Intact(j)'
    BY <1>2, <1>3, <1>8, <1>9, <2>1 DEF Intact
  <2>4. Frames(j)' /\ Stored(j)'
    BY <1>2, <1>11, <2>3, InvOf, KeptFrame DEF IInv, Frames, Stored, Old, Data, Unit
  <2>. QED
    BY <2>2, <2>4, ReadingIInv
<1>10. CASE current_fd[cl] # None
  <2>1. /\ need' = [need EXCEPT ![cl] = c] /\ hpc' = [hpc EXCEPT ![cl] = "pushing"]
        /\ current_fd[cl] = j
    BY <1>1, <1>7, <1>10
  <2>2. /\ need'[cl] = c /\ hpc'[cl] = "pushing"
        /\ \A d \in Clients : d # cl => need'[d] = need[d] /\ hpc'[d] = hpc[d]
        /\ need' \in [Clients -> Nat]
        /\ hpc' \in [Clients -> {"accept", "command", "pulling", "pushing", "dead"}]
    BY <1>5, <2>1 DEF IInv, TypeOK
  <2>3. Reading(cl, j, k)
    BY <1>2, <1>3, <1>4, <1>11, <2>1, <2>2 DEF Reading, IInv, TypeOK
  <2>4. Intact(j)' => Intact(j)
    BY <1>2, <1>3, <1>6, <1>8 DEF Intact
  <2>5. Written(j)' = Written(j) /\ Due(j)' = c
    BY <1>2, <1>3, <1>6, <1>8, <2>2 DEF Written, Due, Pushing, TgtConn
  <2>6. ASSUME <<"spoilt", j>> \notin harm',
               NEW n, NEW m, NEW pos, NEW due, Place(j, n, m),
               Reads(j, Pending(j), pos, due), pos[0] = n, due[0] = m
        PROVE  Place(j, pos[k], due[k])'
    <3>1. Pending(j)[1].n = c /\ Pending(j)[1].op = "PUSH"
      BY <1>3, UnitFacts
    <3>2. /\ pos[1] = pos[0]
          /\ due[1] = IF Pending(j)[1].n > 0 THEN Pending(j)[1].n ELSE 0
      BY <1>3, <2>6, <3>1, ReadsCommand
    <3>3. k = 1 /\ pos[k] = n /\ due[k] = c
      BY <1>4, <1>5, <2>6, <3>1, <3>2
    <3>. QED
      BY <1>2, <1>6, <1>11, <2>5, <2>6, <3>3 DEF Place
  <2>7. Frames(j)'
    BY <2>3, <2>4, <2>6, ReadingFrames
  <2>8. Stored(j)'
    BY <1>2, <1>6, <1>11, <2>4, InvOf, KeptFrame DEF IInv, Stored, Old, Data, Unit
  <2>. QED
    BY <2>3, <2>7, <2>8, ReadingIInv
<1>. QED
  BY <1>9, <1>10

\* HandleUnknown: what a chunk that was given up has left, which the client
\* passes over unit by unit, or the rest of a spoilt stream
LEMMA HandleUnknownIInv ==
  ASSUME IInv, NEW cl \in Clients, HandleUnknown(cl)
  PROVE  IInv'
<1>0. PICK j \in Jobs : \E l \in 1..MaxSize(j) : RecvCommand(cl, Data(j, l), {})
  BY DEF HandleUnknown
<1>1. PICK l \in 1..MaxSize(j) : RecvCommand(cl, Data(j, l), {})
  BY <1>0
<1>2. UNCHANGED <<hpc, reply, need, current_fd, stored>>
  BY DEF HandleUnknown
<1>3. /\ serving[cl] = TgtConn(j) /\ Target[j] = cl /\ cl \in alive
      /\ hpc[cl] = "command" /\ Due(j) = 0 /\ ~Pushing(j)
      /\ \E k \in 1..Len(up[TgtConn(j)]) :
            /\ up' = [up EXCEPT ![TgtConn(j)] = Rest(@, k)]
            /\ k = 1 \/ <<"spoilt", j>> \in harm'
      /\ harm \cup {} \subseteq harm' /\ harm' \subseteq harm \cup {} \cup {<<"spoilt", j>>}
      /\ Len(Pending(j)) \in Nat /\ Len(Pending(j)) > 0 /\ Pending(j)[1] = Data(j, l)
      /\ UNCHANGED <<wvars, down, wclosed, sclosed, alive, backlog, serving>>
  <2>1. Data(j, l).op \in {"PUSH", "DATA"} /\ Data(j, l).file = j
    BY UnitFacts
  <2>. QED
    BY <1>1, <2>1, PushCommand
<1>4. PICK k \in 1..Len(up[TgtConn(j)]) : /\ up' = [up EXCEPT ![TgtConn(j)] = Rest(@, k)]
                                          /\ k = 1 \/ <<"spoilt", j>> \in harm'
  BY <1>3
<1>5. ~AtOpen(j) /\ Opened(j)
  <2>1. Data(j, l) # Push(j, -1)
    BY UnitFacts
  <2>. QED
    BY <1>3, <2>1 DEF AtOpen, Opened
<1>6. current_fd[cl] \in {j, None}
  BY <1>3, <1>5, InvOf DEF IInv, Writing
<1>7. harm \subseteq harm' /\ harm' \subseteq Harms
  BY <1>3 DEF IInv, TypeOK, Harms
<1>8. Reading(cl, j, k)
  BY <1>2, <1>3, <1>4, <1>6, <1>7 DEF Reading, IInv, TypeOK
<1>9. ~AtOpen(j)' /\ ~Pushing(j)'
  BY <1>2, <1>3, <1>4, PopFacts DEF wvars, Pushing
<1>10. Intact(j)' => Intact(j)
  BY <1>2, <1>3, <1>5, <1>9 DEF Intact
<1>11. ASSUME <<"spoilt", j>> \notin harm',
              NEW n, NEW m, NEW pos, NEW due, Place(j, n, m),
              Reads(j, Pending(j), pos, due), pos[0] = n, due[0] = m
       PROVE  Place(j, pos[k], due[k])'
  <2>1. Pending(j)[1].op = "DATA"
    BY <1>3, UnitFacts
  <2>2. /\ due[0] \in Nat \ {0} /\ pos[0] \in Nat
        /\ pos[1] = pos[0] + 1 /\ due[1] = due[0] - 1
    BY <1>3, <1>11, <2>1, ReadsData
  <2>3. k = 1 /\ pos[k] = n + 1 /\ n \in Nat /\ m # 0
    BY <1>4, <1>11, <2>2
  <2>4. <<"full", j>> \in harm'
    BY <1>3, <1>7, <1>11, <2>3 DEF Place
  <2>5. \A i \in 1..Len(stored[j]) : stored[j][i].n <= n + 1
    <3>1. \A i \in 1..Len(stored[j]) : stored[j][i].n <= n /\ stored[j][i].n \in Int
      <4>1. stored[j] \in Seq(Units)
        BY DEF IInv, TypeOK
      <4>2. \A u \in Units : u.n \in Int
        BY DEF Units
      <4>3. \A i \in 1..Len(stored[j]) : stored[j][i] \in Units
        BY <4>1
      <4>. QED
        BY <1>5, <1>11, <4>2, <4>3 DEF Place
    <3>. QED
      BY <2>3, <3>1
  <2>. QED
    BY <1>2, <1>9, <2>3, <2>4, <2>5 DEF Place
<1>12. Frames(j)'
  BY <1>8, <1>10, <1>11, ReadingFrames
<1>13. Stored(j)'
  BY <1>2, <1>5, <1>7, <1>10, InvOf, KeptFrame DEF IInv, Stored, Old, Data, Unit
<1>. QED
  BY <1>8, <1>12, <1>13, ReadingIInv

\* What handle_push_command works on
LEMMA PushingFacts ==
  ASSUME IInv, NEW cl \in Clients, hpc[cl] = "pushing"
  PROVE  \E j \in Jobs : /\ serving[cl] = TgtConn(j) /\ Target[j] = cl
                         /\ cl \in alive /\ current_fd[cl] = j /\ ~AtOpen(j)
<1>1. serving[cl] # None
  BY DEF IInv, Sessions
<1>2. cl \in alive /\ \E j \in Jobs : \/ serving[cl] = SrcConn(j) /\ Source[j] = cl
                                      \/ serving[cl] = TgtConn(j) /\ Target[j] = cl
  BY <1>1, ServingFacts
<1>3. PICK j \in Jobs : \/ serving[cl] = SrcConn(j) /\ Source[j] = cl
                        \/ serving[cl] = TgtConn(j) /\ Target[j] = cl
  BY <1>2
<1>. QED
  BY <1>2, <1>3, InvOf DEF IInv, Writing

\* What it has received continues the file
LEMMA PushedData ==
  ASSUME IInv, NEW cl \in Clients, NEW j \in Jobs,
         NEW u, u = up[TgtConn(j)], NEW k \in Received(u, ToReceive(cl)),
         NEW n, NEW pos, NEW due, Reads(j, Pending(j), pos, due),
         pos[0] = n, due[0] = need[cl]
  PROVE  /\ n \in Nat /\ pos[k] = n + k /\ due[k] = need[cl] - k /\ n + k <= MaxSize(j)
         /\ \A i \in 1..k : u[i] = Data(j, n + i)
<1>1. /\ u \in Seq(Units) /\ Len(u) \in Nat /\ Len(Pending(j)) \in Nat
      /\ Len(u) <= Len(Pending(j)) /\ \A i \in 1..Len(u) : Pending(j)[i] = u[i]
  <2>1. /\ u \in Seq(Units) /\ Len(u) \in Nat /\ Len(out[j]) \in Nat
        /\ Len(Pending(j)) = Len(u) + Len(out[j])
        /\ \A i \in 1..Len(u) : Pending(j)[i] = u[i]
    BY PendingFacts DEF IInv
  <2>2. \A a, b \in Nat : a + b \in Nat /\ a <= a + b
    OBVIOUS
  <2>. QED
    BY <2>1, <2>2, Zenon
<1>2. need[cl] \in Nat /\ ToReceive(cl) \in Nat /\ ToReceive(cl) <= need[cl]
  BY TransferAssumption DEF IInv, TypeOK, ToReceive, Min2
<1>3. k \in 1..Len(u) /\ k \in Nat /\ k <= ToReceive(cl)
  BY <1>1, <1>2, ReceivedFacts
<1>4. /\ 0 \in 0..Len(Pending(j)) /\ k \in 0..Len(Pending(j)) /\ k \in 1..k
      /\ k <= need[cl]
  BY <1>1, <1>2, <1>3
<1>5. n \in Nat /\ pos[k] <= MaxSize(j)
  BY <1>4 DEF Reads
<1>6. ASSUME NEW i \in 1..k
      PROVE  u[i] = Data(j, n + i) /\ pos[i] = n + i /\ due[i] = need[cl] - i
  <2>1. i \in 1..due[0] /\ 0 + i = i /\ 0 + i <= Len(Pending(j)) /\ i \in 1..Len(u)
    BY <1>1, <1>2, <1>3, <1>4
  <2>2. /\ Pending(j)[0 + i] = Data(j, pos[0] + i)
        /\ pos[0 + i] = pos[0] + i /\ due[0 + i] = due[0] - i
    BY <1>4, <2>1 DEF Reads
  <2>. QED
    BY <1>1, <2>1, <2>2
<1>. QED
  BY <1>4, <1>5, <1>6

\* Later units of the source keep a file in order
LEMMA InOrderMore ==
  ASSUME NEW j \in Jobs, NEW s \in Seq(Units), NEW b \in Seq(Units), NEW n \in Nat,
         InOrder(j, s), \A i \in 1..Len(s) : s[i].n <= n,
         \A i \in 1..Len(b) : b[i] = Data(j, n + i), n + Len(b) <= MaxSize(j)
  PROVE  /\ InOrder(j, s \o b)
         /\ \A i \in 1..Len(s \o b) : (s \o b)[i].n <= n + Len(b)
         /\ IsDataOf(j, s) /\ n = Len(s) => IsDataOf(j, s \o b)
<1>. DEFINE r == s \o b
<1>1. /\ r \in Seq(Units) /\ Len(r) = Len(s) + Len(b)
      /\ \A i \in 1..Len(s) : r[i] = s[i]
      /\ \A i \in 1..Len(b) : r[Len(s) + i] = b[i]
  BY Joined, Zenon
<1>2. Len(s) \in Nat /\ Len(b) \in Nat /\ MaxSize(j) \in Nat
  BY LenProperties, SizeFacts
<1>. HIDE DEF r
<1>3. \A i \in 1..Len(r) :
        i \in 1..Len(s) \/ (i - Len(s) \in 1..Len(b) /\ Len(s) + (i - Len(s)) = i)
  BY <1>1, <1>2
<1>4. ASSUME NEW i \in 1..Len(s)
      PROVE  /\ r[i] = s[i] /\ r[i].n <= n /\ r[i].n \in 1..MaxSize(j)
             /\ r[i] = Data(j, r[i].n)
  BY <1>1, <1>4 DEF InOrder
<1>5. ASSUME NEW i \in 1..Len(r), i \notin 1..Len(s)
      PROVE  /\ r[i].n = n + (i - Len(s)) /\ r[i].n \in 1..MaxSize(j)
             /\ r[i].n > n /\ r[i].n <= n + Len(b) /\ r[i] = Data(j, r[i].n)
  <2>1. i - Len(s) \in 1..Len(b) /\ Len(s) + (i - Len(s)) = i
    BY <1>3, <1>5
  <2>2. r[i] = Data(j, n + (i - Len(s)))
    BY <1>1, <2>1
  <2>3. r[i].n = n + (i - Len(s)) /\ r[i] = Data(j, r[i].n)
    BY <2>2, UnitFacts
  <2>. QED
    BY <1>2, <2>1, <2>3
<1>6. ASSUME NEW i \in 1..Len(r)
      PROVE  r[i].n \in 1..MaxSize(j) /\ r[i] = Data(j, r[i].n) /\ r[i].n <= n + Len(b)
  <2>1. CASE i \in 1..Len(s)
    BY <1>2, <1>4, <2>1
  <2>2. CASE i \notin 1..Len(s)
    BY <1>5, <2>2
  <2>. QED
    BY <2>1, <2>2
<1>7. ASSUME NEW i \in 1..Len(r), NEW k \in 1..Len(r), i < k
      PROVE  r[i].n < r[k].n
  <2>1. CASE i \in 1..Len(s) /\ k \in 1..Len(s)
    <3>1. s[i].n < s[k].n
      BY <1>7, <2>1 DEF InOrder
    <3>. QED
      BY <1>4, <2>1, <3>1
  <2>2. CASE i \in 1..Len(s) /\ k \notin 1..Len(s)
    <3>1. r[i].n <= n /\ r[i].n \in 1..MaxSize(j) /\ r[k].n > n /\ r[k].n \in 1..MaxSize(j)
      BY <1>4, <1>5, <2>2
    <3>. QED
      BY <1>2, <3>1
  <2>3. CASE i \notin 1..Len(s)
    <3>1. k \notin 1..Len(s)
      BY <1>1, <1>2, <1>7, <2>3
    <3>2. r[i].n = n + (i - Len(s)) /\ r[k].n = n + (k - Len(s))
      BY <1>5, <2>3, <3>1
    <3>. QED
      BY <1>1, <1>2, <1>7, <3>2
  <2>. QED
    BY <2>1, <2>2, <2>3
<1>8. ASSUME IsDataOf(j, s), n = Len(s) PROVE IsDataOf(j, r)
  <2>1. ASSUME NEW i \in 1..Len(r) PROVE r[i] = Data(j, i)
    <3>1. CASE i \in 1..Len(s)
      BY <1>1, <1>8, <3>1 DEF IsDataOf
    <3>2. CASE i \notin 1..Len(s)
      <4>1. i - Len(s) \in 1..Len(b) /\ Len(s) + (i - Len(s)) = i
        BY <1>3, <3>2
      <4>. QED
        BY <1>1, <1>8, <4>1
    <3>. QED
      BY <3>1, <3>2
  <2>. QED
    BY <1>1, <1>8, <2>1 DEF IsDataOf
<1>. QED
  BY <1>6, <1>7, <1>8 DEF r, InOrder

\* A recv of handle_push_command: m of the k units it returns are written,
\* all of them unless write fails
Pushed(cl, j, k, m) ==
  /\ hpc[cl] = "pushing" /\ serving[cl] = TgtConn(j) /\ Target[j] = cl
  /\ cl \in alive /\ current_fd[cl] = j /\ ~AtOpen(j)
  /\ m \in 0..k
  /\ stored' = [stored EXCEPT ![j] = @ \o First(up[TgtConn(j)], m)]
  /\ up' = [up EXCEPT ![TgtConn(j)] = Rest(@, k)]
  /\ \/ /\ m = k /\ need' = [need EXCEPT ![cl] = @ - k] /\ harm' = harm
        /\ hpc' = [hpc EXCEPT ![cl] = IF need[cl] <= k THEN "command" ELSE "pushing"]
     \/ /\ need' = need /\ harm' = harm \cup {<<"full", j>>}
        /\ hpc' = [hpc EXCEPT ![cl] = "command"]
  /\ UNCHANGED <<wvars, down, wclosed, sclosed, alive, backlog, serving, reply,
                 current_fd>>

\* PushRecv and PushWriteFails are such steps
LEMMA PushStep ==
  ASSUME IInv, NEW cl \in Clients, PushRecv(cl) \/ PushWriteFails(cl)
  PROVE  \E j \in Jobs : \E k \in Received(up[TgtConn(j)], ToReceive(cl)) : \E m \in 0..k :
           Pushed(cl, j, k, m)
<1>1. hpc[cl] = "pushing"
  BY DEF PushRecv, PushWriteFails
<1>2. PICK j \in Jobs : /\ serving[cl] = TgtConn(j) /\ Target[j] = cl
                        /\ cl \in alive /\ current_fd[cl] = j /\ ~AtOpen(j)
  BY <1>1, PushingFacts
<1>. DEFINE u == up[TgtConn(j)]
<1>3. u \in Seq(Units) /\ ToReceive(cl) \in Nat
  BY ConnFacts, TransferAssumption DEF IInv, TypeOK, ToReceive, Min2
<1>4. CASE PushRecv(cl)
  <2>1. PICK k \in Received(u, ToReceive(cl)) :
          /\ stored' = [stored EXCEPT ![j] = @ \o First(u, k)]
          /\ up' = [up EXCEPT ![TgtConn(j)] = Rest(@, k)]
          /\ need' = [need EXCEPT ![cl] = @ - k]
          /\ hpc' = [hpc EXCEPT ![cl] = IF need[cl] <= k THEN "command" ELSE "pushing"]
    BY <1>2, <1>4 DEF PushRecv, Handle
  <2>2. k \in 0..k
    BY <1>3, <2>1, ReceivedFacts
  <2>3. Pushed(cl, j, k, k)
    BY <1>1, <1>2, <1>4, <2>1, <2>2 DEF PushRecv, Pushed
  <2>. QED
    BY <2>2, <2>3
<1>5. CASE PushWriteFails(cl)
  <2>1. PICK k \in Received(up[serving[cl]], ToReceive(cl)) :
          /\ \E m \in 0 .. k - 1 :
               stored' = [stored EXCEPT ![current_fd[cl]] = @ \o First(up[serving[cl]], m)]
          /\ up' = [up EXCEPT ![serving[cl]] = Rest(@, k)]
    BY <1>5 DEF PushWriteFails
  <2>2. PICK m \in 0 .. k - 1 :
          stored' = [stored EXCEPT ![current_fd[cl]] = @ \o First(up[serving[cl]], m)]
    BY <2>1
  <2>3. k \in Received(u, ToReceive(cl)) /\ k \in Nat
    BY <1>2, <1>3, <2>1, ReceivedFacts
  <2>4. m \in 0..k
    BY <2>2, <2>3
  <2>5. Pushed(cl, j, k, m)
    BY <1>1, <1>2, <1>5, <2>1, <2>2, <2>4 DEF PushWriteFails, Handle, Pushed
  <2>. QED
    BY <2>3, <2>4, <2>5
<1>. QED
  BY <1>4, <1>5

\* The file such a step leaves, if it was in step with what is to be read
LEMMA PushedFile ==
  ASSUME IInv, NEW cl \in Clients, NEW j \in Jobs,
         NEW k \in Received(up[TgtConn(j)], ToReceive(cl)), NEW m \in 0..k, Pushed(cl, j, k, m),
         <<"spoilt", j>> \notin harm, NEW pos, NEW due,
         Reads(j, Pending(j), pos, due), Place(j, pos[0], due[0])
  PROVE  /\ pos[0] = Len(stored[j]) \/ <<"full", j>> \in harm
         /\ Kept(j)
         /\ InOrder(j, stored'[j])
         /\ \A i \in 1..Len(stored'[j]) : stored'[j][i].n <= pos[0] + m
         /\ <<"full", j>> \in harm \/ IsDataOf(j, stored'[j])
<1>. DEFINE u == up[TgtConn(j)]
            b == First(u, m)
            n == pos[0]
            q == due[0]
<1>1. /\ hpc[cl] = "pushing" /\ serving[cl] = TgtConn(j) /\ Target[j] = cl
      /\ cl \in alive /\ current_fd[cl] = j /\ ~AtOpen(j)
      /\ stored' = [stored EXCEPT ![j] = @ \o b]
  BY DEF Pushed
<1>2. u \in Seq(Units) /\ ToReceive(cl) \in Nat /\ stored[j] \in Seq(Units)
      /\ stored \in [Jobs -> Seq(Units)]
  BY ConnFacts, TransferAssumption DEF IInv, TypeOK, ToReceive, Min2
<1>3. k \in 1..Len(u) /\ k \in Nat /\ Len(u) \in Nat
  BY <1>2, ReceivedFacts
<1>4. m \in Nat /\ m <= k /\ m \in 0..Len(u)
  BY <1>3
<1>5. Pushing(j) /\ Due(j) = need[cl] /\ Written(j) = Len(stored[j])
  BY <1>1 DEF Pushing, Due, Written
<1>6. /\ n = Len(stored[j]) \/ <<"full", j>> \in harm
      /\ \A i \in 1..Len(stored[j]) : stored[j][i].n <= n
  BY <1>1, <1>5 DEF Place
<1>7. q = need[cl]
  BY <1>5 DEF Place
<1>8. /\ n \in Nat /\ pos[k] = n + k /\ due[k] = need[cl] - k /\ n + k <= MaxSize(j)
      /\ \A i \in 1..k : u[i] = Data(j, n + i)
  BY <1>7, PushedData
<1>9. /\ b \in Seq(Units) /\ Len(b) = m /\ \A i \in 1..m : b[i] = u[i]
  BY <1>2, <1>4, FirstIndices DEF First
<1>10. \A i \in 1..m : b[i] = Data(j, n + i)
  BY <1>3, <1>4, <1>8, <1>9
<1>11. n + m <= MaxSize(j)
  BY <1>3, <1>4, <1>8, SizeFacts
<1>12. Kept(j)
  <2>1. Len(Pending(j)) > 0
    <3>1. Len(out[j]) \in Nat /\ Len(Pending(j)) = Len(u) + Len(out[j])
      BY PendingFacts DEF IInv
    <3>2. \A x, y \in Nat : \A z \in 1..x : x + y > 0
      OBVIOUS
    <3>. QED
      BY <1>3, <3>1, <3>2, Zenon
  <2>2. Intact(j)
    BY <1>1, <2>1 DEF Intact, Opened, AtOpen
  <2>. QED
    BY <1>1, <2>2, InvOf DEF IInv, Stored
<1>13. stored'[j] = stored[j] \o b
  BY <1>1, <1>2
<1>. HIDE DEF b
<1>14. /\ InOrder(j, stored[j] \o b)
       /\ \A i \in 1..Len(stored[j] \o b) : (stored[j] \o b)[i].n <= n + Len(b)
       /\ IsDataOf(j, stored[j]) /\ n = Len(stored[j]) => IsDataOf(j, stored[j] \o b)
  <2>1. InOrder(j, stored[j])
    BY <1>12 DEF Kept
  <2>2. \A i \in 1..Len(b) : b[i] = Data(j, n + i)
    BY <1>9, <1>10
  <2>3. n + Len(b) <= MaxSize(j)
    BY <1>9, <1>11
  <2>. QED
    BY <1>2, <1>6, <1>8, <1>9, <2>1, <2>2, <2>3, InOrderMore
<1>15. InOrder(j, stored'[j]) /\ \A i \in 1..Len(stored'[j]) : stored'[j][i].n <= n + m
  BY <1>9, <1>13, <1>14
<1>16. <<"full", j>> \in harm \/ IsDataOf(j, stored'[j])
  BY <1>6, <1>12, <1>13, <1>14 DEF Kept
<1>. QED
  BY <1>6, <1>12, <1>15, <1>16

\* PushRecv and PushWriteFails
LEMMA PushStepIInv ==
  ASSUME IInv, NEW cl \in Clients, NEW j \in Jobs,
         NEW k \in Received(up[TgtConn(j)], ToReceive(cl)), NEW m \in 0..k, Pushed(cl, j, k, m)
  PROVE  IInv'
<1>. USE DEF wvars
<1>. DEFINE u == up[TgtConn(j)]
<1>1. /\ hpc[cl] = "pushing" /\ serving[cl] = TgtConn(j) /\ Target[j] = cl
      /\ cl \in alive /\ current_fd[cl] = j /\ ~AtOpen(j)
      /\ stored' = [stored EXCEPT ![j] = @ \o First(u, m)]
      /\ up' = [up EXCEPT ![TgtConn(j)] = Rest(@, k)]
      /\ UNCHANGED <<wvars, down, wclosed, sclosed, alive, backlog, serving, reply,
                     current_fd>>
  BY DEF Pushed
<1>2. u \in Seq(Units) /\ ToReceive(cl) \in Nat /\ ToReceive(cl) <= need[cl] /\ need[cl] \in Nat
      /\ stored[j] \in Seq(Units)
  <2>1. u \in Seq(Units) /\ need[cl] \in Nat /\ stored[j] \in Seq(Units)
    BY ConnFacts DEF IInv, TypeOK
  <2>2. BufSize \in Nat
    BY TransferAssumption
  <2>. QED
    BY <2>1, <2>2 DEF ToReceive, Min2
<1>3. k \in 1..Len(u) /\ k \in Nat /\ k <= ToReceive(cl) /\ Len(u) \in Nat
  BY <1>2, ReceivedFacts
<1>4. m \in 0..Len(u) /\ m \in Nat /\ m <= k /\ k <= need[cl] /\ need[cl] - k \in Nat
  BY <1>2, <1>3
<1>5. stored[j] \o First(u, m) \in Seq(Units)
  <2>1. First(u, m) \in Seq(Units)
    BY <1>2, <1>4, FirstIndices DEF First
  <2>. QED
    BY <1>2, <2>1, Joined, Zenon
<1>6. /\ stored' \in [Jobs -> Seq(Units)] /\ stored'[j] = stored[j] \o First(u, m)
      /\ \A i \in Jobs : i # j => stored'[i] = stored[i]
  BY <1>1, <1>5 DEF IInv, TypeOK
<1>7. \/ /\ m = k /\ need' = [need EXCEPT ![cl] = @ - k] /\ harm' = harm
         /\ hpc' = [hpc EXCEPT ![cl] = IF need[cl] <= k THEN "command" ELSE "pushing"]
      \/ /\ need' = need /\ harm' = harm \cup {<<"full", j>>}
         /\ hpc' = [hpc EXCEPT ![cl] = "command"]
  BY DEF Pushed
<1>8. harm \subseteq harm' /\ harm' \subseteq Harms
  BY <1>7 DEF IInv, TypeOK, Harms
<1>9. Reading(cl, j, k)
  <2>1. /\ hpc' \in [Clients -> {"accept", "command", "pulling", "pushing", "dead"}]
        /\ hpc'[cl] \in {"command", "pushing"} /\ need' \in [Clients -> Nat]
        /\ \A d \in Clients : d # cl => hpc'[d] = hpc[d] /\ need'[d] = need[d]
    <3>1. /\ hpc \in [Clients -> {"accept", "command", "pulling", "pushing", "dead"}]
          /\ need \in [Clients -> Nat]
      BY DEF IInv, TypeOK
    <3>2. CASE /\ need' = [need EXCEPT ![cl] = @ - k]
               /\ hpc' = [hpc EXCEPT ![cl] = IF need[cl] <= k THEN "command" ELSE "pushing"]
      BY <1>4, <3>1, <3>2
    <3>3. CASE need' = need /\ hpc' = [hpc EXCEPT ![cl] = "command"]
      BY <3>1, <3>3
    <3>. QED
      BY <1>7, <3>2, <3>3
  <2>. QED
    BY <1>1, <1>3, <1>6, <1>8, <2>1 DEF Reading, IInv, TypeOK
<1>10. ~AtOpen(j)'
  BY <1>1, <1>3, PopFacts
<1>11. Intact(j)
  <2>1. Len(Pending(j)) > 0
    <3>1. Len(out[j]) \in Nat /\ Len(Pending(j)) = Len(u) + Len(out[j])
      BY PendingFacts DEF IInv
    <3>2. \A x, y \in Nat : \A z \in 1..x : x + y > 0
      OBVIOUS
    <3>. QED
      BY <1>3, <3>1, <3>2, Zenon
  <2>. QED
    BY <1>1, <2>1 DEF Intact, Opened, AtOpen
<1>12. Frames(j)'
  <2>1. ASSUME <<"spoilt", j>> \notin harm', NEW n, NEW q, NEW pos, NEW due, Place(j, n, q),
               Reads(j, Pending(j), pos, due), pos[0] = n, due[0] = q
        PROVE  Place(j, pos[k], due[k])'
    <3>0. <<"spoilt", j>> \notin harm /\ Place(j, pos[0], due[0]) /\ pos[0] = n
      BY <1>8, <2>1
    <3>1. n \in Nat /\ pos[k] = n + k /\ due[k] = need[cl] - k
      <4>1. due[0] = need[cl]
        BY <1>1, <3>0 DEF Place, Due, Pushing
      <4>. QED
        BY <2>1, <4>1, PushedData
    <3>2. n = Len(stored[j]) \/ <<"full", j>> \in harm
      BY <2>1, <3>0, PushedFile
    <3>3. Len(First(u, m)) = m /\ First(u, m) \in Seq(Units)
      BY <1>2, <1>4, FirstIndices DEF First
    <3>4. Len(stored'[j]) = Len(stored[j]) + m
      <4>1. Len(stored[j] \o First(u, m)) = Len(stored[j]) + Len(First(u, m))
        BY <1>2, <3>3, Joined, Zenon
      <4>. QED
        BY <1>6, <3>3, <4>1
    <3>5. \A i \in 1..Len(stored'[j]) : stored'[j][i].n <= n + k
      <4>0. \A i \in 1..Len(stored'[j]) : stored'[j][i].n <= pos[0] + m
        BY <2>1, <3>0, PushedFile, Zenon
      <4>1. \A i \in 1..Len(stored'[j]) : stored'[j][i].n <= n + m
        BY <3>0, <4>0
      <4>2. \A i \in 1..Len(stored'[j]) : stored'[j][i] \in Units
        <5>1. stored'[j] \in Seq(Units)
          BY <1>6
        <5>. QED
          BY <5>1
      <4>3. \A v \in Units : v.n \in Int
        BY DEF Units
      <4>. QED
        BY <1>3, <1>4, <3>1, <4>1, <4>2, <4>3
    <3>6. CASE /\ m = k /\ need' = [need EXCEPT ![cl] = @ - k] /\ harm' = harm
               /\ hpc' = [hpc EXCEPT ![cl] = IF need[cl] <= k THEN "command" ELSE "pushing"]
      <4>1. /\ need'[cl] = need[cl] - k
            /\ hpc'[cl] = IF need[cl] <= k THEN "command" ELSE "pushing"
        BY <3>6 DEF IInv, TypeOK
      <4>2. Due(j)' = need[cl] - k
        <5>1. CASE need[cl] <= k
          <6>1. need[cl] - k = 0
            BY <1>2, <1>3, <1>4, <5>1
          <6>. QED
            BY <1>1, <4>1, <5>1, <6>1 DEF Due, Pushing, TgtConn
        <5>2. CASE ~(need[cl] <= k)
          BY <1>1, <4>1, <5>2 DEF Due, Pushing, TgtConn
        <5>. QED
          BY <5>1, <5>2
      <4>3. n + k = Written(j)' \/ <<"full", j>> \in harm'
        BY <1>8, <1>10, <3>2, <3>4, <3>6 DEF Written
      <4>. QED
        BY <1>10, <3>1, <3>5, <4>2, <4>3 DEF Place
    <3>7. CASE /\ harm' = harm \cup {<<"full", j>>}
               /\ hpc' = [hpc EXCEPT ![cl] = "command"]
      <4>1. hpc'[cl] = "command"
        BY <3>7 DEF IInv, TypeOK
      <4>2. ~Pushing(j)' /\ <<"full", j>> \in harm'
        BY <1>1, <3>7, <4>1 DEF Pushing
      <4>. QED
        BY <3>1, <3>5, <4>2 DEF Place
    <3>. QED
      BY <1>7, <3>6, <3>7
  <2>. QED
    BY <1>9, <1>11, <2>1, ReadingFrames
<1>13. Stored(j)'
  <2>. SUFFICES ASSUME <<"spoilt", j>> \notin harm'
                PROVE  InOrder(j, stored'[j])
                       /\ (<<"full", j>> \in harm' \/ IsDataOf(j, stored'[j]))
    BY DEF Stored, Kept, InOrder, IsDataOf, Data, Unit, MaxSize
  <2>0. <<"spoilt", j>> \notin harm
    BY <1>8
  <2>1. PICK n, q : /\ Place(j, n, q)
                    /\ InStep(j, Pending(j), n, q, wpc[j] = "relay", Len(relayed[j]))
    BY <1>11, <2>0, InvOf DEF IInv, Frames
  <2>2. PICK pos, due : Reads(j, Pending(j), pos, due) /\ pos[0] = n /\ due[0] = q
    BY <2>1 DEF InStep
  <2>3. Place(j, pos[0], due[0])
    BY <2>1, <2>2
  <2>4. InOrder(j, stored'[j]) /\ (<<"full", j>> \in harm \/ IsDataOf(j, stored'[j]))
    BY <2>0, <2>3, <2>2, PushedFile
  <2>. QED
    BY <1>8, <2>4
<1>. QED
  BY <1>9, <1>12, <1>13, ReadingIInv
-----------------------------------------------------------------------------
(***************************************************************************)
(* The theorems.                                                           *)
(***************************************************************************)
\* Every step keeps IInv
LEMMA NextIInv ==
  ASSUME IInv, [Next]_vars
  PROVE  IInv'
<1>1. CASE UNCHANGED vars
  BY <1>1, StutterIInv
<1>2. ASSUME NEW j \in Jobs, JobStep(j) PROVE IInv'
  <2>1. CASE ConnectSource(j) \/ ConnectTarget(j)
    BY <2>1, DialIInv
  <2>2. CASE SendPull(j)
    BY <2>2, SendPullIInv
  <2>3. CASE SendPullFails(j) \/ RecvNoHeader(j)
    BY <2>3, NoAnswerIInv
  <2>4. CASE RecvHeader(j)
    BY <2>4, RecvHeaderIInv
  <2>5. CASE SendToTarget(j)
    BY <2>5, SendToTargetIInv
  <2>6. CASE SendLost(j)
    BY <2>6, SendLostIInv
  <2>7. CASE SendOpenFails(j)
    BY <2>7, SendOpenFailsIInv
  <2>8. CASE ManagerKilled(j)
    BY <2>8, ManagerKilledIInv
  <2>9. CASE RelayChunk(j)
    BY <2>9, RelayChunkIInv
  <2>10. CASE RelayEnds(j) \/ RelayInterrupted(j)
    BY <2>10, RelayEndsIInv
  <2>11. CASE SyncReturns(j)
    BY <2>11, SyncReturnsIInv
  <2>. QED
    BY <1>2, <2>1, <2>2, <2>3, <2>4, <2>5, <2>6, <2>7, <2>8, <2>9, <2>10, <2>11 DEF JobStep
<1>3. ASSUME NEW cl \in Clients, ClientStep(cl) PROVE IInv'
  <2>1. CASE Accept(cl)
    BY <2>1, AcceptIInv
  <2>2. CASE Disconnect(cl)
    BY <2>2, DisconnectIInv
  <2>3. CASE HandlePull(cl)
    BY <2>3, HandlePullIInv
  <2>4. CASE PullSends(cl)
    BY <2>4, PullSendsIInv
  <2>5. CASE PullLost(cl)
    BY <2>5, PullLostIInv
  <2>6. CASE PullDone(cl) \/ PushCut(cl)
    BY <2>6, HandlerEndsIInv
  <2>7. CASE HandlePushOpen(cl)
    BY <2>7, HandlePushOpenIInv
  <2>8. CASE HandlePushEnd(cl)
    BY <2>8, HandlePushEndIInv
  <2>9. CASE HandlePushChunk(cl)
    BY <2>9, HandlePushChunkIInv
  <2>10. CASE HandleUnknown(cl)
    BY <2>10, HandleUnknownIInv
  <2>11. CASE PushRecv(cl) \/ PushWriteFails(cl)
    BY <2>11, PushStep, PushStepIInv
  <2>. QED
    BY <1>3, <2>1, <2>2, <2>3, <2>4, <2>5, <2>6, <2>7, <2>8, <2>9, <2>10, <2>11 DEF ClientStep
<1>4. ASSUME NEW cl \in Clients, Killed(cl) \/ BrokenPipe(cl) PROVE IInv'
  BY <1>4, DiesIInv DEF Killed, BrokenPipe
<1>. QED
  BY <1>1, <1>2, <1>3, <1>4 DEF Next, Quiet

\* IInv is an invariant
THEOREM TransferInvariant == Spec => []IInv
<1>1. Init => IInv
  BY InitIInv
<1>2. IInv /\ [Next]_vars => IInv'
  BY NextIInv
<1>. QED
  BY <1>1, <1>2, PTL DEF Spec

\* No handler leaves its types, and no socket buffer its bound, however many
\* jobs and clients there are
THEOREM TransferTypeCorrect == Spec => []TypeOK
<1>1. IInv => TypeOK
  BY DEF IInv
<1>. QED
  BY <1>1, TransferInvariant, PTL

\* sync_single_file passes the file on in order and each unit once, for every
\* size of file and of buffers, every cut of the streams and every fault
THEOREM RelayAlwaysFaithful == Spec => []RelayFaithful
<1>1. ASSUME IInv PROVE RelayFaithful
  <2>. SUFFICES ASSUME NEW j \in Jobs
                PROVE  /\ IsPrefixOf(relayed[j], Content(j))
                       /\ total_transferred[j] = Len(relayed[j])
    BY DEF RelayFaithful
  <2>1. IsDataOf(j, relayed[j]) /\ total_transferred[j] = Len(relayed[j])
    BY <1>1, InvOf DEF IInv, Relayed
  <2>2. relayed[j] \in Seq(Units)
    BY <1>1 DEF IInv, TypeOK
  <2>. QED
    BY <2>1, <2>2, DataIsPrefix
<1>. QED
  BY <1>1, TransferInvariant, PTL

\* A target's file survives the failure of its job, whatever is still in the
\* streams when sync_single_file returns
THEOREM FailureAlwaysHarmless == Spec => []FailureKeepsTarget
<1>1. IInv => FailureKeepsTarget
  BY InvOf DEF IInv, Untouched, FailureKeepsTarget
<1>. QED
  BY <1>1, TransferInvariant, PTL

\* A file whose job reports success has been read to its announced size, if
\* its client still runs and no signal has interrupted the worker's recv
THEOREM SuccessAlwaysRelaysAll == Spec => []SuccessRelaysAll
<1>1. ASSUME IInv PROVE SuccessRelaysAll
  <2>. SUFFICES ASSUME NEW j \in Jobs, result[j] = "ok", Source[j] \in alive,
                       <<"signal", j>> \notin harm
                PROVE  Len(relayed[j]) >= Size[j]
    BY DEF SuccessRelaysAll
  <2>1. total_transferred[j] >= file_size[j] /\ file_size[j] = Size[j]
    BY <1>1 DEF IInv, Results, ResultOf
  <2>2. total_transferred[j] = Len(relayed[j])
    BY <1>1, InvOf DEF IInv, Relayed
  <2>. QED
    BY <2>1, <2>2
<1>. QED
  BY <1>1, TransferInvariant, PTL

\* No unit is doubled, reordered or misplaced on its way into a target's file,
\* and none is lost but by a failed write, unless a recv of its client returned
\* more than one send or a signal cut a send short
THEOREM StoredAlwaysInOrder == Spec => []StoredInOrder
<1>1. ASSUME IInv PROVE StoredInOrder
  <2>. SUFFICES ASSUME NEW j \in Jobs, stored[j] # Old(j), <<"spoilt", j>> \notin harm
                PROVE  /\ InOrder(j, stored[j])
                       /\ <<"full", j>> \in harm \/ IsPrefixOf(stored[j], Content(j))
    BY DEF StoredInOrder
  <2>1. Kept(j)
    BY <1>1, InvOf DEF IInv, Stored
  <2>2. stored[j] \in Seq(Units)
    BY <1>1 DEF IInv, TypeOK
  <2>. QED
    BY <2>1, <2>2, DataIsPrefix DEF Kept
<1>. QED
  BY <1>1, TransferInvariant, PTL
-----------------------------------------------------------------------------
(***************************************************************************)
(* The refinement of FileCopy.                                             *)
(***************************************************************************)
\* What has happened to a transfer stays so, and no write has failed
Unharmed ==
  harm \subseteq harm' /\ \A i \in Jobs : <<"full", i>> \in harm' => <<"full", i>> \in harm

LEMMA UnharmedHits ==
  ASSUME Unharmed
  PROVE  Hit("full")' = Hit("full") /\ Hit("spoilt") \subseteq Hit("spoilt")'
BY DEF Unharmed, Hit

\* A step of a worker writes no file, and reports at most its own job
LEMMA JobReports ==
  ASSUME IInv, NEW j \in Jobs, JobStep(j)
  PROVE  /\ stored' = stored /\ Unharmed
         /\ \/ result' = result
            \/ /\ wpc[j] # "done"
               /\ \E res \in {"ok", "err"} : result' = [result EXCEPT ![j] = res]
<1>. USE DEF cvars, disk
<1>1. ASSUME harm' = harm PROVE Unharmed
  BY <1>1 DEF Unharmed
<1>2. CASE ConnectSource(j) \/ ConnectTarget(j)
  BY <1>1, <1>2 DEF ConnectSource, ConnectTarget, Connect, ConnectFails, Return
<1>3. CASE SendPull(j) \/ SendToTarget(j) \/ ManagerKilled(j)
  BY <1>1, <1>3 DEF SendPull, SendToTarget, ManagerKilled
<1>4. CASE SendLost(j)
  <2>1. /\ stored' = stored /\ result' = result
        /\ harm' = harm \/ harm' = harm \cup {<<"spoilt", j>>}
    BY <1>4 DEF SendLost
  <2>2. ASSUME harm' = harm \cup {<<"spoilt", j>>} PROVE Unharmed
    BY <2>2 DEF Unharmed
  <2>. QED
    BY <1>1, <2>1, <2>2
<1>5. CASE RelayChunk(j) \/ RelayEnds(j)
  BY <1>1, <1>5 DEF RelayChunk, RelayEnds, EndRelay
<1>6. CASE RelayInterrupted(j)
  <2>1. /\ stored' = stored /\ result' = result
        /\ harm' = harm \cup {<<"signal", j>>}
    BY <1>6 DEF RelayInterrupted, EndRelay
  <2>2. Unharmed
    BY <2>1 DEF Unharmed
  <2>. QED
    BY <2>1, <2>2
<1>7. CASE SendPullFails(j) \/ RecvNoHeader(j) \/ SyncReturns(j)
  BY <1>1, <1>7 DEF SendPullFails, RecvNoHeader, SyncReturns, Return
<1>8. CASE RecvHeader(j)
  BY <1>1, <1>8 DEF RecvHeader, Return
<1>9. CASE SendOpenFails(j)
  BY <1>1, <1>9 DEF IInv, Results, ResultOf, SendOpenFails, Return
<1>. QED
  BY <1>2, <1>3, <1>4, <1>5, <1>6, <1>7, <1>8, <1>9 DEF JobStep

\* Reports are those of FileCopy
LEMMA ReportStep ==
  ASSUME IInv, IInv', NEW j \in Jobs, stored' = stored, Unharmed, wpc[j] # "done",
         NEW res \in {"ok", "err"}, result' = [result EXCEPT ![j] = res]
  PROVE  Copy!CopyNext
<1>0. Hit("full")' = Hit("full") /\ Hit("spoilt") \subseteq Hit("spoilt")'
  BY UnharmedHits
<1>1. result[j] = "none"
  BY DEF IInv, TypeOK, Results, ResultOf
<1>2. CASE res = "ok"
  <2>1. Copy!Succeed(j)
    BY <1>0, <1>1, <1>2 DEF Copy!Succeed
  <2>. QED
    BY <1>0, <2>1 DEF Copy!CopyNext
<1>3. CASE res = "err"
  <2>1. result'[j] = "err"
    BY <1>3 DEF IInv, TypeOK
  <2>2. Untouched(j)'
    BY DEF IInv, TargetInv
  <2>3. stored[j] = Old(j)
    BY <2>1, <2>2 DEF Untouched, Old, Data, Unit
  <2>4. Copy!Fail(j)
    BY <1>0, <1>1, <1>3, <2>3 DEF Copy!Fail, Copy!Untouched
  <2>. QED
    BY <1>0, <2>4 DEF Copy!CopyNext
<1>. QED
  BY <1>2, <1>3

\* A client that obeys the command that starts a file finds the old one
LEMMA OpenStep ==
  ASSUME IInv, NEW cl \in Clients, HandlePushOpen(cl), stored' # stored, Unharmed
  PROVE  Copy!CopyNext
<1>0. Hit("full")' = Hit("full") /\ Hit("spoilt") \subseteq Hit("spoilt")'
  BY UnharmedHits
<1>1. PICK j \in Jobs : /\ RecvCommand(cl, Push(j, -1), {})
                       /\ stored' = [stored EXCEPT ![j] = <<>>]
  BY DEF HandlePushOpen, Truncated
<1>2. /\ Len(Pending(j)) \in Nat /\ Len(Pending(j)) > 0 /\ Pending(j)[1] = Push(j, -1)
      /\ UNCHANGED wvars
  <2>1. Push(j, -1).op \in {"PUSH", "DATA"} /\ Push(j, -1).file = j
    BY UnitFacts
  <2>2. RecvCommand(cl, Push(j, -1), {}) /\ UNCHANGED wvars
    BY <1>1 DEF RecvCommand
  <2>. QED
    BY <2>1, <2>2, CommandPending
<1>3. stored[j] = Old(j) /\ result[j] # "err" /\ result' = result
  BY <1>2, InvOf DEF IInv, Untouched, AtOpen, wvars
<1>4. Copy!Truncate(j)
  BY <1>0, <1>1, <1>3 DEF Copy!Truncate, Copy!Untouched
<1>. QED
  BY <1>0, <1>4 DEF Copy!CopyNext

\* Some units of the source file, in order, are along it
LEMMA InOrderAlong ==
  ASSUME NEW j \in Jobs, NEW s \in Seq(Units), InOrder(j, s)
  PROVE  Copy!Along(s, Content(j))
<1>. DEFINE p == [i \in 1..Len(s) |-> s[i].n]
<1>1. MaxSize(j) \in Nat /\ Len(Content(j)) = MaxSize(j)
      /\ \A i \in 1..MaxSize(j) : Content(j)[i] = Data(j, i)
  BY SizeFacts
<1>2. \A i \in 1..Len(s) : p[i] = s[i].n /\ p[i] \in 1..MaxSize(j) /\ s[i] = Data(j, p[i])
  BY DEF InOrder
<1>3. p \in [1..Len(s) -> 1..Len(Content(j))]
  BY <1>1, <1>2
<1>4. \A i, k \in 1..Len(s) : i < k => p[i] < p[k]
  BY <1>2 DEF InOrder
<1>. HIDE DEF p
<1>5. \A i \in 1..Len(s) : s[i] = Content(j)[p[i]]
  BY <1>1, <1>2
<1>. QED
  BY <1>3, <1>4, <1>5 DEF Copy!Along

\* What handle_push_command writes extends the file along its source
LEMMA WriteStep ==
  ASSUME IInv, NEW cl \in Clients, PushRecv(cl) \/ PushWriteFails(cl)
  PROVE  Copy!CopyNext
<1>1. PICK j \in Jobs : \E k \in Received(up[TgtConn(j)], ToReceive(cl)) : \E m \in 0..k :
        Pushed(cl, j, k, m)
  BY PushStep
<1>. DEFINE u == up[TgtConn(j)]
<1>2. PICK k \in Received(u, ToReceive(cl)) : \E m \in 0..k : Pushed(cl, j, k, m)
  BY <1>1
<1>3. PICK m \in 0..k : Pushed(cl, j, k, m)
  BY <1>2
<1>. DEFINE b == First(u, m)
            r == stored[j] \o b
<1>4. /\ hpc[cl] = "pushing" /\ serving[cl] = TgtConn(j) /\ Target[j] = cl
      /\ cl \in alive /\ current_fd[cl] = j /\ ~AtOpen(j)
      /\ stored' = [stored EXCEPT ![j] = r] /\ result' = result
      /\ harm' = harm \/ harm' = harm \cup {<<"full", j>>}
  BY <1>3 DEF Pushed, wvars
<1>5. u \in Seq(Units) /\ ToReceive(cl) \in Nat /\ stored \in [Jobs -> Seq(Units)]
      /\ stored[j] \in Seq(Units)
  BY ConnFacts, TransferAssumption DEF IInv, TypeOK, ToReceive, Min2
<1>6. k \in 1..Len(u) /\ k \in Nat /\ Len(u) \in Nat /\ m \in Nat /\ m <= k /\ m \in 0..Len(u)
  <2>1. k \in 1..Len(u) /\ k \in Nat /\ Len(u) \in Nat
    BY <1>5, ReceivedFacts
  <2>. QED
    BY <2>1
<1>7. b \in Seq(Units) /\ Len(b) = m
  BY <1>5, <1>6, FirstIndices DEF First
<1>8. /\ r \in Seq(Units) /\ Len(r) = Len(stored[j]) + Len(b)
      /\ \A i \in 1..Len(stored[j]) : r[i] = stored[j][i]
      /\ Len(stored[j]) \in Nat
  <2>1. stored[j] \in Seq(Units) /\ b \in Seq(Units)
    BY <1>5, <1>7
  <2>. HIDE DEF b
  <2>. QED
    BY <2>1, Joined, LenProperties
<1>9. stored'[j] = r /\ stored' = [stored EXCEPT ![j] = stored'[j]]
  BY <1>4, <1>5
<1>10. /\ Hit("full")' = Hit("full") \/ Hit("full")' = Hit("full") \cup {j}
       /\ Hit("spoilt")' = Hit("spoilt")
  BY <1>4 DEF Hit
<1>11. result[j] # "err"
  BY <1>4, InvOf DEF IInv, Writing
<1>12. CASE <<"spoilt", j>> \in harm
  <2>1. Len(stored[j]) <= Len(r) /\ Len(stored[j]) \in 0..Len(r) /\ Len(r) \in Nat
    BY <1>6, <1>7, <1>8
  <2>2. stored[j] = SubSeq(r, 1, Len(stored[j]))
    <3>. HIDE DEF r
    <3>1. /\ SubSeq(r, 1, Len(stored[j])) \in Seq(Units)
          /\ Len(SubSeq(r, 1, Len(stored[j]))) = Len(stored[j])
          /\ \A i \in 1..Len(stored[j]) : SubSeq(r, 1, Len(stored[j]))[i] = r[i]
      BY <1>8, <2>1, FirstIndices
    <3>. QED
      BY <1>5, <1>8, <3>1, SeqEqual
  <2>. HIDE DEF r
  <2>3. j \in Hit("spoilt")
    BY <1>12 DEF Hit
  <2>4. Copy!WriteSpoilt(j)
    BY <1>4, <1>9, <1>10, <1>11, <2>1, <2>2, <2>3 DEF Copy!WriteSpoilt
  <2>. QED
    BY <1>10, <2>4 DEF Copy!CopyNext
<1>13. CASE <<"spoilt", j>> \notin harm
  <2>1. Intact(j)
    <3>1. Len(out[j]) \in Nat /\ Len(Pending(j)) = Len(u) + Len(out[j])
      BY PendingFacts DEF IInv
    <3>2. \A x, y \in Nat : \A z \in 1..x : x + y > 0
      OBVIOUS
    <3>3. Len(Pending(j)) > 0
      BY <1>6, <3>1, <3>2, Zenon
    <3>. QED
      BY <1>4, <3>3 DEF Intact, Opened, AtOpen
  <2>2. PICK x, y : /\ Place(j, x, y)
                    /\ InStep(j, Pending(j), x, y, wpc[j] = "relay", Len(relayed[j]))
    BY <1>13, <2>1, InvOf DEF IInv, Frames
  <2>3. PICK pos, due : Reads(j, Pending(j), pos, due) /\ pos[0] = x /\ due[0] = y
    BY <2>2 DEF InStep
  <2>4. Place(j, pos[0], due[0]) /\ Reads(j, Pending(j), pos, due)
    BY <2>2, <2>3
  <2>. DEFINE n == pos[0]
  <2>5. due[0] = need[cl]
    BY <1>4, <2>4 DEF Place, Due, Pushing
  <2>6. n \in Nat /\ n + k <= MaxSize(j)
    BY <2>4, <2>5, PushedData
  <2>7. n = Len(stored[j]) \/ j \in Hit("full")
    BY <1>4, <2>4 DEF Place, Written, Hit
  <2>8. \A i \in 1..m : b[i] = Data(j, n + i)
    <3>1. \A i \in 1..k : u[i] = Data(j, n + i)
      BY <2>4, <2>5, PushedData
    <3>2. \A i \in 1..m : b[i] = u[i]
      BY <1>5, <1>6, FirstIndices DEF First
    <3>3. \A i \in 1..m : i \in 1..k
      BY <1>6
    <3>. QED
      BY <3>1, <3>2, <3>3, Zenon
  <2>9. Kept(j)
    BY <1>3, <1>13, <2>4, PushedFile, Zenon
  <2>10. InOrder(j, stored'[j])
    BY <1>3, <1>13, <2>4, PushedFile, Zenon
  <2>. HIDE DEF n, b
  <2>11. SubSeq(Content(j), n + 1, n + m) = b
    <3>. DEFINE C == Content(j)
    <3>1. /\ MaxSize(j) \in Nat /\ Len(C) = MaxSize(j) /\ C \in Seq(Units)
          /\ \A i \in 1..MaxSize(j) : C[i] = Data(j, i)
      BY SizeFacts
    <3>. HIDE DEF C
    <3>2. n + 1 \in Int /\ n + m \in Int /\ (n + m) - (n + 1) + 1 = m
          /\ \A i \in 1..m : (n + 1) + i - 1 = n + i
      BY <1>6, <2>6
    <3>3. \A i \in (n + 1)..(n + m) : i \in 1..MaxSize(j)
      BY <1>6, <2>6, <3>1
    <3>4. \A i \in (n + 1)..(n + m) : C[i] \in Units
      BY <3>1, <3>3
    <3>5. /\ SubSeq(C, n + 1, n + m) \in Seq(Units)
          /\ Len(SubSeq(C, n + 1, n + m)) = IF n + 1 <= n + m THEN (n + m) - (n + 1) + 1 ELSE 0
          /\ \A i \in 1..((n + m) - (n + 1) + 1) :
               SubSeq(C, n + 1, n + m)[i] = C[(n + 1) + i - 1]
      BY <3>2, <3>4, SubSeqProperties
    <3>6. Len(SubSeq(C, n + 1, n + m)) = m
      BY <1>6, <2>6, <3>2, <3>5
    <3>7. \A i \in 1..m : n + i \in 1..MaxSize(j)
      BY <1>6, <2>6, <3>1
    <3>8. \A i \in 1..m : SubSeq(C, n + 1, n + m)[i] = b[i]
      BY <2>8, <3>1, <3>2, <3>5, <3>7
    <3>9. SubSeq(C, n + 1, n + m) = b
      BY <1>7, <3>5, <3>6, <3>8, SeqEqual
    <3>. QED
      BY <3>9 DEF C
  <2>12. n + 1 \in 1..Len(Content(j)) /\ n + m \in 0..Len(Content(j))
    BY <1>6, <2>6, SizeFacts
  <2>13. Copy!Along(r, Content(j)) /\ stored[j] # Old(j)
    <3>1. Copy!Along(r, Content(j))
      BY <1>8, <1>9, <2>10, InOrderAlong
    <3>. QED
      BY <2>9, <3>1, SizeFacts DEF Kept
  <2>14. Copy!Extend(j)
    <3>1. r = stored[j] \o SubSeq(Content(j), n + 1, n + m)
      BY <2>11
    <3>2. j \in Hit("full") \/ n + 1 = Len(stored[j]) + 1
      BY <2>7
    <3>. DEFINE longer(x1, x2) == stored[j] \o SubSeq(Content(j), x1, x2)
    <3>3. /\ j \in Hit("full") \/ n + 1 = Len(stored[j]) + 1
          /\ Copy!Along(longer(n + 1, n + m), Content(j))
          /\ stored' = [stored EXCEPT ![j] = longer(n + 1, n + m)]
      BY <1>4, <2>13, <3>1, <3>2
    <3>4. \E x1 \in 1..Len(Content(j)), x2 \in 0..Len(Content(j)) :
            /\ j \in Hit("full") \/ x1 = Len(stored[j]) + 1
            /\ Copy!Along(longer(x1, x2), Content(j))
            /\ stored' = [stored EXCEPT ![j] = longer(x1, x2)]
      BY <2>12, <3>3, Zenon
    <3>. QED
      BY <1>4, <2>13, <3>4 DEF Copy!Extend, Copy!Untouched
  <2>15. Copy!Write(j) \/ Copy!WriteFails(j)
    BY <1>10, <2>14 DEF Copy!Write, Copy!WriteFails
  <2>. QED
    BY <1>10, <2>15 DEF Copy!CopyNext
<1>. QED
  BY <1>12, <1>13

\* The other steps of a client write nothing, and none of them reports
LEMMA ClientReports ==
  ASSUME NEW cl \in Clients, ClientStep(cl) \/ Killed(cl) \/ BrokenPipe(cl)
  PROVE  \/ PushRecv(cl) \/ PushWriteFails(cl)
         \/ result' = result /\ Unharmed /\ (stored' = stored \/ HandlePushOpen(cl))
<1>. USE DEF wvars, disk
<1>1. ASSUME harm' = harm PROVE Unharmed
  BY <1>1 DEF Unharmed
<1>2. ASSUME NEW cmd, NEW hits, RecvCommand(cl, cmd, hits),
             \A i \in Jobs : <<"full", i>> \notin hits
      PROVE  Unharmed /\ result' = result
  <2>1. result' = result /\ \E k : harm' = harm \cup hits \cup
                              (IF k = 1 THEN {} ELSE {<<"spoilt", serving[cl][1]>>})
    BY <1>2 DEF RecvCommand
  <2>. QED
    BY <1>2, <2>1 DEF Unharmed
<1>3. CASE Accept(cl) \/ Disconnect(cl) \/ PullSends(cl) \/ PullLost(cl) \/ PullDone(cl)
  BY <1>1, <1>3 DEF Accept, Disconnect, PullSends, PullLost, PullDone
<1>4. CASE HandlePull(cl)
  <2>1. stored' = stored /\ \E j \in Jobs :
          \/ \E n \in Lengths(j) :
               RecvCommand(cl, Pull(j), IF n < Size[j] THEN {<<"shrink", j>>} ELSE {})
          \/ RecvCommand(cl, Pull(j), {})
    BY <1>4 DEF HandlePull
  <2>2. \A i, j, n : <<"full", i>> \notin (IF n < Size[j] THEN {<<"shrink", j>>} ELSE {})
    OBVIOUS
  <2>3. \A i : <<"full", i>> \notin {}
    OBVIOUS
  <2>4. Unharmed /\ result' = result
    BY <1>2, <2>1, <2>2, <2>3, Zenon
  <2>. QED
    BY <2>1, <2>4
<1>5. CASE HandlePushEnd(cl) \/ HandlePushChunk(cl) \/ HandleUnknown(cl)
  <2>1. stored' = stored /\ \E cmd : RecvCommand(cl, cmd, {})
    BY <1>5 DEF HandlePushEnd, HandlePushChunk, HandleUnknown
  <2>2. PICK cmd : RecvCommand(cl, cmd, {})
    BY <2>1
  <2>. QED
    BY <1>2, <2>1, <2>2
<1>6. CASE HandlePushOpen(cl)
  <2>1. \E j \in Jobs : RecvCommand(cl, Push(j, -1), {})
                        \/ RecvCommand(cl, Push(j, -1), {<<"nowrite", j>>})
    BY <1>6 DEF HandlePushOpen
  <2>2. \A i, j : <<"full", i>> \notin {<<"nowrite", j>>} /\ <<"full", i>> \notin {}
    OBVIOUS
  <2>3. PICK j \in Jobs : RecvCommand(cl, Push(j, -1), {})
                          \/ RecvCommand(cl, Push(j, -1), {<<"nowrite", j>>})
    BY <2>1
  <2>4. CASE RecvCommand(cl, Push(j, -1), {})
    BY <1>2, <1>6, <2>4
  <2>5. CASE RecvCommand(cl, Push(j, -1), {<<"nowrite", j>>})
    BY <1>2, <1>6, <2>2, <2>5
  <2>. QED
    BY <2>3, <2>4, <2>5
<1>7. CASE PushCut(cl)
  BY <1>1, <1>7 DEF PushCut
<1>8. CASE Killed(cl) \/ BrokenPipe(cl)
  BY <1>1, <1>8 DEF Killed, BrokenPipe, Dies
<1>. QED
  BY <1>3, <1>4, <1>5, <1>6, <1>7, <1>8 DEF ClientStep

\* Workers, clients and TCP together implement FileCopy: a target's file is
\* truncated once and then only grows, along its source as long as its stream
\* is not mixed up, and a job reports once, a failure only if it has left the
\* file alone
THEOREM TransferImplementsFileCopy == Spec => ImplementsFileCopy
<1>1. Init => Copy!CopyInit
  BY DEF Init, Copy!CopyInit, Hit
<1>2. IInv /\ IInv' /\ [Next]_vars => Copy!CopyNext
  <2>. SUFFICES ASSUME IInv, IInv', [Next]_vars
                PROVE  Copy!CopyNext
    OBVIOUS
  <2>1. ASSUME stored' = stored, result' = result, Unharmed PROVE Copy!CopyNext
    BY <2>1, UnharmedHits DEF Copy!CopyNext, Copy!Spoil
  <2>2. CASE UNCHANGED vars
    BY <2>1, <2>2 DEF vars, wvars, cvars, disk, Unharmed
  <2>3. ASSUME NEW j \in Jobs, JobStep(j) PROVE Copy!CopyNext
    BY <2>1, <2>3, JobReports, ReportStep
  <2>4. ASSUME NEW cl \in Clients, ClientStep(cl) \/ Killed(cl) \/ BrokenPipe(cl)
        PROVE  Copy!CopyNext
    <3>1. CASE PushRecv(cl) \/ PushWriteFails(cl)
      BY <3>1, WriteStep
    <3>2. CASE result' = result /\ Unharmed /\ stored' = stored
      BY <2>1, <3>2
    <3>3. CASE Unharmed /\ HandlePushOpen(cl) /\ stored' # stored
      BY <3>3, OpenStep
    <3>. QED
      BY <2>4, <3>1, <3>2, <3>3, ClientReports
  <2>. QED
    BY <2>2, <2>3, <2>4 DEF Next, Quiet
<1>. QED
  BY <1>1, <1>2, TransferInvariant, PTL DEF Spec, ImplementsFileCopy, Copy!CopySpec
=============================================================================
