------------------------------ MODULE Console -------------------------------
(***************************************************************************)
(* The dialogue of nfs_console with nfs_manager: any number of consoles    *)
(* (src/nfs_console.c) and the main thread that serves them one after the  *)
(* other (src/nfs_manager.c, handle_console_connection and the handlers of *)
(* src/nfs_manager_logic.c), over TCP.  What an accepted `add' sets in     *)
(* motion is in Manager; here it succeeds or fails.                        *)
(*                                                                         *)
(* A text is the sequence of the words between its spaces, so that two     *)
(* spaces in a row enclose an empty word; a word is a sequence of tokens,  *)
(* of which "@", ":" and those that form numbers have a meaning.           *)
(*                                                                         *)
(* On the connection of a console of Cuttable one recv, of the manager or  *)
(* of the console, may return only a part of what was sent; the consoles   *)
(* of Mortal may be killed.  A command is cut between two words or inside  *)
(* a number; elsewhere in a word a cut leaves two pieces that mean         *)
(* nothing, as a cut between words does.  The two parts of an answer are   *)
(* shown as they are, and are not told apart.                              *)
(***************************************************************************)
EXTENDS Naturals, SequencesExt

CONSTANTS Consoles,
          Lines,      \* what the user of a console may type
          Number,     \* the sequences of tokens that are numbers, with their values
          MaxLines,   \* bound: commands that each console sends
          Cuttable, Mortal,
          None        \* no console

ASSUME ConsoleAssumption ==
  /\ \A c \in Consoles : \A l \in Lines[c] : l \in Seq(Seq(STRING)) /\ l # <<>>
  /\ \A t \in DOMAIN Number : Number[t] \in Nat
  /\ MaxLines \in [Consoles -> Nat]
  /\ Cuttable \subseteq Consoles /\ Mortal \subseteq Consoles
  /\ None \notin Consoles

VARIABLES
  cpc,      \* where a console is
  said,     \* its log: the commands it has sent ...
  heard,    \* ... and what each recv brought: a sequence of answers
  cend,     \* its end of the connection: "none", "open", "fin" or "rst"
  mend,     \* the manager's end of it
  up, down, \* the bytes on the way to the manager, the answers on the way back
  mpc,      \* where the main thread is
  backlog,  \* the consoles that wait to be accepted
  serving,  \* the console in handle_console_connection
  response, \* what handle_console_connection is about to send
  store,    \* the pairs that were added
  stop,     \* shutdown_requested and shutdown_flag
  cut,      \* history: the consoles of which a command came in pieces ...
  torn      \* ... and those to which an answer did

netvars == <<cend, mend, up, down>>
mgrvars == <<mpc, backlog, serving, response, store, stop, cut>>
vars == <<cpc, said, heard, torn, netvars, mgrvars>>

\* The consoles whose dialogue was disturbed by a recv that took a part
Disturbed == cut \cup torn
-----------------------------------------------------------------------------
(***************************************************************************)
(* Texts                                                                   *)
(***************************************************************************)
NoText == <<<<>>>>

\* What sscanf finds with "%s"
Words(text) ==
  LET found[i \in 0..Len(text)] ==
        IF i = 0 THEN <<>>
        ELSE IF text[i] = <<>> THEN found[i - 1] ELSE Append(found[i - 1], text[i])
  IN found[Len(text)]

\* Two texts written one behind the other
Join(s, t) == SubSeq(s, 1, Len(s) - 1) \o <<s[Len(s)] \o t[1]>> \o Tail(t)

\* A text in two, behind the k-th token of its i-th word
CutAt(t, i, k) ==
  <<Append(SubSeq(t, 1, i - 1), SubSeq(t[i], 1, k)),
    <<SubSeq(t[i], k + 1, Len(t[i]))>> \o SubSeq(t, i + 1, Len(t))>>

InNumber(w) ==
  {k \in 1..Len(w) - 1 : {SubSeq(w, k, k), SubSeq(w, k, k + 1)} \subseteq DOMAIN Number}

Cuts(t) == UNION {{CutAt(t, i, k) : k \in {Len(t[i])} \cup InNumber(t[i])} : i \in DOMAIN t}

\* atoi: the number that the text begins with, 0 if there is none
Atoi(s) ==
  LET ends == {k \in DOMAIN s : SubSeq(s, 1, k) \in DOMAIN Number}
  IN IF ends = {} THEN 0 ELSE Number[SubSeq(s, 1, Max(ends))]

NoSpec == [dir |-> <<>>, host |-> <<>>, port |-> 0]

SpecAt(w, at, colon) ==
  LET port == Atoi(SubSeq(w, colon + 1, Len(w)))
  IN IF port = 0 THEN NoSpec
     ELSE [dir |-> SubSeq(w, 1, at - 1), host |-> SubSeq(w, at + 1, colon - 1),
           port |-> port]

\* A parser that looks for the colon from the beginning of the text
parse_from_start(w) ==
  LET ats == {i \in DOMAIN w : w[i] = "@"}
      colons == {i \in DOMAIN w : w[i] = ":"}
  IN IF ats = {} \/ colons = {} THEN NoSpec ELSE SpecAt(w, Min(ats), Min(colons))

parse_directory_spec(w) ==
  LET ats == {i \in DOMAIN w : w[i] = "@"}
      colons == {i \in DOMAIN w : w[i] = ":" /\ i > Min(ats)}
  IN IF ats = {} THEN NoSpec
     ELSE IF colons = {} THEN NoSpec
     ELSE SpecAt(w, Min(ats), Min(colons))

\* What the client and connect make of a source: the client skips a leading
\* "/", and htons keeps 16 bits of the port
Rooted(s) == s.dir # <<>> /\ s.dir[1] = "/"
Place(s) == <<IF Rooted(s) THEN Tail(s.dir) ELSE s.dir, s.host, s.port % 65536>>
-----------------------------------------------------------------------------
Init ==
  /\ cpc = [c \in Consoles |-> "start"]
  /\ said = [c \in Consoles |-> <<>>] /\ heard = [c \in Consoles |-> <<>>]
  /\ cend = [c \in Consoles |-> "none"] /\ mend = [c \in Consoles |-> "none"]
  /\ up = [c \in Consoles |-> NoText] /\ down = [c \in Consoles |-> <<>>]
  /\ mpc = "accept" /\ backlog = <<>> /\ serving = None /\ response = <<>>
  /\ store = {} /\ stop = FALSE /\ cut = {} /\ torn = {}

\* What the manager says, and a piece of it
Answer(text, arg) == [text |-> text, arg |-> arg]
Part == Answer("part", <<>>)

ManagerRuns == mpc \notin {"exit", "killed"}

\* close: the peer gets a reset when something it sent was not read
Closed(unread) == IF unread THEN "rst" ELSE "fin"
-----------------------------------------------------------------------------
(***************************************************************************)
(* nfs_console                                                             *)
(***************************************************************************)
At(c, pc) == cpc' = [cpc EXCEPT ![c] = pc]

Connect(c) ==
  /\ cpc[c] = "start" /\ ManagerRuns
  /\ backlog' = Append(backlog, c)
  /\ cend' = [cend EXCEPT ![c] = "open"] /\ mend' = [mend EXCEPT ![c] = "open"]
  /\ At(c, "prompt")
  /\ UNCHANGED <<said, heard, torn, up, down, mpc, serving, response, store, stop, cut>>

ConnectRefused(c) ==
  /\ cpc[c] = "start" /\ ~ManagerRuns
  /\ At(c, "exit")
  /\ UNCHANGED <<said, heard, torn, netvars, mgrvars>>

\* Something follows the command word
HasArgs(l) == Tail(l) \notin {<<>>, NoText}

process_user_command(l) ==
  \/ l[1] = <<"add">> /\ Len(Words(Tail(l))) >= 2
  \/ l[1] = <<"cancel">> /\ HasArgs(l)
  \/ l[1] = <<"shutdown">>

\* Empty lines, help and what is not a command do not leave the console
StaysLocal(l) ==
  \/ l = NoText
  \/ l[1] # <<>> /\ l[1][1] = "help"
  \/ ~process_user_command(l)

TypeLocal(c, l) ==
  /\ cpc[c] = "prompt" /\ StaysLocal(l)
  /\ UNCHANGED vars

full_command(l) == IF HasArgs(l) THEN l ELSE <<l[1]>>

\* A console that does not wait for the answer to `cancel'
AfterSendNoWait(l) == IF l[1] = <<"cancel">> THEN "prompt" ELSE "waiting"

AfterSend(l) == "waiting"

\* console_log_command and send_command
Say(c, l) ==
  /\ cpc[c] = "prompt" /\ ~StaysLocal(l) /\ Len(said[c]) < MaxLines[c]
  /\ said' = [said EXCEPT ![c] = Append(@, full_command(l))]
  /\ UNCHANGED <<heard, torn, down, mgrvars>>

Send(c, l) ==
  /\ Say(c, l) /\ mend[c] = "open"
  /\ up' = [up EXCEPT ![c] = Join(@, full_command(l))]
  /\ At(c, AfterSend(l))
  /\ UNCHANGED <<cend, mend>>

\* The manager has closed: the text is lost and answered by a reset
SendLost(c, l) ==
  /\ Say(c, l) /\ mend[c] \in {"fin", "rst"}
  /\ mend' = [mend EXCEPT ![c] = "rst"]
  /\ At(c, AfterSend(l))
  /\ UNCHANGED <<cend, up>>

\* The reset has arrived: send fails, or SIGPIPE ends the console
SendFails(c, l) ==
  /\ Say(c, l) /\ mend[c] = "rst"
  /\ At(c, "exit")
  /\ cend' = [cend EXCEPT ![c] = Closed(down[c] # <<>>)]
  /\ UNCHANGED <<mend, up>>

\* receive_response has returned and left the rest to the next recv; after
\* `shutdown' the console ends
Hear(c, answers, rest) ==
  /\ heard' = [heard EXCEPT ![c] = Append(@, answers)]
  /\ down' = [down EXCEPT ![c] = rest]
  /\ IF said[c][Len(said[c])][1] = <<"shutdown">>
     THEN /\ At(c, "exit")
          /\ cend' = [cend EXCEPT ![c] = Closed(rest # <<>>)]
     ELSE At(c, "prompt") /\ UNCHANGED cend
  /\ UNCHANGED <<said, mend, up, mgrvars>>

Rest(c, k) == SubSeq(down[c], k + 1, Len(down[c]))

Receive(c) ==
  /\ cpc[c] = "waiting"
  /\ \E k \in 1..Len(down[c]) : Hear(c, SubSeq(down[c], 1, k), Rest(c, k))
  /\ UNCHANGED torn

\* The recv ends within the k-th answer; what is left of it comes first in
\* the next recv, which is that of the next command
ReceivePart(c) ==
  /\ cpc[c] = "waiting" /\ c \in Cuttable \ Disturbed
  /\ \E k \in 1..Len(down[c]) :
       Hear(c, Append(SubSeq(down[c], 1, k - 1), Part), <<Part>> \o Rest(c, k))
  /\ torn' = torn \cup {c}

\* recv returns 0: an empty answer, and no error
ReceiveNothing(c) ==
  /\ cpc[c] = "waiting" /\ down[c] = <<>> /\ mend[c] \in {"fin", "rst"}
  /\ Hear(c, <<>>, <<>>)
  /\ UNCHANGED torn

\* The process ends, and with it the connection
Leave(c) ==
  /\ At(c, "exit")
  /\ cend' = [cend EXCEPT ![c] = Closed(down[c] # <<>>)]
  /\ UNCHANGED <<said, heard, torn, mend, up, down, mgrvars>>

ReceiveFails(c) ==
  /\ cpc[c] = "waiting" /\ down[c] = <<>> /\ mend[c] = "rst"
  /\ Leave(c)

EndOfInput(c) == cpc[c] = "prompt" /\ Leave(c)

Kill(c) == c \in Mortal /\ cpc[c] = "waiting" /\ Leave(c)
-----------------------------------------------------------------------------
(***************************************************************************)
(* The main loop of nfs_manager and handle_console_connection              *)
(***************************************************************************)
\* A loop that leaves the connection it takes in the queue
AcceptedStays(q) == q

Accepted(q) == Tail(q)

\* close(client_fd)
HangupOn(c) == mend' = [mend EXCEPT ![c] = Closed(up[c] # NoText)]

\* The handler returns at once when shutdown was requested meanwhile
Accept ==
  /\ mpc = "accept" /\ backlog # <<>>
  /\ backlog' = Accepted(backlog)
  /\ IF stop THEN HangupOn(Head(backlog)) /\ UNCHANGED <<mpc, serving>>
     ELSE /\ serving' = Head(backlog) /\ mpc' = "recv"
          /\ UNCHANGED mend
  /\ UNCHANGED <<cpc, said, heard, torn, cend, up, down, response, store, stop, cut>>

\* Searches that compare less, or more, than host, port and directory
SamePlace(e, s) == e.source.dir = s.dir /\ e.source.host = s.host
SameActive(e, s) == e.source = s /\ e.active

\* The comparison of find_sync_info
Same(e, s) == e.source = s

Found(s) == \E e \in store : Same(e, s)

handle_add_command(ws) ==
  \E s \in {parse_directory_spec(ws[2])}, t \in {parse_directory_spec(ws[3])} :
     \/ /\ s = NoSpec \/ t = NoSpec
        /\ response' = <<Answer("add error", <<>>)>>
        /\ UNCHANGED store
     \/ /\ s # NoSpec /\ t # NoSpec /\ Found(s)
        /\ response' = <<Answer("exists", <<ws[2]>>)>>
        /\ UNCHANGED store
     \/ /\ s # NoSpec /\ t # NoSpec /\ ~Found(s)
        /\ store' = store \cup {[source |-> s, target |-> t, active |-> TRUE]}
        /\ response' \in
             {<<Answer(text, <<>>)>> :
                text \in IF <<>> \in {s.dir, s.host, t.dir, t.host}
                         THEN {"add error"} ELSE {"added", "add error"}}

\* handle_cancel_command and deactivate_sync_info
handle_cancel_command(ws) ==
  \E s \in {parse_directory_spec(ws[2])} :
     /\ response' =
          <<IF s = NoSpec THEN Answer("cancel error", <<>>)
            ELSE Answer(IF Found(s) THEN "stopped" ELSE "not synchronized", <<ws[2]>>)>>
     /\ store' = {IF s # NoSpec /\ Same(e, s) THEN [e EXCEPT !.active = FALSE]
                  ELSE e : e \in store}

\* Handlers that do not answer what they do not understand, or do so twice
AnswerNothing(text) == <<>>
AnswerTwice(text) == <<Answer("invalid", text), Answer("invalid", text)>>

AnswerInvalid(text) == <<Answer("invalid", text)>>

(***************************************************************************)
(* One recv is taken for one command.  A text of spaces leaves `command'   *)
(* unset; it is then what it was last, and the number of words is wrong.   *)
(***************************************************************************)
Obey(text) ==
  \E ws \in {Words(text)} :
    LET cmd == IF ws = <<>> THEN <<>> ELSE ws[1]
    IN CASE cmd = <<"add">> /\ Len(ws) >= 3 -> handle_add_command(ws) /\ UNCHANGED stop
         [] cmd = <<"cancel">> /\ Len(ws) = 2 -> handle_cancel_command(ws) /\ UNCHANGED stop
         [] cmd = <<"shutdown">> ->
              stop' = TRUE /\ response' = <<Answer("bye", <<>>)>> /\ UNCHANGED store
         [] OTHER -> response' = AnswerInvalid(text) /\ UNCHANGED <<store, stop>>

Pieces(text) ==
  {<<text, NoText>>} \cup
  IF serving \in Cuttable \ Disturbed
  THEN {p \in Cuts(text) : p[1] # NoText /\ p[2] # NoText} ELSE {}

Recv ==
  /\ mpc = "recv" /\ up[serving] # NoText
  /\ \E p \in Pieces(up[serving]) :
       /\ Obey(p[1])
       /\ up' = [up EXCEPT ![serving] = p[2]]
       /\ cut' = IF p[2] = NoText THEN cut ELSE cut \cup {serving}
  /\ mpc' = "send"
  /\ UNCHANGED <<cpc, said, heard, torn, cend, mend, down, backlog, serving>>

\* Back to the loop; it ends, and with it the connection, after shutdown
AfterAnswer ==
  /\ response' = <<>>
  /\ IF stop THEN HangupOn(serving) /\ mpc' = "accept" /\ serving' = None
     ELSE mpc' = "recv" /\ UNCHANGED <<mend, serving>>
  /\ UNCHANGED <<cpc, said, heard, torn, up, backlog, store, stop, cut>>

SendAnswer ==
  /\ mpc = "send" /\ cend[serving] = "open"
  /\ down' = [down EXCEPT ![serving] = @ \o response]
  /\ AfterAnswer
  /\ UNCHANGED cend

\* The console has gone: the answer is lost and brings a reset ...
AnswerLost ==
  /\ mpc = "send" /\ cend[serving] # "open"
  /\ cend' = [cend EXCEPT ![serving] = "rst"]
  /\ AfterAnswer
  /\ UNCHANGED down

\* ... and where a reset came before, send raises SIGPIPE
ProcessEnds(pc) ==
  /\ mpc' = pc /\ backlog' = <<>> /\ serving' = None /\ response' = <<>>
  /\ mend' = [c \in Consoles |->
                IF c = serving THEN Closed(up[c] # NoText)
                ELSE IF c \in Range(backlog) THEN "rst"
                ELSE mend[c]]
  /\ UNCHANGED <<cpc, said, heard, torn, cend, up, down, store, stop, cut>>

ManagerKilled ==
  /\ mpc = "send" /\ cend[serving] = "rst"
  /\ ProcessEnds("killed")

\* The console has closed its end, or shutdown was requested meanwhile
Hangup ==
  /\ mpc = "recv"
  /\ stop \/ (cend[serving] # "open" /\ up[serving] = NoText)
  /\ HangupOn(serving)
  /\ mpc' = "accept" /\ serving' = None
  /\ UNCHANGED <<cpc, said, heard, torn, cend, up, down, backlog, response, store,
                 stop, cut>>

\* cleanup_manager, with the listening socket, and the end of the process
MainEnds == mpc = "accept" /\ stop /\ ProcessEnds("exit")

\* SIGINT or SIGTERM
Signal ==
  /\ ManagerRuns /\ ~stop
  /\ stop' = TRUE
  /\ UNCHANGED <<cpc, said, heard, torn, netvars, mpc, backlog, serving, response,
                 store, cut>>
-----------------------------------------------------------------------------
ManagerStep ==
  Accept \/ Recv \/ SendAnswer \/ AnswerLost \/ ManagerKilled \/ Hangup \/ MainEnds

ConsoleStep(c) ==
  \/ Connect(c) \/ ConnectRefused(c)
  \/ Receive(c) \/ ReceivePart(c) \/ ReceiveNothing(c) \/ ReceiveFails(c)

UserStep(c) ==
  \/ \E l \in Lines[c] :
       TypeLocal(c, l) \/ Send(c, l) \/ SendLost(c, l) \/ SendFails(c, l)
  \/ EndOfInput(c) \/ Kill(c)

Ended ==
  /\ ~ManagerRuns /\ \A c \in Consoles : cpc[c] = "exit"
  /\ UNCHANGED vars

Next ==
  \/ ManagerStep \/ Signal \/ Ended
  \/ \E c \in Consoles : ConsoleStep(c) \/ UserStep(c)

Spec == Init /\ [][Next]_vars

(***************************************************************************)
(* Fairness: manager and consoles go on while they can, and TCP delivers.  *)
(* Users and signals owe nothing.                                          *)
(***************************************************************************)
FairSpec == Spec /\ WF_vars(ManagerStep) /\ \A c \in Consoles : WF_vars(ConsoleStep(c))
-----------------------------------------------------------------------------
Texts == Seq(Seq(STRING))
Specs == [dir : Seq(STRING), host : Seq(STRING), port : Nat]
Answers ==
  [text : {"added", "exists", "add error", "stopped", "not synchronized",
           "cancel error", "bye", "invalid", "part"}, arg : Texts]

(***************************************************************************)
(* Types; a console is in the accept queue or served at most once, and it  *)
(* waits exactly for the answer to its last command.                       *)
(***************************************************************************)
TypeOK ==
  /\ cpc \in [Consoles -> {"start", "prompt", "waiting", "exit"}]
  /\ said \in [Consoles -> Seq(Texts)] /\ heard \in [Consoles -> Seq(Seq(Answers))]
  /\ cend \in [Consoles -> {"none", "open", "fin", "rst"}]
  /\ mend \in [Consoles -> {"none", "open", "fin", "rst"}]
  /\ up \in [Consoles -> Texts \ {<<>>}] /\ down \in [Consoles -> Seq(Answers)]
  /\ \A c \in Consoles :
       /\ cpc[c] = "prompt" => Len(heard[c]) = Len(said[c])
       /\ cpc[c] = "waiting" => Len(heard[c]) + 1 = Len(said[c])
  /\ mpc \in {"accept", "recv", "send", "exit", "killed"}
  /\ backlog \in Seq(Consoles) /\ IsInjective(backlog)
  /\ serving \in Consoles \cup {None} /\ serving \notin Range(backlog)
  /\ (serving # None) <=> mpc \in {"recv", "send"}
  /\ response \in Seq(Answers)
  /\ store \subseteq [source : Specs, target : Specs, active : BOOLEAN]
  /\ stop \in BOOLEAN /\ cut \subseteq Consoles /\ torn \subseteq Consoles

(***************************************************************************)
(* What the form /path@host:port means, without saying how it is found     *)
(***************************************************************************)
Denotes(w, s) ==
  \E i, k \in DOMAIN w :
    /\ i < k /\ w[i] = "@" /\ w[k] = ":"
    /\ s.dir = SubSeq(w, 1, i - 1) /\ \A n \in DOMAIN s.dir : s.dir[n] # "@"
    /\ s.host = SubSeq(w, i + 1, k - 1) /\ \A n \in DOMAIN s.host : s.host[n] # ":"
    /\ s.port = Atoi(SubSeq(w, k + 1, Len(w))) /\ s.port > 0

\* The answers that are about a command
Fits(a, l) ==
  LET ws == Words(l)
  IN CASE ws[1] = <<"add">> ->
            \/ a = Answer("exists", <<ws[2]>>)
            \/ a \in {Answer("added", <<>>), Answer("add error", <<>>)}
       [] ws[1] = <<"cancel">> /\ Len(ws) = 2 ->
            \/ a \in {Answer("stopped", <<ws[2]>>), Answer("not synchronized", <<ws[2]>>)}
            \/ a = Answer("cancel error", <<>>)
       [] ws[1] = <<"cancel">> /\ Len(ws) # 2 -> a = Answer("invalid", l)
       [] ws[1] = <<"shutdown">> -> a = Answer("bye", <<>>)

(***************************************************************************)
(* The answer that a console shows is the answer to the command its user   *)
(* has just typed, as long as no recv took a part for the whole: the       *)
(* manager's a part of a command, or the console's a part of an answer,    *)
(* whose rest it would show for the next command.  It is empty only when   *)
(* the manager has closed the connection.  And the manager understands all *)
(* that process_user_command lets through, but for `cancel' with no word   *)
(* or with more than one.                                                  *)
(***************************************************************************)
AnswersInStep ==
  \A c \in Consoles \ Disturbed : \A i \in DOMAIN heard[c] :
    \/ heard[c][i] = <<>> /\ mend[c] # "open"
    \/ Len(heard[c][i]) = 1 /\ Fits(heard[c][i][1], said[c][i])

\* Command i of console c was answered by text
Told(c, i, text) ==
  i \in DOMAIN heard[c] /\ \E k \in DOMAIN heard[c][i] : heard[c][i][k].text = text

(***************************************************************************)
(* What the consoles are told is true of the store, whoever changed it in  *)
(* between: a directory that was added, is known or was stopped is an      *)
(* entry, a stopped one is not active, and of all the consoles that add a  *)
(* directory at most one is told that it was added.  It is about consoles  *)
(* whose dialogue no recv has disturbed; the others may change the store.  *)
(***************************************************************************)
AnswersTrue ==
  \A c \in Consoles \ Disturbed : \A i \in DOMAIN heard[c] :
    LET ws == Words(said[c][i])
    IN /\ Told(c, i, "added") \/ Told(c, i, "exists") \/ Told(c, i, "stopped") =>
            \E e \in store : /\ Denotes(ws[2], e.source)
                             /\ Told(c, i, "stopped") => ~e.active
                             /\ Told(c, i, "added") => Denotes(ws[3], e.target)
       /\ \A d \in Consoles \ Disturbed : \A k \in DOMAIN heard[d] :
            /\ Told(c, i, "added") /\ Told(d, k, "added")
            /\ parse_directory_spec(ws[2]) = parse_directory_spec(Words(said[d][k])[2])
            => c = d /\ i = k

(***************************************************************************)
(* No pair is made up: unless a recv took a part for the whole, each entry *)
(* is what some user typed, word for word.                                 *)
(***************************************************************************)
EntriesAsTyped ==
  Disturbed = {} =>
    \A e \in store : \E c \in Consoles : \E i \in DOMAIN said[c] :
      LET ws == Words(said[c][i])
      IN ws[1] = <<"add">> /\ Denotes(ws[2], e.source) /\ Denotes(ws[3], e.target)

(***************************************************************************)
(* find_sync_info compares texts, and two texts may name one directory: as *)
(* far as the program itself can tell, two entries are the same directory  *)
(* of the same client only if one of them was typed with a leading "/" and *)
(* the other without, or with a port beyond 16 bits, which                 *)
(* parse_directory_spec lets through.  Nothing else, and no order of adds  *)
(* and cancels of several consoles, makes two entries of one directory.    *)
(***************************************************************************)
SourcesApart ==
  \A e, f \in store : Place(e.source) = Place(f.source) =>
    \/ e = f
    \/ Rooted(e.source) # Rooted(f.source)
    \/ e.source.port > 65535 \/ f.source.port > 65535

(***************************************************************************)
(* A console may be killed or leave at any moment, with an answer under    *)
(* way or unread: SIGPIPE never ends the manager, unless commands or       *)
(* answers came in pieces.                                                 *)
(***************************************************************************)
ManagerSurvives == mpc = "killed" => Disturbed # {}

(***************************************************************************)
(* A console gets out of receive_response when it is served, and also when *)
(* it was not served before the manager shuts down.                        *)
(***************************************************************************)
WaitEnds ==
  \A c \in Consoles :
    cpc[c] = "waiting" /\ (serving = c \/ stop) ~> cpc[c] # "waiting"
=============================================================================
