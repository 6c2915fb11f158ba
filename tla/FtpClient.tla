------------------------------ MODULE FtpClient ------------------------------
(***************************************************************************)
(* The FTP client, ftp_client.cpp, against a server that is its            *)
(* environment.  The threads are the command thread, which also logs in,   *)
(* the thread that receives the replies, and one detached thread for each  *)
(* file or listing on its way.  They share the queue of replies            *)
(* (ReplyQueue), the mutex InOutMtx and the control connection.            *)
(*                                                                         *)
(* Commands are numbered as they are typed, and the data thread of command *)
(* n is thread n; thread 0 is the command thread.  `pc` says where a       *)
(* thread is.  At the places of AwaitsReply it is in GetReplyFromQueue,    *)
(* and the place is also the kind of reply it is written for.  A reply     *)
(* carries its kind and the command it answers beside its code: the code   *)
(* of the client never sees them, the properties do.                       *)
(*                                                                         *)
(* Abstractions.  A reply is one line that arrives in one piece, but for   *)
(* MaxSplits of them.  What is printed is left out, when and under which   *)
(* lock is not.  An operator just before the one it varies (EndUnlocked    *)
(* and LockToEnd) is a slip of that code which a run must notice.          *)
(***************************************************************************)
EXTENDS Naturals, Sequences, FiniteSets

CONSTANTS
    MaxCommands,   \* bound: how many commands reach the server
    MaxTransfers,  \* bound: how many of them are transfers
    MaxBatch,      \* bound: how many lines one recv brings
    MaxPieces,     \* bound: how many buffers an uploaded file needs
    MaxSplits,     \* bound: how many replies become two lines
    Leftovers,     \* what a line that begins with no code is read as
    Patient,       \* TRUE: the user types only when no data thread runs
    ServerFails,   \* TRUE: the server may break an upload or hang up
    Verbs          \* the commands the user types

AllVerbs == {"list", "stor", "retr", "pwd", "cwd", "quit", "help", "bad", "empty"}

ASSUME FtpClientAssumption ==
    /\ {MaxCommands, MaxBatch, MaxPieces} \subseteq Nat \ {0}
    /\ {MaxTransfers, MaxSplits} \subseteq Nat
    /\ Leftovers \subseteq Nat
    /\ {Patient, ServerFails} \subseteq BOOLEAN
    /\ Verbs \subseteq AllVerbs

Cmd == 0
DataThreads == 1 .. MaxCommands
Threads == {Cmd} \cup DataThreads
NoThread == MaxCommands + 1

Transfers == {"list", "stor", "retr"}

\* The codes the server may answer with, by kind of reply.
Codes == [greet |-> {220, 421}, user |-> {230, 331, 530}, pass |-> {230, 530},
          pasv |-> {227, 425}, start |-> {150, 550}, end |-> {226, 426},
          pwd |-> {257}, cwd |-> {250, 550}, quit |-> {221}]

Kinds == DOMAIN Codes

Lines == UNION {[kind : {k}, n : 0 .. MaxCommands, code : Codes[k] \cup Leftovers]
                   : k \in Kinds}

-----------------------------------------------------------------------------
VARIABLES
    pc,          \* where each thread is
    inout,       \* the thread that holds InOutMtx, or NoThread
    control,     \* SocketControl: "open", "closed" by the client, "lost"
    receiving,   \* RecvReplyThread is in its loop
    typed,       \* the commands typed so far, help and the like left out
    pieces,      \* the buffers each upload still has to read
    requests,    \* lines sent and not yet read by the server: [kind, n]
    stream,      \* replies sent and not yet received
    data,        \* the data connection of each command
    msgQueue, waiting, woken, pushed, taken,    \* the queue of ReplyQueue
    crossed,     \* history: a reply was taken by a thread it is not for
    overlapped,  \* history: a command was typed beside a data thread
    broken,      \* history: an upload was broken, or the server hung up
    splits       \* history: how many replies became two lines

queue == <<msgQueue, waiting, woken, pushed, taken>>
network == <<requests, stream, data>>
history == <<crossed, overlapped, broken, splits>>
vars == <<pc, inout, control, receiving, typed, pieces, requests, stream, data,
          msgQueue, waiting, woken, pushed, taken, crossed, overlapped, broken,
          splits>>

Q == INSTANCE ReplyQueue WITH
         Consumers <- Threads,
         Replies <- Lines,
         Batches <- UNION {[1 .. k -> Lines] : k \in 1 .. MaxBatch},
         MaxReplies <- 3 + 3 * MaxCommands + MaxSplits

(***************************************************************************)
(* Places.  At a place of Kinds the thread is in GetReplyFromQueue.        *)
(***************************************************************************)
CmdHolds == {"typing", "path", "ask_pasv", "pasv", "connect", "ask_start", "start"}
DataHolds == {"printing", "end"}

CmdPlaces == CmdHolds \cup {"greet", "user", "pass", "idle", "lock", "ask", "pwd",
                            "cwd", "quit", "report", "shout", "bye", "exited"}
DataPlaces == DataHolds \cup {"none", "saving", "lock_end", "lock_print", "begin",
                              "sending", "progress", "failed", "done"}

Init ==
    /\ pc = [t \in Threads |-> IF t = Cmd THEN "greet" ELSE "none"]
    /\ inout = NoThread
    /\ control = "open"
    /\ receiving = TRUE
    /\ typed = <<>>
    /\ pieces = [n \in DataThreads |-> 0]
    /\ requests = <<>>
    /\ \E c \in Codes["greet"] : stream = <<[kind |-> "greet", n |-> 0, code |-> c]>>
    /\ data = [n \in DataThreads |-> "none"]
    /\ Q!Init
    /\ crossed = FALSE
    /\ overlapped = FALSE
    /\ broken = FALSE
    /\ splits = 0

Alive == pc[Cmd] # "exited"

Goto(t, place) == pc' = [pc EXCEPT ![t] = place]

Now == Len(typed)
Verb == typed[Now]
Busy(n) == pc[n] \notin {"none", "done"}

-----------------------------------------------------------------------------
(***************************************************************************)
(* The means the threads share.                                            *)
(***************************************************************************)
\* The line that GetReplyFromQueue returns next.  It is for t if t is at the
\* place for its kind and it answers t's command.
Line == Head(msgQueue)

IsFor(line, t) ==
    /\ line.kind = pc[t]
    /\ line.n = IF t = Cmd THEN Now ELSE t

\* GetReplyFromQueue returns to t.
Take(t) ==
    /\ Alive
    /\ pc[t] \in Kinds
    /\ Q!Take(t)
    /\ crossed' = (crossed \/ ~IsFor(Line, t))
    /\ UNCHANGED <<receiving, typed, stream, overlapped, broken, splits>>

\* GetReplyFromQueue finds nothing and sleeps, or wakes up for nothing.
Sleep(t) ==
    /\ Alive
    /\ pc[t] \in Kinds
    /\ Q!Block(t) \/ Q!SpuriousWake(t)
    /\ UNCHANGED <<pc, inout, control, receiving, typed, pieces, network, history>>

\* A line that the server has left unread may be accepted all the same.
SendLine(kind) ==
    \/ /\ control = "open"
       /\ requests' = Append(requests, [kind |-> kind, n |-> Now])
    \/ /\ control = "lost"
       /\ UNCHANGED requests

SendFails == control # "open" /\ UNCHANGED requests

Lock(t) == inout = NoThread /\ inout' = t
Unlock == inout' = NoThread

\* InOutMtx is taken, something is printed, and it is released.
PrintLocked == inout = NoThread /\ UNCHANGED inout

\* What a step of a client thread that takes no reply leaves alone.
Rest == UNCHANGED <<receiving, stream, queue, crossed, broken, splits>>

-----------------------------------------------------------------------------
(***************************************************************************)
(* connect_to_server: the dialogue before the command thread is started.   *)
(***************************************************************************)
Exit == Goto(Cmd, "exited") /\ control' = "closed"

LoginNext ==
    CASE pc[Cmd] = "greet" /\ Line.code = 220 -> "user"
      [] pc[Cmd] = "user" /\ Line.code = 331 -> "pass"
      [] pc[Cmd] \in {"user", "pass"} /\ Line.code = 230 -> "idle"
      [] OTHER -> "exited"

Login ==
    /\ pc[Cmd] \in {"greet", "user", "pass"}
    /\ Take(Cmd)
    /\ LET place == LoginNext IN
       \/ /\ place \in {"user", "pass"}
          /\ SendLine(place)
          /\ Goto(Cmd, place)
          /\ UNCHANGED control
       \/ /\ place = "idle"
          /\ Goto(Cmd, "idle")
          /\ UNCHANGED <<control, requests>>
       \/ /\ place = "exited" \/ SendFails
          /\ Exit
          /\ UNCHANGED requests
    /\ UNCHANGED <<inout, pieces, data>>

-----------------------------------------------------------------------------
(***************************************************************************)
(* Command_Thread.                                                         *)
(***************************************************************************)
\* A key was pressed: the prompt, and the line is read under InOutMtx.
StartTyping ==
    /\ pc[Cmd] = "idle"
    /\ Patient => \A n \in DataThreads : ~Busy(n)
    /\ Lock(Cmd)
    /\ Goto(Cmd, "typing")
    /\ UNCHANGED <<control, typed, pieces, requests, data, overlapped>>
    /\ Rest

Asks == Transfers \cup {"pwd", "cwd", "quit"}

PlaceOf(verb) ==
    CASE verb \in Transfers \cup {"cwd"} -> "lock"
      [] verb \in {"pwd", "quit"} -> "ask"
      [] verb = "help" -> "report"
      [] verb = "bad" -> "shout"
      [] verb = "empty" -> "idle"

TransfersTyped == Cardinality({n \in 1 .. Now : typed[n] \in Transfers})

Type(verb) ==
    /\ pc[Cmd] = "typing"
    /\ verb \in Asks => Now < MaxCommands
    /\ verb \in Transfers => TransfersTyped < MaxTransfers
    /\ typed' = IF verb \in Asks THEN Append(typed, verb) ELSE typed
    /\ overlapped' = (overlapped \/ (verb \in Asks /\ \E n \in DataThreads : Busy(n)))
    /\ Goto(Cmd, PlaceOf(verb))
    /\ Unlock
    /\ UNCHANGED <<control, pieces, requests, data>>
    /\ Rest

\* Something is printed under InOutMtx (for a PWD that could not be sent,
\* nothing is), and the command is over.
Report ==
    /\ pc[Cmd] = "report"
    /\ PrintLocked
    /\ Goto(Cmd, "idle")
    /\ UNCHANGED <<control, typed, pieces, requests, data, overlapped>>
    /\ Rest

\* Something is printed without InOutMtx, and the command is over.
Shout ==
    /\ pc[Cmd] = "shout"
    /\ Goto(Cmd, "idle")
    /\ UNCHANGED <<inout, control, typed, pieces, requests, data, overlapped>>
    /\ Rest

-----------------------------------------------------------------------------
(***************************************************************************)
(* Pwd_Command, Cwd_Command and Quit_Command: no lock while they wait.     *)
(***************************************************************************)
Ask ==
    /\ pc[Cmd] = "ask"
    /\ \/ SendLine(Verb) /\ Goto(Cmd, Verb)
       \/ SendFails /\ Goto(Cmd, "report")
    /\ UNCHANGED <<inout, control, typed, pieces, data, overlapped>>
    /\ Rest

Answered ==
    /\ pc[Cmd] \in {"pwd", "cwd", "quit"}
    /\ Take(Cmd)
    /\ Goto(Cmd, CASE pc[Cmd] = "cwd" -> "shout"
                   [] pc[Cmd] = "quit" /\ Line.code = 221 -> "bye"
                   [] OTHER -> "report")
    /\ UNCHANGED <<inout, control, pieces, requests, data>>

\* The last words, and exit(0), which ends every thread.
Bye ==
    /\ pc[Cmd] = "bye"
    /\ PrintLocked
    /\ Exit
    /\ UNCHANGED <<typed, pieces, requests, data, overlapped>>
    /\ Rest

-----------------------------------------------------------------------------
(***************************************************************************)
(* List_Command, Stor_Command and Retr_Command hold InOutMtx from their    *)
(* first line to their return; Cwd_Command only while it asks for the path.*)
(***************************************************************************)
LockConsole ==
    /\ pc[Cmd] = "lock"
    /\ Lock(Cmd)
    /\ Goto(Cmd, IF Verb = "list" THEN "ask_pasv" ELSE "path")
    /\ UNCHANGED <<control, typed, pieces, requests, data, overlapped>>
    /\ Rest

\* The command is given up, or is over, and InOutMtx is released.
Leave == Goto(Cmd, "idle") /\ Unlock

\* The user has named the files; the file of a stor may not be there.
NamePathKeepsLock ==
    /\ pc[Cmd] = "path"
    /\ \/ Verb = "cwd" /\ Goto(Cmd, "ask") /\ Unlock
       \/ Verb # "cwd" /\ Goto(Cmd, "ask_pasv") /\ UNCHANGED inout
       \/ Verb = "stor" /\ Goto(Cmd, "idle") /\ UNCHANGED inout
    /\ UNCHANGED <<control, typed, pieces, requests, data, overlapped>>
    /\ Rest

NamePath ==
    /\ pc[Cmd] = "path"
    /\ \/ Verb = "cwd" /\ Goto(Cmd, "ask") /\ Unlock
       \/ Verb # "cwd" /\ Goto(Cmd, "ask_pasv") /\ UNCHANGED inout
       \/ Verb = "stor" /\ Leave
    /\ UNCHANGED <<control, typed, pieces, requests, data, overlapped>>
    /\ Rest

\* PASV, and LIST, STOR or RETR, are sent; if they cannot be, the command
\* is over.
AskFor(kind) ==
    /\ \/ SendLine(kind) /\ Goto(Cmd, kind) /\ UNCHANGED inout
       \/ SendFails /\ Leave
    /\ UNCHANGED <<control, typed, pieces, data, overlapped>>
    /\ Rest

AskPasv == pc[Cmd] = "ask_pasv" /\ AskFor("pasv")
AskStart == pc[Cmd] = "ask_start" /\ AskFor("start")

\* Data_Connect: anything but 227 closes the control connection.
PasvAnswered ==
    /\ pc[Cmd] = "pasv"
    /\ Take(Cmd)
    /\ \/ Line.code = 227 /\ Goto(Cmd, "connect") /\ UNCHANGED <<inout, control>>
       \/ Line.code # 227 /\ Leave /\ control' = "closed"
    /\ UNCHANGED <<pieces, requests, data>>

Connect ==
    /\ pc[Cmd] = "connect"
    /\ \/ Goto(Cmd, "ask_start") /\ UNCHANGED inout
       \/ Leave
    /\ UNCHANGED <<control, typed, pieces, requests, data, overlapped>>
    /\ Rest

\* The first place of a data thread; the user says whether to save a file.
FirstPlace == [list |-> {"lock_print"}, retr |-> {"saving", "lock_print"}, stor |-> {"begin"}]

\* 150 starts the data thread; any other line ends the command.
StartRefusedCloses ==
    /\ pc[Cmd] = "start"
    /\ Take(Cmd)
    /\ Unlock
    /\ Goto(Cmd, "idle")
    /\ control' = "closed"
    /\ UNCHANGED <<pieces, requests, data>>

StartKeepsLock ==
    /\ pc[Cmd] = "start"
    /\ Take(Cmd)
    /\ \/ /\ Line.code = 150
          /\ \E place \in FirstPlace[Verb] :
                 pc' = [pc EXCEPT ![Cmd] = "idle", ![Now] = place]
          /\ UNCHANGED inout
       \/ Line.code # 150 /\ Leave
    /\ UNCHANGED <<control, pieces, requests, data>>

StartAnswered ==
    /\ pc[Cmd] = "start"
    /\ Take(Cmd)
    /\ Unlock
    /\ \/ /\ Line.code = 150
          /\ \E place \in FirstPlace[Verb] :
                 pc' = [pc EXCEPT ![Cmd] = "idle", ![Now] = place]
          /\ \E k \in (IF Verb = "stor" THEN 0 .. MaxPieces ELSE {0}) :
                 pieces' = [pieces EXCEPT ![Now] = k]
       \/ /\ Line.code # 150
          /\ Goto(Cmd, "idle")
          /\ UNCHANGED pieces
    /\ UNCHANGED <<control, requests, data>>

-----------------------------------------------------------------------------
(***************************************************************************)
(* Download_Data_Thread and Upload_Data_Thread.                            *)
(***************************************************************************)
DataStep(n) ==
    /\ Alive
    /\ UNCHANGED <<control, typed, requests, overlapped>>
    /\ Rest

\* To a file: the data up to the end, or none if the file cannot be opened.
SaveGivesUp(n) ==
    /\ pc[n] = "saving"
    /\ \/ data[n] = "over" /\ UNCHANGED data /\ Goto(n, "lock_end")
       \/ /\ data' = [data EXCEPT ![n] = IF @ = "over" THEN @ ELSE "closed"]
          /\ Goto(n, "done")
    /\ UNCHANGED <<inout, pieces>>
    /\ DataStep(n)

SaveAll(n) ==
    /\ pc[n] = "saving"
    /\ \/ data[n] = "over" /\ UNCHANGED data
       \/ data' = [data EXCEPT ![n] = IF @ = "over" THEN @ ELSE "closed"]
    /\ Goto(n, "lock_end")
    /\ UNCHANGED <<inout, pieces>>
    /\ DataStep(n)

\* To the console: InOutMtx is held from before the first byte.
LockToPrint(n) ==
    /\ pc[n] = "lock_print"
    /\ Lock(n)
    /\ Goto(n, "printing")
    /\ UNCHANGED <<pieces, data>>
    /\ DataStep(n)

PrintOnly(n) ==
    /\ pc[n] = "printing"
    /\ data[n] = "over"
    /\ Goto(n, "done")
    /\ Unlock
    /\ UNCHANGED <<pieces, data>>
    /\ DataStep(n)

PrintAll(n) ==
    /\ pc[n] = "printing"
    /\ data[n] = "over"
    /\ Goto(n, "end")
    /\ UNCHANGED <<inout, pieces, data>>
    /\ DataStep(n)

\* An upload prints under InOutMtx at its start, after each buffer and when
\* send has failed.
Announce(n) ==
    /\ pc[n] \in {"begin", "progress", "failed"}
    /\ PrintLocked
    /\ Goto(n, IF pc[n] = "failed" THEN "done" ELSE "sending")
    /\ UNCHANGED <<pieces, data>>
    /\ DataStep(n)

\* Once the server has closed the connection send fails, if not at once.
SendPieceAtEnd(n) ==
    /\ pc[n] = "sending"
    /\ pieces[n] >= 0
    /\ Goto(n, "progress")
    /\ pieces' = [pieces EXCEPT ![n] = @ - 1]
    /\ UNCHANGED <<inout, data>>
    /\ DataStep(n)

SendPiece(n) ==
    /\ pc[n] = "sending"
    /\ pieces[n] > 0
    /\ \/ /\ Goto(n, "progress")
          /\ pieces' = [pieces EXCEPT ![n] = @ - 1]
       \/ /\ data[n] = "over"
          /\ Goto(n, "failed")
          /\ UNCHANGED pieces
    /\ UNCHANGED <<inout, data>>
    /\ DataStep(n)

SendEnds(n) ==
    /\ pc[n] = "sending"
    /\ pieces[n] = 0
    /\ data' = [data EXCEPT ![n] = IF @ = "over" THEN @ ELSE "closed"]
    /\ Goto(n, "lock_end")
    /\ UNCHANGED <<inout, pieces>>
    /\ DataStep(n)

\* The last reply is awaited and printed under InOutMtx.
EndUnlocked(n) ==
    /\ pc[n] = "lock_end"
    /\ Goto(n, "end")
    /\ UNCHANGED <<inout, pieces, data>>
    /\ DataStep(n)

LockToEnd(n) ==
    /\ pc[n] = "lock_end"
    /\ Lock(n)
    /\ Goto(n, "end")
    /\ UNCHANGED <<pieces, data>>
    /\ DataStep(n)

Ended(n) ==
    /\ pc[n] = "end"
    /\ Take(n)
    /\ Goto(n, "done")
    /\ Unlock
    /\ UNCHANGED <<control, pieces, requests, data>>

-----------------------------------------------------------------------------
(***************************************************************************)
(* RecvReplyThread.  At the end of the stream of a server that hung up,    *)
(* recv returns 0 again and again and the loop changes nothing.            *)
(***************************************************************************)
Receive(k) ==
    /\ Alive /\ receiving /\ control # "closed"
    /\ k <= Len(stream)
    /\ Q!Push(SubSeq(stream, 1, k))
    /\ stream' = SubSeq(stream, k + 1, Len(stream))
    /\ UNCHANGED <<pc, inout, control, receiving, typed, pieces, requests, data, history>>

\* The k-th reply arrives in two pieces, and the recv ends between them: the
\* first is pushed as a line, and so will be the second when it comes.
ReceivePart(k) ==
    /\ Alive /\ receiving /\ control # "closed"
    /\ splits < MaxSplits
    /\ k <= Len(stream)
    /\ \E first \in {stream[k].code} \cup Leftovers, second \in Leftovers :
           /\ Q!Push(Append(SubSeq(stream, 1, k - 1), [stream[k] EXCEPT !.code = first]))
           /\ stream' = <<[stream[k] EXCEPT !.code = second]>>
                             \o SubSeq(stream, k + 1, Len(stream))
    /\ splits' = splits + 1
    /\ UNCHANGED <<pc, inout, control, receiving, typed, pieces, requests, data,
                   crossed, overlapped, broken>>

\* SocketControl was closed by another thread.
StopReceiving ==
    /\ Alive /\ receiving /\ control = "closed"
    /\ receiving' = FALSE
    /\ UNCHANGED <<pc, inout, control, typed, pieces, network, queue, history>>

-----------------------------------------------------------------------------
(***************************************************************************)
(* The server: it answers line by line, also while a transfer is going on, *)
(* and sends the last reply of a transfer when the data are through.       *)
(***************************************************************************)
Reply(kind, n, code) == stream' = Append(stream, [kind |-> kind, n |-> n, code |-> code])

ServerLeavesAlone ==
    UNCHANGED <<pc, inout, receiving, typed, pieces, queue, crossed, overlapped>>

\* The reply to a line.  After 221 the server hangs up, and the data
\* connection of a transfer that it refuses is closed.
Answer(code) ==
    /\ control = "open"
    /\ requests # <<>>
    /\ LET q == Head(requests) IN
       /\ code \in Codes[q.kind]
       /\ Reply(q.kind, q.n, code)
       /\ data' = IF q.kind = "start" /\ data[q.n] = "none"
                  THEN [data EXCEPT ![q.n] = IF code = 150 THEN "open" ELSE "over"]
                  ELSE data
    /\ requests' = Tail(requests)
    /\ control' = IF code = 221 THEN "lost" ELSE "open"
    /\ UNCHANGED <<broken, splits>>
    /\ ServerLeavesAlone

\* The reply just sent is one of several lines (220- and 220), here two; the
\* further ones have its code or begin with any text.
AnswerOn ==
    /\ splits < MaxSplits
    /\ stream # <<>>
    /\ \E code \in {stream[Len(stream)].code} \cup Leftovers :
           stream' = Append(stream, [stream[Len(stream)] EXCEPT !.code = code])
    /\ splits' = splits + 1
    /\ UNCHANGED <<control, requests, data, broken>>
    /\ ServerLeavesAlone

\* The data are through: all sent, all received, or the client has closed.
Finish(n, code) ==
    /\ data[n] \in {"open", "closed"}
    /\ typed[n] = "stor" => data[n] = "closed"
    /\ code \in Codes["end"]
    /\ data' = [data EXCEPT ![n] = "over"]
    /\ IF control = "open" THEN Reply("end", n, code) ELSE UNCHANGED stream
    /\ UNCHANGED <<control, requests, broken, splits>>
    /\ ServerLeavesAlone

\* The server gives up an upload before its end, as when its disk is full.
BreakUpload(n) ==
    /\ ServerFails
    /\ control = "open"
    /\ data[n] = "open" /\ typed[n] = "stor"
    /\ data' = [data EXCEPT ![n] = "over"]
    /\ Reply("end", n, 426)
    /\ broken' = TRUE
    /\ UNCHANGED <<control, requests, splits>>
    /\ ServerLeavesAlone

\* The server closes every connection.
HangUp ==
    /\ ServerFails
    /\ control = "open"
    /\ control' = "lost"
    /\ data' = [n \in DataThreads |-> IF data[n] = "none" THEN "none" ELSE "over"]
    /\ broken' = TRUE
    /\ UNCHANGED <<requests, stream, splits>>
    /\ ServerLeavesAlone

-----------------------------------------------------------------------------
CmdWorks ==
    \/ Login \/ Answered \/ PasvAnswered \/ StartAnswered
    \/ Report \/ Shout \/ Ask \/ Bye
    \/ LockConsole \/ NamePath \/ AskPasv \/ AskStart \/ Connect

DataWorks(n) ==
    \/ SaveAll(n) \/ LockToPrint(n) \/ PrintAll(n)
    \/ Announce(n) \/ SendPiece(n) \/ SendEnds(n)
    \/ LockToEnd(n) \/ Ended(n)

ReaderWorks == StopReceiving \/ \E k \in 1 .. MaxBatch : Receive(k) \/ ReceivePart(k)

ServerWorks ==
    \/ \E code \in UNION {Codes[k] : k \in Kinds} : Answer(code)
    \/ \E n \in DataThreads, code \in Codes["end"] : Finish(n, code)

Next ==
    \/ CmdWorks
    \/ StartTyping
    \/ \E verb \in Verbs : Type(verb)
    \/ \E n \in DataThreads : DataWorks(n)
    \/ \E t \in Threads : Sleep(t)
    \/ ReaderWorks
    \/ ServerWorks
    \/ AnswerOn
    \/ HangUp \/ \E n \in DataThreads : BreakUpload(n)

Spec == Init /\ [][Next]_vars

\* The threads run, a line begun is typed to its end, and the server answers
\* what it is asked and ends its transfers.  Nobody has to press a key.
Fairness ==
    /\ WF_vars(CmdWorks)
    /\ WF_vars(\E verb \in Verbs : Type(verb))
    /\ \A n \in DataThreads : WF_vars(DataWorks(n))
    /\ WF_vars(ReaderWorks)
    /\ WF_vars(ServerWorks)
    /\ \A t \in Threads : WF_vars(t \in woken /\ Sleep(t))

LiveSpec == Spec /\ Fairness

-----------------------------------------------------------------------------
(***************************************************************************)
(* Properties.                                                             *)
(***************************************************************************)
TypeOK ==
    /\ pc \in [Threads -> CmdPlaces \cup DataPlaces]
    /\ pc[Cmd] \in CmdPlaces
    /\ \A n \in DataThreads : pc[n] \in DataPlaces
    /\ inout \in Threads \cup {NoThread}
    /\ control \in {"open", "closed", "lost"}
    /\ {receiving, crossed, overlapped, broken} \subseteq BOOLEAN
    /\ splits \in 0 .. MaxSplits
    /\ typed \in Seq(Asks) /\ Now <= MaxCommands
    /\ pieces \in [DataThreads -> 0 .. MaxPieces]
    /\ requests \in Seq([kind : Kinds, n : 0 .. MaxCommands])
    /\ stream \in Seq(Lines)
    /\ data \in [DataThreads -> {"none", "open", "closed", "over"}]
    /\ msgQueue \in Seq(Lines)
    /\ {waiting, woken} \subseteq SUBSET Threads

\* InOutMtx is held exactly by the thread that is between its lock and its
\* unlock: every way out of a command, the failing ones too, releases it, and
\* no thread takes it while it is held.
LockDiscipline ==
    \A t \in Threads : (inout = t) <=> (pc[t] \in CmdHolds \cup DataHolds)

\* At most two threads are ever in cv.wait: the holder of InOutMtx and the
\* command thread in pwd, cwd or quit, which wait without it.
FewSleepers == \A t \in waiting \cup woken : t = Cmd \/ t = inout

\* The user waits for each transfer, the server breaks nothing off, and each
\* reply is one line that comes whole.
Regular == ~overlapped /\ ~broken /\ splits = 0

\* A thread takes a reply meant for another one only after a command was
\* typed while a data thread ran, after the server broke something off, or
\* after a reply became two lines.
CrossedOnlyBeside == crossed => ~Regular

\* A user who waits for each transfer finds nothing on its way at the prompt,
\* so the next command has its own reply at the front.  An upload the server
\* broke leaves one line, however the session goes on: as long as it is open
\* the commands are one reply late, not more and more.
PromptIsClean ==
    (/\ pc[Cmd] = "idle" /\ \A n \in DataThreads : ~Busy(n)
     /\ control = "open" /\ ~overlapped /\ splits = 0)
        => Len(msgQueue) + Len(stream) + Len(requests) <= IF broken THEN 1 ELSE 0

\* Without such an event, the client gives up the control connection only if
\* the server refuses to log it in or to open a data connection.
SessionKept ==
    (control = "closed" /\ Alive /\ Regular)
        => \E i \in DOMAIN taken : taken[i].reply.code = 425

\* The server has closed the connection, every reply it sent has been taken,
\* and t waits for another one: recv returns 0 for ever, and nobody is told.
Stranded(t) ==
    /\ control = "lost"
    /\ stream = <<>> /\ msgQueue = <<>>
    /\ pc[t] \in Kinds

\* At the prompt, and no thread keeps the command thread from locking InOutMtx
\* there for ever, unless it is stranded itself.
AtPrompt ==
    /\ pc[Cmd] = "idle"
    /\ inout = NoThread \/ Stranded(inout)

\* A thread waits for ever only on a connection that the server has closed,
\* with nothing left to take: because it hung up, or because it answered a quit
\* and the quit had taken another command's reply (an upload broken off leaves
\* one).  Otherwise a user who waits for each transfer gets the prompt back,
\* with InOutMtx free to read a line under it ...
PromptReturns ==
    pc[Cmd] # "idle" ~> AtPrompt \/ pc[Cmd] = "exited" \/ Stranded(Cmd)

\* ... and his transfers, of which there is one at a time, come to their end.
TransfersEnd ==
    (\E n \in DataThreads : Busy(n)) ~>
        \A n \in DataThreads : ~Busy(n) \/ Stranded(n)

\* Each reply goes to the thread that asked for it.
RightReply == ~crossed
=============================================================================
