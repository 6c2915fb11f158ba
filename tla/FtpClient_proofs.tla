------------------------- MODULE FtpClient_proofs -------------------------
(***************************************************************************)
(* Proofs about FtpClient, for any number of commands, lines per recv,     *)
(* split replies and buffers: InOutMtx is held exactly where the code holds*)
(* it, only its holder and the command thread are ever asleep in the queue *)
(* of replies, the client uses that queue as ReplyQueue describes it, and  *)
(* replies are mixed up, late or read as a refusal only after the events   *)
(* that the properties name.                                               *)
(*                                                                         *)
(* LockDiscipline is not inductive by itself: that a data thread is        *)
(* started needs to know which command is being carried out, and           *)
(* FewSleepers needs to know that who sleeps is at a place where it waits. *)
(* That replies are paired with requests needs all there is on its way,    *)
(* place by place: the invariant Paired, in the second half.               *)
(***************************************************************************)
EXTENDS FtpClient, SequenceTheorems, TLAPS

Holds == CmdHolds \cup DataHolds

PlacesOf(t) == IF t = Cmd THEN CmdPlaces ELSE DataPlaces

\* Each thread is at a place of its own code.
Places ==
    /\ DOMAIN pc = Threads
    /\ \A t \in Threads : pc[t] \in PlacesOf(t)

\* Whose command is under way: one that moves data, from the lock on.
MovesData == {"ask_pasv", "pasv", "connect", "ask_start", "start"}

CommandPath ==
    /\ typed \in Seq(Asks)
    /\ Now <= MaxCommands
    /\ pc[Cmd] \in MovesData \cup {"lock", "path", "ask"} => Now # 0
    /\ pc[Cmd] \in MovesData => Verb \in Transfers
    /\ pc[Cmd] \in {"lock", "path"} => Verb \in Transfers \cup {"cwd"}
    /\ pc[Cmd] = "ask" => Verb \in {"pwd", "cwd", "quit"}

Mutex ==
    /\ inout \in Threads \cup {NoThread}
    /\ LockDiscipline

\* Who is asleep, or was woken, is at a place where it waits for a reply.
Sleepers ==
    \A t \in waiting \cup woken : t \in Threads /\ pc[t] \in Kinds

IInv == Places /\ CommandPath /\ Mutex /\ Sleepers

-----------------------------------------------------------------------------
(***************************************************************************)
(* The constants.                                                          *)
(***************************************************************************)
LEMMA ThreadFacts ==
    /\ MaxCommands \in Nat
    /\ Cmd \in Threads
    /\ Cmd \notin DataThreads
    /\ DataThreads \subseteq Threads
    /\ NoThread \notin Threads
  BY FtpClientAssumption DEF Cmd, Threads, DataThreads, NoThread

LEMMA KindsAre ==
    Kinds = {"greet", "user", "pass", "pasv", "start", "end", "pwd", "cwd", "quit"}
  BY DEF Kinds, Codes

-----------------------------------------------------------------------------
(***************************************************************************)
(* A step of one thread t to a place.                                      *)
(***************************************************************************)
\* InOutMtx follows the place: it is kept, taken or given back with it.
LEMMA MutexStep ==
    ASSUME Places, Mutex, NEW t \in Threads, NEW place \in PlacesOf(t),
           pc' = [pc EXCEPT ![t] = place],
           \/ inout' = inout /\ (pc[t] \in Holds <=> place \in Holds)
           \/ inout = NoThread /\ inout' = t /\ place \in Holds
           \/ pc[t] \in Holds /\ inout' = NoThread /\ place \notin Holds
    PROVE  Places' /\ Mutex'
  <1>1. /\ DOMAIN pc' = Threads
        /\ pc'[t] = place
        /\ \A u \in Threads \ {t} : pc'[u] = pc[u]
    BY DEF Places
  <1>2. Places'
    BY <1>1 DEF Places
  <1>3. /\ inout \in Threads \cup {NoThread}
        /\ \A u \in Threads : (inout = u) <=> (pc[u] \in Holds)
    BY DEF Mutex, LockDiscipline, Holds
  <1>4. NoThread \notin Threads
    BY ThreadFacts
  <1>5. /\ inout' \in Threads \cup {NoThread}
        /\ \A u \in Threads : (inout' = u) <=> (pc'[u] \in Holds)
    <2>1. CASE inout' = inout /\ (pc[t] \in Holds <=> place \in Holds)
      BY <2>1, <1>1, <1>3, Zenon
    <2>2. CASE inout = NoThread /\ inout' = t /\ place \in Holds
      BY <2>2, <1>1, <1>3, <1>4, Zenon
    <2>3. CASE pc[t] \in Holds /\ inout' = NoThread /\ place \notin Holds
      BY <2>3, <1>1, <1>3, <1>4, Zenon
    <2> QED
      BY <2>1, <2>2, <2>3
  <1> QED
    BY <1>2, <1>5 DEF Mutex, LockDiscipline, Holds

\* The other threads sleep on.
LEMMA SleepersStep ==
    ASSUME Places, Sleepers, NEW t \in Threads, NEW place,
           pc' = [pc EXCEPT ![t] = place],
           waiting' \subseteq waiting, woken' \subseteq woken,
           t \notin waiting' \cup woken'
    PROVE  Sleepers'
  BY DEF Places, Sleepers

\* What a step that takes no reply needs of the queue.
LEMMA Undisturbed ==
    ASSUME Sleepers, NEW t, pc[t] \notin Kinds, Rest
    PROVE  /\ waiting' \subseteq waiting
           /\ woken' \subseteq woken
           /\ t \notin waiting' \cup woken'
  BY DEF Sleepers, Rest, queue

LEMMA Served ==
    ASSUME NEW t \in Threads, Take(t)
    PROVE  /\ waiting' \subseteq waiting
           /\ woken' \subseteq woken
           /\ t \notin waiting' \cup woken'
           /\ typed' = typed
  BY DEF Take, Q!Take

-----------------------------------------------------------------------------
THEOREM InitInv == Init => IInv
  <1> SUFFICES ASSUME Init PROVE IInv
    OBVIOUS
  <1>1. pc = [t \in Threads |-> IF t = Cmd THEN "greet" ELSE "none"]
    BY DEF Init
  <1>2. Places
    BY <1>1 DEF Places, PlacesOf, CmdPlaces, DataPlaces
  <1>3. Mutex
    <2>1. inout = NoThread
      BY DEF Init
    <2>2. \A t \in Threads : pc[t] \notin CmdHolds \cup DataHolds
      BY <1>1 DEF CmdHolds, DataHolds
    <2> QED
      BY <2>1, <2>2, ThreadFacts DEF Mutex, LockDiscipline
  <1>4. Sleepers
    BY DEF Init, Q!Init, Sleepers
  <1>5. CommandPath
    <2>1. pc[Cmd] = "greet"
      BY <1>1, ThreadFacts
    <2>2. typed = <<>>
      BY DEF Init
    <2>3. typed \in Seq(Asks) /\ Now = 0
      BY <2>2, EmptySeq DEF Now
    <2> QED
      BY <2>1, <2>3, ThreadFacts DEF CommandPath, MovesData
  <1> QED
    BY <1>2, <1>3, <1>4, <1>5 DEF IInv

-----------------------------------------------------------------------------
(***************************************************************************)
(* The steps of the command thread.                                        *)
(***************************************************************************)
LEMMA CmdPlaceFacts == Cmd \in Threads /\ PlacesOf(Cmd) = CmdPlaces
  BY ThreadFacts DEF PlacesOf

LEMMA CmdStep ==
    ASSUME IInv, NEW place \in CmdPlaces,
           pc' = [pc EXCEPT ![Cmd] = place],
           \/ inout' = inout /\ (pc[Cmd] \in Holds <=> place \in Holds)
           \/ inout = NoThread /\ inout' = Cmd /\ place \in Holds
           \/ pc[Cmd] \in Holds /\ inout' = NoThread /\ place \notin Holds,
           waiting' \subseteq waiting, woken' \subseteq woken,
           Cmd \notin waiting' \cup woken',
           typed' = typed,
           place \in MovesData => Now # 0 /\ Verb \in Transfers,
           place \in {"lock", "path"} => Now # 0 /\ Verb \in Transfers \cup {"cwd"},
           place = "ask" => Now # 0 /\ Verb \in {"pwd", "cwd", "quit"}
    PROVE  IInv'
  <1>1. Cmd \in Threads /\ place \in PlacesOf(Cmd)
    BY CmdPlaceFacts
  <1>2. Places' /\ Mutex'
    BY <1>1, MutexStep DEF IInv
  <1>3. Sleepers'
    BY <1>1, SleepersStep DEF IInv
  <1>4. pc'[Cmd] = place
    BY <1>1 DEF IInv, Places
  <1>5. CommandPath'
    BY <1>4 DEF IInv, CommandPath, Now, Verb
  <1> QED
    BY <1>2, <1>3, <1>5 DEF IInv

\* A step that takes no reply and leaves its place, where it did not wait.
LEMMA CmdRest ==
    ASSUME IInv, NEW place \in CmdPlaces, pc[Cmd] \notin Kinds, Rest, typed' = typed,
           pc' = [pc EXCEPT ![Cmd] = place],
           \/ inout' = inout /\ (pc[Cmd] \in Holds <=> place \in Holds)
           \/ inout = NoThread /\ inout' = Cmd /\ place \in Holds
           \/ pc[Cmd] \in Holds /\ inout' = NoThread /\ place \notin Holds,
           place \in MovesData => Now # 0 /\ Verb \in Transfers,
           place \in {"lock", "path"} => Now # 0 /\ Verb \in Transfers \cup {"cwd"},
           place = "ask" => Now # 0 /\ Verb \in {"pwd", "cwd", "quit"}
    PROVE  IInv'
  <1>1. /\ waiting' \subseteq waiting
        /\ woken' \subseteq woken
        /\ Cmd \notin waiting' \cup woken'
    BY Undisturbed DEF IInv
  <1> QED
    BY <1>1, CmdStep

\* A step that takes a reply.
LEMMA CmdTake ==
    ASSUME IInv, NEW place \in CmdPlaces, Take(Cmd),
           pc' = [pc EXCEPT ![Cmd] = place],
           \/ inout' = inout /\ (pc[Cmd] \in Holds <=> place \in Holds)
           \/ pc[Cmd] \in Holds /\ inout' = NoThread /\ place \notin Holds,
           place \in MovesData => Now # 0 /\ Verb \in Transfers,
           place \notin {"lock", "path", "ask"}
    PROVE  IInv'
  <1>1. /\ waiting' \subseteq waiting
        /\ woken' \subseteq woken
        /\ Cmd \notin waiting' \cup woken'
        /\ typed' = typed
    BY Served, ThreadFacts
  <1> QED
    BY <1>1, CmdStep

LEMMA LoginInv == ASSUME IInv, Login PROVE IInv'
  <1>1. Take(Cmd) /\ inout' = inout /\ pc[Cmd] \in {"greet", "user", "pass"}
    BY DEF Login
  <1>2. PICK place \in {"user", "pass", "idle", "exited"} : pc' = [pc EXCEPT ![Cmd] = place]
    BY DEF Login, Goto, Exit, LoginNext
  <1>3. /\ place \in CmdPlaces
        /\ pc[Cmd] \in Holds <=> place \in Holds
        /\ place \notin MovesData
    BY <1>1, <1>2 DEF CmdPlaces, CmdHolds, DataHolds, Holds, MovesData
  <1> QED
    BY <1>1, <1>2, <1>3, CmdTake

LEMMA StartTypingInv == ASSUME IInv, StartTyping PROVE IInv'
  <1>1. /\ pc[Cmd] = "idle" /\ Rest /\ typed' = typed
        /\ pc' = [pc EXCEPT ![Cmd] = "typing"]
        /\ inout = NoThread /\ inout' = Cmd
    BY DEF StartTyping, Lock, Goto
  <1>2. /\ "typing" \in CmdPlaces
        /\ "typing" \in Holds
        /\ "typing" \notin MovesData
        /\ "idle" \notin Kinds
    BY KindsAre DEF CmdPlaces, CmdHolds, Holds, MovesData
  <1> QED
    BY <1>1, <1>2, CmdRest

LEMMA TypeInv == ASSUME IInv, NEW verb \in Verbs, Type(verb) PROVE IInv'
  <1> DEFINE place == PlaceOf(verb)
  <1>1. verb \in AllVerbs
    BY FtpClientAssumption
  <1>2. /\ pc[Cmd] = "typing" /\ Rest
        /\ pc' = [pc EXCEPT ![Cmd] = place]
        /\ inout' = NoThread
    BY DEF Type, Unlock, Goto
  <1>3. place \in {"lock", "ask", "report", "shout", "idle"}
    BY <1>1 DEF PlaceOf, AllVerbs, Transfers
  <1>4. /\ place = "lock" => verb \in Transfers \cup {"cwd"}
        /\ place = "ask" => verb \in {"pwd", "quit"}
    BY <1>1 DEF PlaceOf, AllVerbs, Transfers
  <1> HIDE DEF place
  <1>5. /\ place \in CmdPlaces /\ place \notin Holds
        /\ pc[Cmd] \in Holds
        /\ pc[Cmd] \notin Kinds
    BY <1>2, <1>3, KindsAre DEF CmdPlaces, CmdHolds, DataHolds, Holds
  <1>6. Cmd \in Threads /\ place \in PlacesOf(Cmd)
    BY <1>5, CmdPlaceFacts
  <1>7. Places' /\ Mutex'
    BY <1>2, <1>5, <1>6, MutexStep DEF IInv
  <1>8. Sleepers'
    BY <1>2, <1>5, <1>6, Undisturbed, SleepersStep DEF IInv
  <1>9. CommandPath'
    <2>1. pc'[Cmd] = place
      BY <1>2, <1>6 DEF IInv, Places
    <2>2. CASE verb \in Asks
      <3>1. /\ typed' = Append(typed, verb)
            /\ Now < MaxCommands
        BY <2>2 DEF Type
      <3>2. /\ typed' \in Seq(Asks)
            /\ Len(typed') = Now + 1
            /\ typed'[Now + 1] = verb
            /\ Now \in Nat
        BY <3>1, <2>2 DEF IInv, CommandPath, Now
      <3>3. Now' = Now + 1 /\ Verb' = verb
        BY <3>2 DEF Now, Verb
      <3>4. Now' # 0 /\ Now' <= MaxCommands
        BY <3>1, <3>2, <3>3, ThreadFacts
      <3> QED
        BY <2>1, <3>2, <3>3, <3>4, <1>3, <1>4 DEF CommandPath, MovesData
    <2>3. CASE verb \notin Asks
      <3>1. typed' = typed
        BY <2>3 DEF Type
      <3>2. place \notin {"lock", "ask"}
        BY <2>3, <1>4 DEF Asks, Transfers
      <3> QED
        BY <2>1, <3>1, <3>2, <1>3 DEF IInv, CommandPath, MovesData, Now, Verb
    <2> QED
      BY <2>2, <2>3
  <1> QED
    BY <1>7, <1>8, <1>9 DEF IInv

LEMMA PrintInv == ASSUME IInv, Report \/ Shout \/ Bye PROVE IInv'
  <1>1. /\ pc[Cmd] \in {"report", "shout", "bye"}
        /\ inout' = inout /\ Rest /\ typed' = typed
    BY DEF Report, Shout, Bye, PrintLocked
  <1>2. PICK place \in {"idle", "exited"} : pc' = [pc EXCEPT ![Cmd] = place]
    BY DEF Report, Shout, Bye, Exit, Goto
  <1>3. /\ place \in CmdPlaces /\ place \notin Holds /\ pc[Cmd] \notin Holds
        /\ place \notin MovesData
        /\ pc[Cmd] \notin Kinds
    BY <1>1, <1>2, KindsAre DEF CmdPlaces, CmdHolds, DataHolds, Holds, MovesData
  <1> QED
    BY <1>1, <1>2, <1>3, CmdRest

LEMMA AskInv == ASSUME IInv, Ask PROVE IInv'
  <1>1. pc[Cmd] = "ask" /\ inout' = inout /\ Rest /\ typed' = typed
    BY DEF Ask
  <1>2. Verb \in {"pwd", "cwd", "quit"}
    BY <1>1 DEF IInv, CommandPath
  <1>3. PICK place \in {"pwd", "cwd", "quit", "report"} : pc' = [pc EXCEPT ![Cmd] = place]
    BY <1>2 DEF Ask, Goto
  <1>4. /\ place \in CmdPlaces /\ place \notin Holds /\ pc[Cmd] \notin Holds
        /\ place \notin MovesData
        /\ pc[Cmd] \notin Kinds
    BY <1>1, <1>3, KindsAre DEF CmdPlaces, CmdHolds, DataHolds, Holds, MovesData
  <1> QED
    BY <1>1, <1>3, <1>4, CmdRest

LEMMA AnsweredInv == ASSUME IInv, Answered PROVE IInv'
  <1>1. pc[Cmd] \in {"pwd", "cwd", "quit"} /\ Take(Cmd) /\ inout' = inout
    BY DEF Answered
  <1>2. PICK place \in {"shout", "bye", "report"} : pc' = [pc EXCEPT ![Cmd] = place]
    BY DEF Answered, Goto
  <1>3. /\ place \in CmdPlaces /\ place \notin Holds /\ pc[Cmd] \notin Holds
        /\ place \notin MovesData
    BY <1>1, <1>2 DEF CmdPlaces, CmdHolds, DataHolds, Holds, MovesData
  <1> QED
    BY <1>1, <1>2, <1>3, CmdTake

LEMMA LockConsoleInv == ASSUME IInv, LockConsole PROVE IInv'
  <1>1. /\ pc[Cmd] = "lock" /\ Rest /\ typed' = typed
        /\ inout = NoThread /\ inout' = Cmd
    BY DEF LockConsole, Lock
  <1>2. Now # 0 /\ Verb \in Transfers \cup {"cwd"}
    BY <1>1 DEF IInv, CommandPath
  <1>3. PICK place \in {"ask_pasv", "path"} :
            pc' = [pc EXCEPT ![Cmd] = place] /\ (place = "ask_pasv" => Verb \in Transfers)
    BY DEF LockConsole, Goto, Transfers
  <1>4. /\ place \in CmdPlaces /\ place \in Holds
        /\ pc[Cmd] \notin Kinds
        /\ place \in MovesData => Verb \in Transfers
    BY <1>1, <1>3, KindsAre DEF CmdPlaces, CmdHolds, Holds, MovesData
  <1> QED
    BY <1>1, <1>2, <1>3, <1>4, CmdRest

LEMMA NamePathInv == ASSUME IInv, NamePath PROVE IInv'
  <1>1. pc[Cmd] = "path" /\ Rest /\ typed' = typed
    BY DEF NamePath
  <1>2. Now # 0 /\ Verb \in Transfers \cup {"cwd"}
    BY <1>1 DEF IInv, CommandPath
  <1>3. /\ pc[Cmd] \in Holds /\ pc[Cmd] \notin Kinds
        /\ {"ask", "ask_pasv", "idle"} \subseteq CmdPlaces
        /\ "ask_pasv" \in Holds /\ {"ask", "idle"} \cap Holds = {}
        /\ {"ask", "idle"} \cap MovesData = {}
    BY <1>1, KindsAre DEF CmdPlaces, CmdHolds, DataHolds, Holds, MovesData
  <1>4. CASE Verb = "cwd" /\ Goto(Cmd, "ask") /\ Unlock
    BY <1>1, <1>2, <1>3, <1>4, CmdRest DEF Goto, Unlock
  <1>5. CASE Verb # "cwd" /\ Goto(Cmd, "ask_pasv") /\ UNCHANGED inout
    BY <1>1, <1>2, <1>3, <1>5, CmdRest DEF Goto
  <1>6. CASE Leave
    BY <1>1, <1>3, <1>6, CmdRest DEF Leave, Goto, Unlock
  <1> QED
    BY <1>4, <1>5, <1>6 DEF NamePath

LEMMA AskForInv ==
    ASSUME IInv, NEW kind \in {"pasv", "start"}, pc[Cmd] \in {"ask_pasv", "ask_start"},
           AskFor(kind)
    PROVE  IInv'
  <1>1. Rest /\ typed' = typed
    BY DEF AskFor
  <1>2. Now # 0 /\ Verb \in Transfers
    BY DEF IInv, CommandPath, MovesData
  <1>3. /\ pc[Cmd] \in Holds /\ pc[Cmd] \notin Kinds
        /\ {kind, "idle"} \subseteq CmdPlaces
        /\ kind \in Holds /\ "idle" \notin Holds /\ "idle" \notin MovesData
        /\ kind \notin {"lock", "path", "ask"}
    BY KindsAre DEF CmdPlaces, CmdHolds, DataHolds, Holds, MovesData
  <1>4. CASE Goto(Cmd, kind) /\ UNCHANGED inout
    BY <1>1, <1>2, <1>3, <1>4, CmdRest DEF Goto
  <1>5. CASE Leave
    BY <1>1, <1>3, <1>5, CmdRest DEF Leave, Goto, Unlock
  <1> QED
    BY <1>4, <1>5 DEF AskFor

LEMMA PasvInv == ASSUME IInv, PasvAnswered PROVE IInv'
  <1>1. pc[Cmd] = "pasv" /\ Take(Cmd)
    BY DEF PasvAnswered
  <1>2. Now # 0 /\ Verb \in Transfers
    BY <1>1 DEF IInv, CommandPath, MovesData
  <1>3. /\ pc[Cmd] \in Holds
        /\ {"connect", "idle"} \subseteq CmdPlaces
        /\ "connect" \in Holds /\ "idle" \notin Holds /\ "idle" \notin MovesData
    BY <1>1 DEF CmdPlaces, CmdHolds, DataHolds, Holds, MovesData
  <1>4. CASE Goto(Cmd, "connect") /\ UNCHANGED <<inout, control>>
    BY <1>1, <1>2, <1>3, <1>4, CmdTake DEF Goto
  <1>5. CASE Leave
    BY <1>1, <1>3, <1>5, CmdTake DEF Leave, Goto, Unlock
  <1> QED
    BY <1>4, <1>5 DEF PasvAnswered

LEMMA ConnectInv == ASSUME IInv, Connect PROVE IInv'
  <1>1. pc[Cmd] = "connect" /\ Rest /\ typed' = typed
    BY DEF Connect
  <1>2. Now # 0 /\ Verb \in Transfers
    BY <1>1 DEF IInv, CommandPath, MovesData
  <1>3. /\ pc[Cmd] \in Holds /\ pc[Cmd] \notin Kinds
        /\ {"ask_start", "idle"} \subseteq CmdPlaces
        /\ "ask_start" \in Holds /\ "idle" \notin Holds /\ "idle" \notin MovesData
    BY <1>1, KindsAre DEF CmdPlaces, CmdHolds, DataHolds, Holds, MovesData
  <1>4. CASE Goto(Cmd, "ask_start") /\ UNCHANGED inout
    BY <1>1, <1>2, <1>3, <1>4, CmdRest DEF Goto
  <1>5. CASE Leave
    BY <1>1, <1>3, <1>5, CmdRest DEF Leave, Goto, Unlock
  <1> QED
    BY <1>4, <1>5 DEF Connect

\* The data thread that is started has held nothing: the command thread does.
LEMMA StartInv == ASSUME IInv, StartAnswered PROVE IInv'
  <1>1. pc[Cmd] = "start" /\ Take(Cmd) /\ inout' = NoThread
    BY DEF StartAnswered, Unlock
  <1>2. /\ pc[Cmd] \in Holds /\ "idle" \in CmdPlaces
        /\ "idle" \notin Holds /\ "idle" \notin MovesData
    BY <1>1 DEF CmdPlaces, CmdHolds, DataHolds, Holds, MovesData
  <1>3. CASE Goto(Cmd, "idle")
    BY <1>1, <1>2, <1>3, CmdTake DEF Goto
  <1>4. CASE \E place \in FirstPlace[Verb] :
                pc' = [pc EXCEPT ![Cmd] = "idle", ![Now] = place]
    <2>1. Now # 0 /\ Verb \in Transfers /\ Now <= MaxCommands /\ Now \in Nat
      BY <1>1 DEF IInv, CommandPath, MovesData, Now
    <2>2. Now \in DataThreads /\ Now \in Threads /\ Now # Cmd /\ Cmd \in Threads
      BY <2>1, ThreadFacts DEF DataThreads, Cmd, Threads
    <2>3. PICK place \in {"lock_print", "saving", "begin"} :
              pc' = [pc EXCEPT ![Cmd] = "idle", ![Now] = place]
      <3>1. FirstPlace[Verb] \subseteq {"lock_print", "saving", "begin"}
        <4>1. CASE Verb = "list"
          BY <4>1 DEF FirstPlace
        <4>2. CASE Verb = "retr"
          BY <4>2 DEF FirstPlace
        <4>3. CASE Verb = "stor"
          BY <4>3 DEF FirstPlace
        <4> QED
          BY <4>1, <4>2, <4>3, <2>1 DEF Transfers
      <3> QED
        BY <3>1, <1>4
    <2>4. /\ DOMAIN pc' = Threads
          /\ pc'[Cmd] = "idle"
          /\ pc'[Now] = place
          /\ \A u \in Threads \ {Cmd, Now} : pc'[u] = pc[u]
      BY <2>2, <2>3 DEF IInv, Places
    <2>5. place \in DataPlaces /\ place \notin Holds
      BY <2>3 DEF DataPlaces, CmdHolds, DataHolds, Holds
    <2>6. Places'
      BY <2>2, <2>4, <2>5, <1>2 DEF IInv, Places, PlacesOf
    <2>7. \A u \in Threads : (inout = u) <=> (pc[u] \in Holds)
      BY DEF IInv, Mutex, LockDiscipline, Holds
    <2>8. inout = Cmd
      BY <2>2, <2>7, <1>2
    <2>9. \A u \in Threads : pc'[u] \notin Holds
      BY <2>2, <2>4, <2>5, <2>7, <2>8, <1>2
    <2>10. Mutex'
      BY <2>9, <1>1, ThreadFacts DEF Mutex, LockDiscipline, Holds
    <2>11. /\ waiting' \subseteq waiting
           /\ woken' \subseteq woken
           /\ Cmd \notin waiting' \cup woken'
           /\ typed' = typed
      BY <1>1, <2>2, Served
    <2>12. Now \notin waiting \cup woken
      <3>1. pc[Now] \in DataPlaces /\ pc[Now] \notin Holds
        BY <2>2, <2>7, <2>8 DEF IInv, Places, PlacesOf
      <3>2. pc[Now] \notin Kinds
        BY <3>1, KindsAre DEF DataPlaces, DataHolds, Holds
      <3> QED
        BY <3>2 DEF IInv, Sleepers
    <2>13. Sleepers'
      BY <2>4, <2>11, <2>12 DEF IInv, Sleepers
    <2>14. CommandPath'
      BY <2>4, <2>11, <1>2 DEF IInv, CommandPath, Now, Verb
    <2> QED
      BY <2>6, <2>10, <2>13, <2>14 DEF IInv
  <1> QED
    BY <1>3, <1>4 DEF StartAnswered
-----------------------------------------------------------------------------
(***************************************************************************)
(* The steps of a data thread.                                             *)
(***************************************************************************)
\* A step of thread n to a place leaves the command thread where it is.
LEMMA DataMoves ==
    ASSUME IInv, NEW n \in DataThreads, NEW place \in DataPlaces,
           pc' = [pc EXCEPT ![n] = place],
           \/ inout' = inout /\ (pc[n] \in Holds <=> place \in Holds)
           \/ inout = NoThread /\ inout' = n /\ place \in Holds
           \/ pc[n] \in Holds /\ inout' = NoThread /\ place \notin Holds,
           waiting' \subseteq waiting, woken' \subseteq woken,
           n \notin waiting' \cup woken',
           typed' = typed
    PROVE  IInv'
  <1>1. n \in Threads /\ n # Cmd /\ place \in PlacesOf(n)
    BY ThreadFacts DEF PlacesOf
  <1>2. Places' /\ Mutex'
    BY <1>1, MutexStep DEF IInv
  <1>3. Sleepers'
    BY <1>1, SleepersStep DEF IInv
  <1>4. pc'[Cmd] = pc[Cmd]
    BY <1>1, ThreadFacts DEF IInv, Places
  <1>5. CommandPath'
    BY <1>4 DEF IInv, CommandPath, Now, Verb
  <1> QED
    BY <1>2, <1>3, <1>5 DEF IInv

LEMMA DataRest ==
    ASSUME IInv, NEW n \in DataThreads, NEW place \in DataPlaces, DataStep(n),
           pc[n] \notin Kinds,
           pc' = [pc EXCEPT ![n] = place],
           \/ inout' = inout /\ (pc[n] \in Holds <=> place \in Holds)
           \/ inout = NoThread /\ inout' = n /\ place \in Holds
    PROVE  IInv'
  <1>1. Rest /\ typed' = typed
    BY DEF DataStep
  <1>2. /\ waiting' \subseteq waiting
        /\ woken' \subseteq woken
        /\ n \notin waiting' \cup woken'
    BY <1>1, Undisturbed DEF IInv
  <1> QED
    BY <1>1, <1>2, DataMoves

LEMMA DataWorksInv ==
    ASSUME IInv, NEW n \in DataThreads, DataWorks(n)
    PROVE  IInv'
  <1> USE DEF DataPlaces, CmdHolds, DataHolds, Holds, Goto
  <1>1. CASE SaveAll(n)
    <2>1. /\ pc[n] = "saving" /\ DataStep(n) /\ inout' = inout
          /\ pc' = [pc EXCEPT ![n] = "lock_end"]
      BY <1>1 DEF SaveAll
    <2> QED
      BY <2>1, KindsAre, DataRest
  <1>2. CASE LockToPrint(n)
    <2>1. /\ pc[n] = "lock_print" /\ DataStep(n) /\ inout = NoThread /\ inout' = n
          /\ pc' = [pc EXCEPT ![n] = "printing"]
      BY <1>2 DEF LockToPrint, Lock
    <2> QED
      BY <2>1, KindsAre, DataRest
  <1>3. CASE PrintAll(n)
    <2>1. /\ pc[n] = "printing" /\ DataStep(n) /\ inout' = inout
          /\ pc' = [pc EXCEPT ![n] = "end"]
      BY <1>3 DEF PrintAll
    <2> QED
      BY <2>1, KindsAre, DataRest
  <1>4. CASE Announce(n)
    <2>1. /\ pc[n] \in {"begin", "progress", "failed"} /\ DataStep(n) /\ inout' = inout
      BY <1>4 DEF Announce, PrintLocked
    <2>2. PICK place \in {"done", "sending"} : pc' = [pc EXCEPT ![n] = place]
      BY <1>4 DEF Announce
    <2> QED
      BY <2>1, <2>2, KindsAre, DataRest
  <1>5. CASE SendPiece(n)
    <2>1. pc[n] = "sending" /\ DataStep(n) /\ inout' = inout
      BY <1>5 DEF SendPiece
    <2>2. PICK place \in {"progress", "failed"} : pc' = [pc EXCEPT ![n] = place]
      BY <1>5 DEF SendPiece
    <2> QED
      BY <2>1, <2>2, KindsAre, DataRest
  <1>6. CASE SendEnds(n)
    <2>1. /\ pc[n] = "sending" /\ DataStep(n) /\ inout' = inout
          /\ pc' = [pc EXCEPT ![n] = "lock_end"]
      BY <1>6 DEF SendEnds
    <2> QED
      BY <2>1, KindsAre, DataRest
  <1>7. CASE LockToEnd(n)
    <2>1. /\ pc[n] = "lock_end" /\ DataStep(n) /\ inout = NoThread /\ inout' = n
          /\ pc' = [pc EXCEPT ![n] = "end"]
      BY <1>7 DEF LockToEnd, Lock
    <2> QED
      BY <2>1, KindsAre, DataRest
  <1>8. CASE Ended(n)
    <2>1. /\ pc[n] = "end" /\ Take(n) /\ inout' = NoThread
          /\ pc' = [pc EXCEPT ![n] = "done"]
      BY <1>8 DEF Ended, Unlock
    <2>2. /\ waiting' \subseteq waiting
          /\ woken' \subseteq woken
          /\ n \notin waiting' \cup woken'
          /\ typed' = typed
      BY <2>1, Served, ThreadFacts
    <2> QED
      BY <2>1, <2>2, DataMoves
  <1> QED
    BY <1>1, <1>2, <1>3, <1>4, <1>5, <1>6, <1>7, <1>8 DEF DataWorks

-----------------------------------------------------------------------------
(***************************************************************************)
(* The steps that move no thread.                                          *)
(***************************************************************************)
LEMMA NobodyMoves ==
    ASSUME IInv, pc' = pc, inout' = inout, typed' = typed, Sleepers'
    PROVE  IInv'
  BY DEF IInv, Places, CommandPath, Mutex, LockDiscipline, Now, Verb

LEMMA SleepInv == ASSUME IInv, NEW t \in Threads, Sleep(t) PROVE IInv'
  <1>1. pc' = pc /\ inout' = inout /\ typed' = typed /\ pc[t] \in Kinds
    BY DEF Sleep
  <1>2. waiting' \cup woken' \subseteq waiting \cup woken \cup {t}
    BY DEF Sleep, Q!Block, Q!SpuriousWake
  <1>3. Sleepers'
    BY <1>1, <1>2 DEF IInv, Sleepers
  <1> QED
    BY <1>1, <1>3, NobodyMoves

LEMMA ReaderInv == ASSUME IInv, ReaderWorks PROVE IInv'
  <1>1. pc' = pc /\ inout' = inout /\ typed' = typed
    BY DEF ReaderWorks, StopReceiving, Receive, ReceivePart
  <1>2. waiting' \cup woken' \subseteq waiting \cup woken
    <2>1. CASE StopReceiving
      BY <2>1 DEF StopReceiving, queue
    <2>2. ASSUME NEW k \in 1 .. MaxBatch, Receive(k)
          PROVE  waiting' \cup woken' \subseteq waiting \cup woken
      <3>1. Q!NotifyOne
        BY <2>2 DEF Receive, Q!Push
      <3> QED
        BY <3>1 DEF Q!NotifyOne
    <2>3. ASSUME NEW k \in 1 .. MaxBatch, ReceivePart(k)
          PROVE  waiting' \cup woken' \subseteq waiting \cup woken
      <3>1. Q!NotifyOne
        BY <2>3 DEF ReceivePart, Q!Push
      <3> QED
        BY <3>1 DEF Q!NotifyOne
    <2> QED
      BY <2>1, <2>2, <2>3 DEF ReaderWorks
  <1>3. Sleepers'
    BY <1>1, <1>2 DEF IInv, Sleepers
  <1> QED
    BY <1>1, <1>3, NobodyMoves

LEMMA ServerInv == ASSUME IInv, ServerLeavesAlone PROVE IInv'
  <1>1. /\ pc' = pc /\ inout' = inout /\ typed' = typed
        /\ waiting' = waiting /\ woken' = woken
    BY DEF ServerLeavesAlone, queue
  <1>2. Sleepers'
    BY <1>1 DEF IInv, Sleepers
  <1> QED
    BY <1>1, <1>2, NobodyMoves

-----------------------------------------------------------------------------
LEMMA CmdWorksInv == ASSUME IInv, CmdWorks PROVE IInv'
  <1>1. CASE AskPasv
    BY <1>1, AskForInv DEF AskPasv
  <1>2. CASE AskStart
    BY <1>2, AskForInv DEF AskStart
  <1> QED
    BY <1>1, <1>2, LoginInv, AnsweredInv, PasvInv, StartInv, PrintInv, AskInv,
       LockConsoleInv, NamePathInv, ConnectInv DEF CmdWorks

THEOREM StepInv == ASSUME IInv, [Next]_vars PROVE IInv'
  <1>1. CASE CmdWorks
    BY <1>1, CmdWorksInv
  <1>2. CASE StartTyping \/ \E verb \in Verbs : Type(verb)
    BY <1>2, StartTypingInv, TypeInv
  <1>3. CASE \E n \in DataThreads : DataWorks(n)
    BY <1>3, DataWorksInv
  <1>4. CASE \E t \in Threads : Sleep(t)
    BY <1>4, SleepInv
  <1>5. CASE ReaderWorks
    BY <1>5, ReaderInv
  <1>6. CASE ServerWorks \/ AnswerOn \/ HangUp \/ \E n \in DataThreads : BreakUpload(n)
    <2>1. ServerLeavesAlone
      BY <1>6 DEF ServerWorks, Answer, AnswerOn, Finish, HangUp, BreakUpload
    <2> QED
      BY <2>1, ServerInv
  <1>7. CASE UNCHANGED vars
    <2>1. /\ pc' = pc /\ inout' = inout /\ typed' = typed
          /\ waiting' = waiting /\ woken' = woken
      BY <1>7 DEF vars
    <2>2. Sleepers'
      BY <2>1 DEF IInv, Sleepers
    <2> QED
      BY <2>1, <2>2, NobodyMoves
  <1> QED
    BY <1>1, <1>2, <1>3, <1>4, <1>5, <1>6, <1>7 DEF Next

-----------------------------------------------------------------------------
\* The inductive invariant, of every behaviour of the client.
THEOREM Invariance == Spec => []IInv
  <1>1. IInv /\ [Next]_vars => IInv'
    BY StepInv
  <1> QED
    BY InitInv, <1>1, PTL DEF Spec

\* Every way out of a command or a data thread releases InOutMtx, and no
\* thread takes it while it is held.
THEOREM LockHeld == Spec => []LockDiscipline
  <1>1. IInv => LockDiscipline
    BY DEF IInv, Mutex
  <1> QED
    BY Invariance, <1>1, PTL

\* A data thread waits for a reply at one place only, and there it holds
\* InOutMtx: so two threads at most are asleep in cv.wait, and a notification
\* has at most two threads to choose from.
THEOREM TwoSleepers == Spec => []FewSleepers
  <1>1. IInv => FewSleepers
    <2> SUFFICES ASSUME IInv, NEW t \in waiting \cup woken, t # Cmd
                 PROVE  t = inout
      BY DEF FewSleepers
    <2>1. t \in Threads /\ pc[t] \in Kinds
      BY DEF IInv, Sleepers
    <2>2. pc[t] \in DataPlaces
      BY <2>1 DEF IInv, Places, PlacesOf
    <2>3. pc[t] = "end"
      BY <2>1, <2>2, KindsAre DEF DataPlaces, DataHolds
    <2> QED
      BY <2>1, <2>3 DEF IInv, Mutex, LockDiscipline, DataHolds
  <1> QED
    BY Invariance, <1>1, PTL

-----------------------------------------------------------------------------
(***************************************************************************)
(* Types, and the queue.                                                   *)
(***************************************************************************)
\* What TypeOK says beyond IInv, and who took what.
Types ==
    /\ pc \in [Threads -> CmdPlaces \cup DataPlaces]
    /\ control \in {"open", "closed", "lost"}
    /\ {receiving, crossed, overlapped, broken} \subseteq BOOLEAN
    /\ splits \in 0 .. MaxSplits
    /\ pieces \in [DataThreads -> 0 .. MaxPieces]
    /\ requests \in Seq([kind : Kinds, n : 0 .. MaxCommands])
    /\ data \in [DataThreads -> {"none", "open", "closed", "over"}]
    /\ stream \in Seq(Lines)
    /\ msgQueue \in Seq(Lines)
    /\ taken \in Seq([by : Threads, reply : Lines])

LEMMA LineFacts ==
    /\ \A k \in Kinds, n \in 0 .. MaxCommands : \A c \in Codes[k] :
           [kind |-> k, n |-> n, code |-> c] \in Lines
    /\ \A line \in Lines : \A c \in {line.code} \cup Leftovers :
           [line EXCEPT !.code = c] \in Lines
  <1>1. \A line : line \in Lines <=>
            \E k \in Kinds : line \in [kind : {k}, n : 0 .. MaxCommands,
                                       code : Codes[k] \cup Leftovers]
    BY DEF Lines
  <1>2. ASSUME NEW line \in Lines, NEW c \in {line.code} \cup Leftovers
        PROVE  [line EXCEPT !.code = c] \in Lines
    <2>1. PICK k \in Kinds : line \in [kind : {k}, n : 0 .. MaxCommands,
                                       code : Codes[k] \cup Leftovers]
      BY <1>1
    <2>2. [line EXCEPT !.code = c] \in [kind : {k}, n : 0 .. MaxCommands,
                                        code : Codes[k] \cup Leftovers]
      BY <2>1
    <2> QED
      BY <1>1, <2>2
  <1>3. ASSUME NEW k \in Kinds, NEW n \in 0 .. MaxCommands,
               NEW c \in Codes[k]
        PROVE  [kind |-> k, n |-> n, code |-> c] \in Lines
    BY <1>1, <1>3
  <1> QED
    BY <1>2, <1>3

\* GetReplyFromQueue returns: the other lines stay in the queue.
LEMMA TakeTypes ==
    ASSUME Types, NEW t \in Threads, Take(t)
    PROVE  /\ msgQueue' \in Seq(Lines)
           /\ stream' \in Seq(Lines)
           /\ {receiving', crossed', overlapped', broken'} \subseteq BOOLEAN
           /\ splits' = splits
           /\ taken' \in Seq([by : Threads, reply : Lines])
  <1>1. crossed' \in BOOLEAN
    BY DEF Take, IsFor
  <1>2. msgQueue' \in Seq(Lines)
    BY HeadTailProperties DEF Take, Q!Take, Types
  <1>3. /\ taken' = Append(taken, [by |-> t, reply |-> Head(msgQueue)])
        /\ Head(msgQueue) \in Lines /\ taken \in Seq([by : Threads, reply : Lines])
    BY HeadTailProperties DEF Take, Q!Take, Types
  <1>4. taken' \in Seq([by : Threads, reply : Lines])
    BY <1>3, AppendProperties
  <1> QED
    BY <1>1, <1>2, <1>4 DEF Take, Types

\* A step that takes no reply, up to overlapped.
LEMMA RestTypes ==
    ASSUME Types, Rest, overlapped' \in BOOLEAN
    PROVE  /\ msgQueue' \in Seq(Lines)
           /\ stream' \in Seq(Lines)
           /\ {receiving', crossed', overlapped', broken'} \subseteq BOOLEAN
           /\ splits' = splits
           /\ taken' \in Seq([by : Threads, reply : Lines])
  BY DEF Types, Rest, queue

\* A line to the server, from the command thread.
LEMMA SendTypes ==
    ASSUME IInv, Types, NEW kind \in Kinds, SendLine(kind)
    PROVE  requests' \in Seq([kind : Kinds, n : 0 .. MaxCommands])
  <1>1. Now \in 0 .. MaxCommands
    BY LenProperties, ThreadFacts DEF IInv, CommandPath, Now
  <1>2. [kind |-> kind, n |-> Now] \in [kind : Kinds, n : 0 .. MaxCommands]
    BY <1>1
  <1>3. Append(requests, [kind |-> kind, n |-> Now])
            \in Seq([kind : Kinds, n : 0 .. MaxCommands])
    BY <1>2, AppendProperties DEF Types
  <1> QED
    BY <1>3 DEF SendLine, Types

LEMMA AllPlaces ==
    ASSUME Types, NEW t \in Threads, NEW place \in CmdPlaces \cup DataPlaces, Goto(t, place)
    PROVE  pc' \in [Threads -> CmdPlaces \cup DataPlaces]
  BY DEF Goto, Types

-----------------------------------------------------------------------------
LEMMA CmdTypes ==
    ASSUME IInv, Types, CmdWorks \/ StartTyping \/ \E verb \in Verbs : Type(verb)
    PROVE  Types'
  <1> Cmd \in Threads
    BY ThreadFacts
  <1> USE AllPlaces
  <1>1. CASE Login
    <2>1. CASE \E place \in {"user", "pass"} : SendLine(place) /\ Goto(Cmd, place) /\ UNCHANGED control
      BY <1>1, <2>1, TakeTypes, SendTypes, KindsAre DEF Login, Types, CmdPlaces
    <2>2. CASE Goto(Cmd, "idle") /\ UNCHANGED <<control, requests>>
      BY <1>1, <2>2, TakeTypes DEF Login, Types, CmdPlaces
    <2>3. CASE Exit /\ UNCHANGED requests
      BY <1>1, <2>3, TakeTypes DEF Login, Types, CmdPlaces, Exit
    <2> QED
      BY <1>1, <2>1, <2>2, <2>3 DEF Login
  <1>2. CASE Answered
    BY <1>2, TakeTypes DEF Answered, Types, CmdPlaces
  <1>3. CASE PasvAnswered
    BY <1>3, TakeTypes, ZenonT(30) DEF PasvAnswered, Types, CmdPlaces, CmdHolds, Leave
  <1>4. CASE StartAnswered
    <2>1. pc[Cmd] = "start" /\ Take(Cmd) /\ UNCHANGED <<control, requests, data>>
      BY <1>4 DEF StartAnswered
    <2>2. Now \in DataThreads /\ Now \in Threads /\ Verb \in Transfers
      BY <2>1, ThreadFacts, LenProperties DEF IInv, CommandPath, MovesData, Now, DataThreads
    <2>3. CASE Goto(Cmd, "idle") /\ UNCHANGED pieces
      BY <2>1, <2>3, TakeTypes DEF Types, CmdPlaces
    <2>4. CASE /\ \E place \in FirstPlace[Verb] :
                     pc' = [pc EXCEPT ![Cmd] = "idle", ![Now] = place]
               /\ \E k \in (IF Verb = "stor" THEN 0 .. MaxPieces ELSE {0}) :
                     pieces' = [pieces EXCEPT ![Now] = k]
      <3>1. FirstPlace[Verb] \subseteq DataPlaces
        <4>1. CASE Verb = "list"
          BY <4>1 DEF FirstPlace, DataPlaces
        <4>2. CASE Verb = "retr"
          BY <4>2 DEF FirstPlace, DataPlaces
        <4>3. CASE Verb = "stor"
          BY <4>3 DEF FirstPlace, DataPlaces
        <4> QED
          BY <4>1, <4>2, <4>3, <2>2 DEF Transfers
      <3>2. pc' \in [Threads -> CmdPlaces \cup DataPlaces]
        BY <2>2, <2>4, <3>1 DEF Types, CmdPlaces
      <3>3. pieces' \in [DataThreads -> 0 .. MaxPieces]
        BY <2>2, <2>4, FtpClientAssumption DEF Types
      <3> QED
        BY <2>1, <3>2, <3>3, TakeTypes DEF Types
    <2> QED
      BY <1>4, <2>3, <2>4 DEF StartAnswered
  <1>5. CASE Report \/ Shout \/ LockConsole \/ NamePath \/ Connect \/ StartTyping
    <2>1. /\ Rest /\ UNCHANGED <<control, typed, pieces, requests, data, overlapped>>
          /\ \E place \in CmdPlaces : Goto(Cmd, place)
      BY <1>5 DEF Report, Shout, LockConsole, NamePath, Connect, StartTyping, Leave,
                  CmdPlaces, CmdHolds
    <2> QED
      BY <2>1, RestTypes DEF Types
  <1>6. CASE Bye
    BY <1>6, RestTypes DEF Bye, Exit, Types, CmdPlaces
  <1>7. CASE Ask
    <2>1. /\ pc[Cmd] = "ask" /\ Rest
          /\ UNCHANGED <<inout, control, typed, pieces, data, overlapped>>
      BY <1>7 DEF Ask
    <2>2. Verb \in {"pwd", "cwd", "quit"}
      BY <2>1 DEF IInv, CommandPath
    <2>3. CASE SendLine(Verb) /\ Goto(Cmd, Verb)
      BY <2>1, <2>2, <2>3, RestTypes, SendTypes, KindsAre DEF Types, CmdPlaces
    <2>4. CASE SendFails /\ Goto(Cmd, "report")
      BY <2>1, <2>4, RestTypes DEF Types, CmdPlaces, SendFails
    <2> QED
      BY <1>7, <2>3, <2>4 DEF Ask
  <1>8. ASSUME NEW kind \in {"pasv", "start"}, AskFor(kind)
        PROVE  Types'
    <2>1. Rest /\ UNCHANGED <<control, typed, pieces, data, overlapped>>
      BY <1>8 DEF AskFor
    <2>2. CASE SendLine(kind) /\ Goto(Cmd, kind)
      BY <2>1, <2>2, RestTypes, SendTypes, KindsAre DEF Types, CmdPlaces, CmdHolds
    <2>3. CASE SendFails /\ Leave
      BY <2>1, <2>3, RestTypes DEF Types, CmdPlaces, SendFails, Leave
    <2> QED
      BY <1>8, <2>2, <2>3 DEF AskFor
  <1>9. ASSUME NEW verb \in Verbs, Type(verb)
        PROVE  Types'
    <2>1. /\ Rest /\ UNCHANGED <<control, pieces, requests, data>>
          /\ Goto(Cmd, PlaceOf(verb)) /\ overlapped' \in BOOLEAN
      BY <1>9 DEF Type, Types
    <2>2. PlaceOf(verb) \in CmdPlaces
      BY FtpClientAssumption DEF PlaceOf, AllVerbs, Transfers, CmdPlaces
    <2> QED
      BY <2>1, <2>2, RestTypes DEF Types
  <1> QED
    BY <1>1, <1>2, <1>3, <1>4, <1>5, <1>6, <1>7, <1>8, <1>9
       DEF CmdWorks, AskPasv, AskStart

LEMMA DataTypes ==
    ASSUME IInv, Types, NEW n \in DataThreads, DataWorks(n)
    PROVE  Types'
  <1> n \in Threads
    BY ThreadFacts
  <1> USE AllPlaces
  <1>1. CASE Ended(n)
    BY <1>1, TakeTypes DEF Ended, Types, DataPlaces
  <1>2. CASE \/ SaveAll(n) \/ LockToPrint(n) \/ PrintAll(n) \/ Announce(n)
             \/ SendPiece(n) \/ SendEnds(n) \/ LockToEnd(n)
    <2>1. /\ DataStep(n)
          /\ \E place \in DataPlaces : Goto(n, place)
          /\ \/ UNCHANGED data
             \/ \E state \in {"over", "closed"} : data' = [data EXCEPT ![n] = state]
      BY <1>2 DEF SaveAll, LockToPrint, PrintAll, Announce, SendPiece, SendEnds, LockToEnd,
                  DataPlaces, DataHolds
    <2>2. pieces' \in [DataThreads -> 0 .. MaxPieces]
      <3>1. \/ UNCHANGED pieces
            \/ pieces[n] > 0 /\ pieces' = [pieces EXCEPT ![n] = pieces[n] - 1]
        BY <1>2 DEF SaveAll, LockToPrint, PrintAll, Announce, SendPiece, SendEnds, LockToEnd
      <3>2. pieces[n] > 0 => pieces[n] - 1 \in 0 .. MaxPieces
        BY FtpClientAssumption DEF Types
      <3> QED
        BY <3>1, <3>2 DEF Types
    <2>3. Rest /\ UNCHANGED <<control, requests, overlapped>>
      BY <2>1 DEF DataStep
    <2>4. data' \in [DataThreads -> {"none", "open", "closed", "over"}]
      BY <2>1 DEF Types
    <2>5. pc' \in [Threads -> CmdPlaces \cup DataPlaces]
      BY <2>1
    <2>6. overlapped' \in BOOLEAN
      BY <2>3 DEF Types
    <2> QED
      BY <2>2, <2>3, <2>4, <2>5, <2>6, RestTypes DEF Types
  <1> QED
    BY <1>1, <1>2 DEF DataWorks

\* What one recv takes of the stream.
LEMMA BatchFacts ==
    ASSUME Types, NEW k \in 1 .. MaxBatch, k <= Len(stream)
    PROVE  /\ stream[k] \in Lines
           /\ SubSeq(stream, 1, k) \in Seq(Lines) /\ Len(SubSeq(stream, 1, k)) = k
           /\ SubSeq(stream, 1, k - 1) \in Seq(Lines)
           /\ Len(SubSeq(stream, 1, k - 1)) = k - 1
           /\ SubSeq(stream, k + 1, Len(stream)) \in Seq(Lines)
  <1>1. MaxBatch \in Nat /\ Len(stream) \in Nat /\ stream \in Seq(Lines)
    BY FtpClientAssumption, LenProperties DEF Types
  <1>2. k \in 1 .. Len(stream) /\ k - 1 \in 0 .. Len(stream) /\ k + 1 \in 1 .. Len(stream) + 1
    BY <1>1
  <1>3. \A j \in 1 .. Len(stream) : stream[j] \in Lines
    BY <1>1, ElementOfSeq
  <1> QED
    BY <1>1, <1>2, <1>3, SubSeqProperties

\* Lines go from the stream into the queue, one of them perhaps in two pieces.
LEMMA ReaderTypes ==
    ASSUME Types, ReaderWorks
    PROVE  Types'
  <1>1. CASE StopReceiving
    BY <1>1 DEF StopReceiving, network, queue, history, Types
  <1>2. ASSUME NEW k \in 1 .. MaxBatch, k <= Len(stream),
               NEW batch \in Seq(Lines), Q!Push(batch)
        PROVE  msgQueue' \in Seq(Lines) /\ taken' = taken
    BY <1>2, ConcatProperties DEF Q!Push, Types
  <1>3. ASSUME NEW k \in 1 .. MaxBatch, Receive(k)
        PROVE  Types'
    <2>1. /\ k <= Len(stream) /\ Q!Push(SubSeq(stream, 1, k))
          /\ stream' = SubSeq(stream, k + 1, Len(stream))
          /\ UNCHANGED <<pc, control, receiving, pieces, requests, data, history>>
      BY <1>3 DEF Receive
    <2>2. stream' \in Seq(Lines) /\ msgQueue' \in Seq(Lines) /\ taken' = taken
      BY <2>1, <1>2, BatchFacts
    <2> QED
      BY <2>1, <2>2 DEF history, Types
  <1>4. ASSUME NEW k \in 1 .. MaxBatch, ReceivePart(k)
        PROVE  Types'
    <2>1. /\ k <= Len(stream) /\ splits < MaxSplits /\ splits' = splits + 1
          /\ UNCHANGED <<pc, control, receiving, pieces, requests, data,
                         crossed, overlapped, broken>>
      BY <1>4 DEF ReceivePart
    <2>2. PICK first \in {stream[k].code} \cup Leftovers, second \in Leftovers :
              /\ Q!Push(Append(SubSeq(stream, 1, k - 1), [stream[k] EXCEPT !.code = first]))
              /\ stream' = <<[stream[k] EXCEPT !.code = second]>>
                               \o SubSeq(stream, k + 1, Len(stream))
      BY <1>4 DEF ReceivePart
    <2>3. /\ [stream[k] EXCEPT !.code = first] \in Lines
          /\ [stream[k] EXCEPT !.code = second] \in Lines
      BY <2>1, BatchFacts, LineFacts
    <2>4. Append(SubSeq(stream, 1, k - 1), [stream[k] EXCEPT !.code = first]) \in Seq(Lines)
      BY <2>1, <2>3, BatchFacts, AppendProperties
    <2>5. <<[stream[k] EXCEPT !.code = second]>> \in Seq(Lines)
      BY <2>3
    <2>6. stream' \in Seq(Lines)
      BY <2>1, <2>2, <2>5, BatchFacts, ConcatProperties
    <2>7. msgQueue' \in Seq(Lines) /\ taken' = taken
      BY <2>1, <2>2, <2>4, <1>2
    <2>8. splits' \in 0 .. MaxSplits
      BY <2>1, FtpClientAssumption DEF Types
    <2> QED
      BY <2>1, <2>6, <2>7, <2>8 DEF Types
  <1> QED
    BY <1>1, <1>3, <1>4 DEF ReaderWorks

\* The server adds a line to the stream, or none.
LEMMA ServerTypes ==
    ASSUME Types, ServerLeavesAlone, splits' \in 0 .. MaxSplits, broken' \in BOOLEAN,
           control' \in {"open", "lost"} \/ control' = control,
           requests' \in Seq([kind : Kinds, n : 0 .. MaxCommands]),
           data' \in [DataThreads -> {"none", "open", "closed", "over"}],
           \/ stream' = stream
           \/ \E line \in Lines : stream' = Append(stream, line)
    PROVE  Types'
  <1>1. stream' \in Seq(Lines)
    <2>1. ASSUME NEW line \in Lines
          PROVE  Append(stream, line) \in Seq(Lines)
      BY AppendProperties DEF Types
    <2> QED
      BY <2>1 DEF Types
  <1> QED
    BY <1>1 DEF ServerLeavesAlone, queue, Types

LEMMA ServerStepTypes ==
    ASSUME Types,
           ServerWorks \/ AnswerOn \/ HangUp \/ \E n \in DataThreads : BreakUpload(n)
    PROVE  Types'
  <1>1. ASSUME NEW code, Answer(code)
        PROVE  Types'
    <2> DEFINE q == Head(requests)
    <2>1. /\ q \in [kind : Kinds, n : 0 .. MaxCommands]
          /\ Tail(requests) \in Seq([kind : Kinds, n : 0 .. MaxCommands])
      BY <1>1, HeadTailProperties DEF Answer, Types
    <2>2. /\ code \in Codes[q.kind]
          /\ stream' = Append(stream, [kind |-> q.kind, n |-> q.n, code |-> code])
          /\ requests' = Tail(requests)
          /\ control' \in {"open", "lost"}
          /\ UNCHANGED <<broken, splits>> /\ ServerLeavesAlone
      BY <1>1 DEF Answer, Reply
    <2>3. [kind |-> q.kind, n |-> q.n, code |-> code] \in Lines
      BY <2>1, <2>2, LineFacts
    <2>4. data' \in [DataThreads -> {"none", "open", "closed", "over"}]
      BY <1>1 DEF Answer, Types
    <2> HIDE DEF q
    <2> QED
      BY <2>1, <2>2, <2>3, <2>4, ServerTypes DEF Types
  <1>2. ASSUME NEW n \in DataThreads, NEW code \in Codes["end"]
        PROVE  [kind |-> "end", n |-> n, code |-> code] \in Lines
    BY LineFacts, KindsAre, ThreadFacts DEF DataThreads
  <1>3. ASSUME NEW n \in DataThreads, NEW code \in Codes["end"], Finish(n, code)
        PROVE  Types'
    <2>1. /\ UNCHANGED <<control, requests, broken, splits>> /\ ServerLeavesAlone
          /\ data' = [data EXCEPT ![n] = "over"]
          /\ \/ stream' = stream
             \/ stream' = Append(stream, [kind |-> "end", n |-> n, code |-> code])
      BY <1>3 DEF Finish, Reply
    <2> QED
      BY <2>1, <1>2, ServerTypes DEF Types
  <1>4. ASSUME NEW n \in DataThreads, BreakUpload(n)
        PROVE  Types'
    <2>1. /\ UNCHANGED <<control, requests, splits>> /\ ServerLeavesAlone
          /\ data' = [data EXCEPT ![n] = "over"] /\ broken' = TRUE
          /\ stream' = Append(stream, [kind |-> "end", n |-> n, code |-> 426])
      BY <1>4 DEF BreakUpload, Reply
    <2>2. 426 \in Codes["end"]
      BY DEF Codes
    <2> QED
      BY <2>1, <2>2, <1>2, ServerTypes DEF Types
  <1>5. CASE HangUp
    <2>1. /\ UNCHANGED <<requests, stream, splits>> /\ ServerLeavesAlone
          /\ control' = "lost" /\ broken' = TRUE
          /\ data' \in [DataThreads -> {"none", "over"}]
      BY <1>5 DEF HangUp
    <2> QED
      BY <2>1, ServerTypes DEF Types
  <1>6. CASE AnswerOn
    <2>1. /\ splits < MaxSplits /\ splits' = splits + 1 /\ stream # <<>>
          /\ UNCHANGED <<control, requests, data, broken>> /\ ServerLeavesAlone
      BY <1>6 DEF AnswerOn
    <2>2. PICK code \in {stream[Len(stream)].code} \cup Leftovers :
              stream' = Append(stream, [stream[Len(stream)] EXCEPT !.code = code])
      BY <1>6 DEF AnswerOn
    <2>3. stream[Len(stream)] \in Lines
      BY <2>1, EmptySeq, LenProperties, ElementOfSeq DEF Types
    <2>4. [stream[Len(stream)] EXCEPT !.code = code] \in Lines
      BY <2>2, <2>3, LineFacts
    <2>5. splits' \in 0 .. MaxSplits
      BY <2>1, FtpClientAssumption DEF Types
    <2> QED
      BY <2>1, <2>2, <2>4, <2>5, ServerTypes DEF Types
  <1> QED
    BY <1>1, <1>3, <1>4, <1>5, <1>6 DEF ServerWorks

-----------------------------------------------------------------------------
LEMMA InitTypes == Init => Types
  <1> SUFFICES ASSUME Init PROVE Types
    OBVIOUS
  <1>1. pc \in [Threads -> CmdPlaces \cup DataPlaces]
    BY DEF Init, CmdPlaces, DataPlaces
  <1>2. stream \in Seq(Lines)
    <2>1. PICK c \in Codes["greet"] : stream = <<[kind |-> "greet", n |-> 0, code |-> c]>>
      BY DEF Init
    <2>2. [kind |-> "greet", n |-> 0, code |-> c] \in Lines
      BY LineFacts, KindsAre, ThreadFacts
    <2> QED
      BY <2>1, <2>2
  <1>3. msgQueue = <<>> /\ requests = <<>> /\ taken = <<>>
    BY DEF Init, Q!Init
  <1>4. /\ requests \in Seq([kind : Kinds, n : 0 .. MaxCommands])
        /\ msgQueue \in Seq(Lines)
        /\ taken \in Seq([by : Threads, reply : Lines])
    BY <1>3, EmptySeq
  <1>5. /\ pieces \in [DataThreads -> 0 .. MaxPieces]
        /\ splits \in 0 .. MaxSplits
    BY FtpClientAssumption DEF Init
  <1>6. /\ control = "open"
        /\ {receiving, crossed, overlapped, broken} \subseteq BOOLEAN
        /\ data \in [DataThreads -> {"none", "open", "closed", "over"}]
    BY DEF Init
  <1> QED
    BY <1>1, <1>2, <1>4, <1>5, <1>6 DEF Types

LEMMA StepTypes == ASSUME IInv, Types, [Next]_vars PROVE Types'
  <1>1. CASE CmdWorks \/ StartTyping \/ \E verb \in Verbs : Type(verb)
    BY <1>1, CmdTypes
  <1>2. CASE \E n \in DataThreads : DataWorks(n)
    BY <1>2, DataTypes
  <1>3. CASE \E t \in Threads : Sleep(t)
    <2>1. msgQueue' = msgQueue /\ taken' = taken
      BY <1>3 DEF Sleep, Q!Block, Q!SpuriousWake
    <2>2. UNCHANGED <<pc, control, receiving, pieces, network, history>>
      BY <1>3 DEF Sleep
    <2> QED
      BY <2>1, <2>2 DEF network, history, Types
  <1>4. CASE ReaderWorks
    BY <1>4, ReaderTypes
  <1>5. CASE ServerWorks \/ AnswerOn \/ HangUp \/ \E n \in DataThreads : BreakUpload(n)
    BY <1>5, ServerStepTypes
  <1>6. CASE UNCHANGED vars
    BY <1>6 DEF vars, Types
  <1> QED
    BY <1>1, <1>2, <1>3, <1>4, <1>5, <1>6 DEF Next

\* Both invariants, of every behaviour of the client.
THEOREM TypesInvariance == Spec => [](IInv /\ Types)
  <1>1. Init => IInv /\ Types
    BY InitInv, InitTypes
  <1>2. IInv /\ Types /\ [Next]_vars => IInv' /\ Types'
    BY StepInv, StepTypes
  <1> QED
    BY <1>1, <1>2, PTL DEF Spec

\* Type correctness of the client: among others, no data thread is ever at a
\* place of the command thread, and what one recv pushes are lines.
THEOREM TypeCorrect == Spec => []TypeOK
  <1>1. IInv /\ Types => TypeOK
    <2> SUFFICES ASSUME IInv, Types PROVE TypeOK
      OBVIOUS
    <2>1. pc[Cmd] \in CmdPlaces /\ \A n \in DataThreads : pc[n] \in DataPlaces
      BY ThreadFacts DEF IInv, Places, PlacesOf
    <2>2. waiting \subseteq Threads /\ woken \subseteq Threads
      BY DEF IInv, Sleepers
    <2>3. inout \in Threads \cup {NoThread} /\ typed \in Seq(Asks) /\ Now <= MaxCommands
      BY DEF IInv, Mutex, CommandPath
    <2> QED
      BY <2>1, <2>2, <2>3 DEF Types, TypeOK
  <1> QED
    BY <1>1, TypesInvariance, PTL

\* The client uses its queue as ReplyQueue describes it: what is shown of the
\* queue there holds here, whatever the threads do in between.
THEOREM UsesQueue == Spec => Q!Spec
  <1>1. Init => Q!Init
    BY DEF Init
  <1>2. ASSUME IInv, Types, [Next]_vars
        PROVE  [Q!Next]_(Q!vars)
    <2>1. CASE UNCHANGED queue
      BY <2>1 DEF queue, Q!vars
    <2>2. ASSUME NEW t \in Threads, Take(t) \/ Sleep(t)
          PROVE  Q!Next
      BY <2>2 DEF Take, Sleep, Q!Next
    <2>3. ASSUME NEW k \in 1 .. MaxBatch, NEW batch \in Seq(Lines), Len(batch) = k,
                 Q!Push(batch)
          PROVE  Q!Next
      <3>1. batch \in [1 .. k -> Lines]
        BY <2>3, LenProperties
      <3> QED
        BY <3>1, <2>3 DEF Q!Next
    <2>4. CASE ReaderWorks
      <3>1. CASE StopReceiving
        BY <3>1, <2>1 DEF StopReceiving
      <3>2. ASSUME NEW k \in 1 .. MaxBatch, Receive(k)
            PROVE  Q!Next
        BY <1>2, <3>2, <2>3, BatchFacts DEF Receive
      <3>3. ASSUME NEW k \in 1 .. MaxBatch, ReceivePart(k)
            PROVE  Q!Next
        <4>1. PICK first \in {stream[k].code} \cup Leftovers :
                  Q!Push(Append(SubSeq(stream, 1, k - 1), [stream[k] EXCEPT !.code = first]))
          BY <3>3 DEF ReceivePart
        <4>2. k <= Len(stream) /\ k \in Nat
          BY <3>3, FtpClientAssumption DEF ReceivePart
        <4>3. [stream[k] EXCEPT !.code = first] \in Lines
          BY <1>2, <4>2, BatchFacts, LineFacts
        <4> DEFINE batch == Append(SubSeq(stream, 1, k - 1), [stream[k] EXCEPT !.code = first])
        <4>4. batch \in Seq(Lines) /\ Len(batch) = k
          BY <1>2, <4>2, <4>3, BatchFacts, AppendProperties
        <4> QED
          BY <4>1, <4>4, <2>3
      <3> QED
        BY <2>4, <3>1, <3>2, <3>3 DEF ReaderWorks
    <2>5. CASE CmdWorks \/ StartTyping \/ (\E verb \in Verbs : Type(verb))
      <3>1. Take(Cmd) \/ Rest
        BY <2>5 DEF CmdWorks, StartTyping, Type, Login, Answered, PasvAnswered, StartAnswered,
                    Report, Shout, Ask, Bye, LockConsole, NamePath, AskPasv, AskStart, AskFor,
                    Connect
      <3> QED
        BY <3>1, <2>1, <2>2, ThreadFacts DEF Rest
    <2>6. CASE \E n \in DataThreads : DataWorks(n)
      <3>1. PICK n \in DataThreads : DataWorks(n)
        BY <2>6
      <3>2. Take(n) \/ Rest
        BY <3>1 DEF DataWorks, SaveAll, LockToPrint, PrintAll, Announce, SendPiece, SendEnds,
                    LockToEnd, Ended, DataStep
      <3> QED
        BY <3>2, <2>1, <2>2, ThreadFacts DEF Rest
    <2>7. CASE ServerWorks \/ AnswerOn \/ HangUp \/ \E n \in DataThreads : BreakUpload(n)
      <3>1. ServerLeavesAlone
        BY <2>7 DEF ServerWorks, Answer, AnswerOn, Finish, HangUp, BreakUpload
      <3> QED
        BY <3>1, <2>1 DEF ServerLeavesAlone
    <2>8. CASE UNCHANGED vars
      BY <2>8, <2>1 DEF vars, queue
    <2> QED
      BY <1>2, <2>2, <2>4, <2>5, <2>6, <2>7, <2>8 DEF Next
  <1> QED
    BY <1>1, <1>2, TypesInvariance, PTL DEF Spec, Q!Spec

-----------------------------------------------------------------------------
(***************************************************************************)
(* The dialogue.  What has been asked and not yet been taken, in the order *)
(* in which it will be taken: the queue, then the stream, then what the    *)
(* server has not read (Dialogue), without the codes.  A step of the       *)
(* reader or an answer moves a line along it and leaves it the same; a     *)
(* request is added at its end, a reply is taken from its front.           *)
(***************************************************************************)
Topic == [kind : Kinds, n : 0 .. MaxCommands]

About(line) == [kind |-> line.kind, n |-> line.n]

Topics(s) == [i \in 1 .. Len(s) |-> About(s[i])]

Dialogue == Topics(msgQueue) \o (Topics(stream) \o requests)

\* The replies on their way, in whatever order.
InFlight ==
    {msgQueue[i] : i \in 1 .. Len(msgQueue)} \cup {stream[i] : i \in 1 .. Len(stream)}

LEMMA LineIs ==
    ASSUME NEW line \in Lines
    PROVE  About(line) \in Topic /\ line.kind \in Kinds
  <1>1. PICK k \in Kinds : line \in [kind : {k}, n : 0 .. MaxCommands,
                                     code : Codes[k] \cup Leftovers]
    BY DEF Lines
  <1>2. QED
    BY <1>1 DEF About, Topic

LEMMA TopicsOf ==
    ASSUME NEW s \in Seq(Lines)
    PROVE  /\ Topics(s) \in Seq(Topic) /\ Len(Topics(s)) = Len(s)
           /\ \A i \in 1 .. Len(s) : Topics(s)[i] = About(s[i])
  <1>1. Len(s) \in Nat /\ \A i \in 1 .. Len(s) : s[i] \in Lines
    BY ElementOfSeq, LenProperties
  <1>2. \A i \in 1 .. Len(s) : About(s[i]) \in Topic
    BY <1>1, LineIs
  <1>3. Topics(s) \in Seq(Topic)
    BY <1>1, <1>2, IsASeq DEF Topics
  <1>4. DOMAIN Topics(s) = 1 .. Len(s)
    BY DEF Topics
  <1>5. Len(Topics(s)) = Len(s)
    BY <1>1, <1>3, <1>4, LenProperties
  <1>6. QED
    BY <1>3, <1>5 DEF Topics

LEMMA TopicsConcat ==
    ASSUME NEW s \in Seq(Lines), NEW t \in Seq(Lines)
    PROVE  Topics(s \o t) = Topics(s) \o Topics(t)
  <1>1. /\ s \o t \in Seq(Lines) /\ Len(s \o t) = Len(s) + Len(t)
        /\ \A i \in 1 .. Len(s) + Len(t) :
               (s \o t)[i] = IF i <= Len(s) THEN s[i] ELSE t[i - Len(s)]
    BY ConcatProperties
  <1>2. Len(s) \in Nat /\ Len(t) \in Nat
    BY LenProperties
  <1>3. /\ Topics(s) \in Seq(Topic) /\ Len(Topics(s)) = Len(s)
        /\ Topics(t) \in Seq(Topic) /\ Len(Topics(t)) = Len(t)
        /\ Topics(s \o t) \in Seq(Topic) /\ Len(Topics(s \o t)) = Len(s) + Len(t)
    BY <1>1, TopicsOf
  <1> DEFINE u == Topics(s) \o Topics(t)
  <1>4. /\ u \in Seq(Topic) /\ Len(u) = Len(s) + Len(t)
        /\ \A i \in 1 .. Len(s) + Len(t) :
               u[i] = IF i <= Len(s) THEN Topics(s)[i] ELSE Topics(t)[i - Len(s)]
    BY <1>3, ConcatProperties
  <1> HIDE DEF u
  <1>5. ASSUME NEW i \in 1 .. Len(s) + Len(t)
        PROVE  Topics(s \o t)[i] = u[i]
    <2>1. Topics(s \o t)[i] = About((s \o t)[i])
      BY <1>1, TopicsOf
    <2>2. CASE i <= Len(s)
      <3>1. i \in 1 .. Len(s)
        BY <1>2, <2>2
      <3>2. (s \o t)[i] = s[i] /\ u[i] = Topics(s)[i]
        BY <1>1, <1>4, <2>2
      <3>3. QED
        BY <2>1, <3>1, <3>2, TopicsOf
    <2>3. CASE i > Len(s)
      <3>1. i - Len(s) \in 1 .. Len(t) /\ ~ (i <= Len(s))
        BY <1>2, <2>3
      <3>2. (s \o t)[i] = t[i - Len(s)] /\ u[i] = Topics(t)[i - Len(s)]
        BY <1>1, <1>4, <3>1
      <3>3. QED
        BY <2>1, <3>1, <3>2, TopicsOf
    <2>4. QED
      BY <1>2, <2>2, <2>3
  <1>6. Topics(s \o t) = u
    BY <1>2, <1>3, <1>4, <1>5, SeqEqual
  <1>7. QED
    BY <1>6 DEF u

LEMMA TopicsOne ==
    ASSUME NEW line \in Lines
    PROVE  Topics(<<line>>) = <<About(line)>>
  BY DEF Topics

LEMMA TopicsTail ==
    ASSUME NEW s \in Seq(Lines), s # <<>>
    PROVE  /\ Tail(s) \in Seq(Lines) /\ Head(s) \in Lines
           /\ Topics(s) = <<About(Head(s))>> \o Topics(Tail(s))
  <1>1. Head(s) \in Lines /\ Tail(s) \in Seq(Lines) /\ s = <<Head(s)>> \o Tail(s)
    <2>1. Head(s) \in Lines /\ Tail(s) \in Seq(Lines)
      BY HeadTailProperties
    <2>2. s = <<Head(s)>> \o Tail(s)
      OBVIOUS
    <2>3. QED
      BY <2>1, <2>2
  <1>2. <<Head(s)>> \in Seq(Lines)
    BY <1>1
  <1>3. QED
    BY <1>1, <1>2, TopicsConcat, TopicsOne

LEMMA TopicsAppend ==
    ASSUME NEW s \in Seq(Lines), NEW line \in Lines
    PROVE  Topics(Append(s, line)) = Topics(s) \o <<About(line)>>
  <1>1. Append(s, line) = s \o <<line>> /\ <<line>> \in Seq(Lines)
    BY AppendIsConcat
  <1>2. QED
    BY <1>1, TopicsConcat, TopicsOne

\* Three parts of a dialogue put together.
LEMMA ThreeParts ==
    ASSUME NEW a \in Seq(Topic), NEW b \in Seq(Topic), NEW c \in Seq(Topic)
    PROVE  /\ b \o c \in Seq(Topic)
           /\ a \o (b \o c) \in Seq(Topic)
           /\ Len(a \o (b \o c)) = Len(a) + Len(b) + Len(c)
           /\ (a \o b) \o c = a \o (b \o c)
  <1> DEFINE d == b \o c
  <1>1. d \in Seq(Topic) /\ Len(d) = Len(b) + Len(c)
    BY ConcatProperties
  <1>2. (a \o b) \o c = a \o d
    BY ConcatAssociative
  <1> HIDE DEF d
  <1>3. a \o d \in Seq(Topic) /\ Len(a \o d) = Len(a) + Len(d)
    BY <1>1, ConcatProperties
  <1>4. Len(a) \in Nat /\ Len(b) \in Nat /\ Len(c) \in Nat
    BY LenProperties
  <1>5. QED
    BY <1>1, <1>2, <1>3, <1>4 DEF d

\* The dialogue has types.
LEMMA DialogueTypes ==
    ASSUME Types
    PROVE  /\ msgQueue \in Seq(Lines) /\ stream \in Seq(Lines)
           /\ Topics(msgQueue) \in Seq(Topic) /\ Topics(stream) \in Seq(Topic)
           /\ requests \in Seq(Topic) /\ Dialogue \in Seq(Topic)
           /\ Len(Dialogue) = Len(msgQueue) + Len(stream) + Len(requests)
           /\ Len(msgQueue) \in Nat /\ Len(stream) \in Nat /\ Len(requests) \in Nat
  <1>1. msgQueue \in Seq(Lines) /\ stream \in Seq(Lines) /\ requests \in Seq(Topic)
    BY DEF Types, Topic
  <1>2. /\ Topics(msgQueue) \in Seq(Topic) /\ Len(Topics(msgQueue)) = Len(msgQueue)
        /\ Topics(stream) \in Seq(Topic) /\ Len(Topics(stream)) = Len(stream)
    BY <1>1, TopicsOf
  <1>3. /\ Dialogue \in Seq(Topic)
        /\ Len(Dialogue) = Len(Topics(msgQueue)) + Len(Topics(stream)) + Len(requests)
    <2> DEFINE tq == Topics(msgQueue)
               ts == Topics(stream)
    <2>1. tq \in Seq(Topic) /\ ts \in Seq(Topic) /\ Dialogue = tq \o (ts \o requests)
      BY <1>2 DEF Dialogue
    <2> HIDE DEF tq, ts
    <2>2. Dialogue \in Seq(Topic) /\ Len(Dialogue) = Len(tq) + Len(ts) + Len(requests)
      BY <1>1, <2>1, ThreeParts
    <2>3. QED
      BY <2>2 DEF tq, ts
  <1>5. Len(msgQueue) \in Nat /\ Len(stream) \in Nat /\ Len(requests) \in Nat
    BY <1>1, LenProperties
  <1>6. QED
    BY <1>1, <1>2, <1>3, <1>5

\* The reader moves k lines from the stream to the queue.
LEMMA ReceiveMoves ==
    ASSUME Types, NEW k \in 1 .. MaxBatch, Receive(k)
    PROVE  Dialogue' = Dialogue /\ InFlight' \subseteq InFlight
  <1>1. /\ k <= Len(stream) /\ msgQueue' = msgQueue \o SubSeq(stream, 1, k)
        /\ stream' = SubSeq(stream, k + 1, Len(stream)) /\ requests' = requests
    BY DEF Receive, Q!Push
  <1> DEFINE a == SubSeq(stream, 1, k)
             b == SubSeq(stream, k + 1, Len(stream))
  <1>2. /\ a \in Seq(Lines) /\ b \in Seq(Lines)
        /\ \A i \in 1 .. Len(a) : a[i] \in {stream[j] : j \in 1 .. Len(stream)}
        /\ \A i \in 1 .. Len(b) : b[i] \in {stream[j] : j \in 1 .. Len(stream)}
        /\ stream = a \o b
    <2>1. stream \in Seq(Lines) /\ Len(stream) \in Nat /\ MaxBatch \in Nat
      BY DialogueTypes, FtpClientAssumption
    <2>2. k \in 1 .. Len(stream) /\ k + 1 \in 1 .. Len(stream) + 1
      BY <1>1, <2>1
    <2>3. /\ a \in Seq(Lines) /\ Len(a) = k
          /\ \A i \in 1 .. k : a[i] = stream[1 + i - 1]
      BY <2>1, <2>2, SubSeqProperties
    <2>4. /\ b \in Seq(Lines) /\ Len(b) = Len(stream) - k
          /\ \A i \in 1 .. Len(stream) - k : b[i] = stream[k + 1 + i - 1]
      BY <2>1, <2>2, SubSeqProperties
    <2> HIDE DEF a, b
    <2>5. \A i \in 1 .. Len(a) : a[i] \in {stream[j] : j \in 1 .. Len(stream)}
      <3>1. \A i \in 1 .. k : 1 + i - 1 \in 1 .. Len(stream)
        BY <2>1, <2>2
      <3>2. QED
        BY <2>3, <3>1
    <2>6. \A i \in 1 .. Len(b) : b[i] \in {stream[j] : j \in 1 .. Len(stream)}
      <3>1. \A i \in 1 .. Len(stream) - k : k + 1 + i - 1 \in 1 .. Len(stream)
        BY <2>1, <2>2
      <3>2. QED
        BY <2>4, <3>1
    <2>7. stream = a \o b
      <3>1. /\ a \o b \in Seq(Lines) /\ Len(a \o b) = Len(stream)
            /\ \A i \in 1 .. Len(stream) :
                   (a \o b)[i] = IF i <= k THEN a[i] ELSE b[i - k]
        <4>1. /\ a \o b \in Seq(Lines) /\ Len(a \o b) = Len(a) + Len(b)
              /\ \A i \in 1 .. Len(a) + Len(b) :
                     (a \o b)[i] = IF i <= Len(a) THEN a[i] ELSE b[i - Len(a)]
          BY <2>3, <2>4, ConcatProperties
        <4>2. Len(a) = k /\ Len(a) + Len(b) = Len(stream)
          BY <2>1, <2>2, <2>3, <2>4
        <4>3. QED
          BY <4>1, <4>2
      <3>2. ASSUME NEW i \in 1 .. Len(stream)
            PROVE  (a \o b)[i] = stream[i]
        <4>1. CASE i <= k
          <5>1. i \in 1 .. k /\ 1 + i - 1 = i
            BY <2>2, <4>1
          <5>2. QED
            BY <2>3, <3>1, <4>1, <5>1
        <4>2. CASE i > k
          <5>1. i - k \in 1 .. Len(stream) - k /\ k + 1 + (i - k) - 1 = i /\ ~ (i <= k)
            BY <2>1, <2>2, <4>2
          <5>2. QED
            BY <2>4, <3>1, <5>1
        <4>3. i <= k \/ i > k
          BY <2>1, <2>2
        <4>4. QED
          BY <4>1, <4>2, <4>3
      <3>3. QED
        BY <2>1, <3>1, <3>2, SeqEqual
    <2>8. QED
      BY <2>3, <2>4, <2>5, <2>6, <2>7
  <1>3. msgQueue' = msgQueue \o a /\ stream' = b
    BY <1>1
  <1> HIDE DEF a, b
  <1>4. Dialogue' = Dialogue
    <2> DEFINE tq == Topics(msgQueue)
               ta == Topics(a)
               tb == Topics(b)
    <2>1. /\ tq \in Seq(Topic) /\ ta \in Seq(Topic) /\ tb \in Seq(Topic)
          /\ requests \in Seq(Topic)
      BY <1>2, DialogueTypes, TopicsOf
    <2>2. Topics(msgQueue') = tq \o ta /\ Topics(stream') = tb /\ Topics(stream) = ta \o tb
      BY <1>2, <1>3, DialogueTypes, TopicsConcat
    <2> HIDE DEF tq, ta, tb
    <2>3. /\ (ta \o tb) \o requests = ta \o (tb \o requests)
          /\ tb \o requests \in Seq(Topic)
      <3>1. (ta \o tb) \o requests = ta \o (tb \o requests)
        BY <2>1, ThreeParts, SMTT(30)
      <3>2. tb \o requests \in Seq(Topic)
        BY <2>1, ThreeParts
      <3>3. QED
        BY <3>1, <3>2
    <2>4. (tq \o ta) \o (tb \o requests) = tq \o (ta \o (tb \o requests))
      BY <2>1, <2>3, ThreeParts, SMTT(30)
    <2>5. Dialogue' = (tq \o ta) \o (tb \o requests)
      BY <1>1, <2>2 DEF Dialogue, Topics
    <2>6. Dialogue = tq \o ((ta \o tb) \o requests)
      BY <2>2 DEF Dialogue, tq
    <2>7. QED
      BY <2>3, <2>4, <2>5, <2>6
  <1>5. InFlight' \subseteq InFlight
    <2>1. /\ Len(msgQueue \o a) = Len(msgQueue) + Len(a)
          /\ \A i \in 1 .. Len(msgQueue) + Len(a) :
               (msgQueue \o a)[i] =
                   IF i <= Len(msgQueue) THEN msgQueue[i] ELSE a[i - Len(msgQueue)]
      BY <1>2, DialogueTypes, ConcatProperties
    <2> DEFINE l == Len(msgQueue)
               m == Len(a)
    <2>2. l \in Nat /\ m \in Nat
      BY <1>2, DialogueTypes, LenProperties
    <2>3. ASSUME NEW i \in 1 .. Len(msgQueue')
          PROVE  msgQueue'[i] \in InFlight
      <3>1. i \in 1 .. Len(msgQueue) + Len(a) /\ msgQueue'[i] = (msgQueue \o a)[i]
        BY <1>3, <2>1
      <3>2. i \in 1 .. l \/ (i - l \in 1 .. m /\ ~ (i <= l))
        <4> HIDE DEF l, m
        <4>1. i \in 1 .. l + m
          BY <3>1 DEF l, m
        <4>2. QED
          BY <2>2, <4>1
      <3>3. CASE i \in 1 .. Len(msgQueue)
        <4>1. i <= Len(msgQueue)
          BY <2>2, <3>3
        <4>2. QED
          BY <2>1, <3>1, <3>3, <4>1 DEF InFlight
      <3>4. CASE i - Len(msgQueue) \in 1 .. Len(a) /\ ~ (i <= Len(msgQueue))
        BY <1>2, <2>1, <3>1, <3>4 DEF InFlight
      <3>5. QED
        BY <3>2, <3>3, <3>4
    <2>4. \A i \in 1 .. Len(stream') : stream'[i] \in InFlight
      BY <1>2, <1>3 DEF InFlight
    <2>5. QED
      BY <2>3, <2>4 DEF InFlight
  <1>6. QED
    BY <1>4, <1>5

\* The front of the dialogue is the line that is returned next.
LEMMA Front ==
    ASSUME Types, msgQueue # <<>>
    PROVE  /\ Dialogue # <<>> /\ Head(Dialogue) = About(Line)
           /\ Tail(Dialogue) = Topics(Tail(msgQueue)) \o (Topics(stream) \o requests)
           /\ Line \in InFlight /\ Line \in Lines
           /\ Topics(Tail(msgQueue)) \in Seq(Topic)
  <1>1. /\ Tail(msgQueue) \in Seq(Lines) /\ Line \in Lines
        /\ Topics(msgQueue) = <<About(Line)>> \o Topics(Tail(msgQueue))
    BY DialogueTypes, TopicsTail DEF Line
  <1> DEFINE rest == Topics(stream) \o requests
             tq == Topics(Tail(msgQueue))
             a == About(Line)
  <1>2. /\ rest \in Seq(Topic) /\ tq \in Seq(Topic) /\ a \in Topic
        /\ <<a>> \in Seq(Topic)
    <2>1. rest \in Seq(Topic)
      BY DialogueTypes, ThreeParts
    <2>2. tq \in Seq(Topic) /\ a \in Topic
      BY <1>1, TopicsOf, LineIs
    <2>3. QED
      BY <2>1, <2>2
  <1>3. Dialogue = (<<a>> \o tq) \o rest
    BY <1>1 DEF Dialogue
  <1> HIDE DEF rest, tq, a
  <1>4. Dialogue = <<a>> \o (tq \o rest) /\ tq \o rest \in Seq(Topic)
    <2>1. (<<a>> \o tq) \o rest = <<a>> \o (tq \o rest)
      BY <1>2, ThreeParts
    <2>2. tq \o rest \in Seq(Topic)
      BY <1>2, ThreeParts
    <2>3. QED
      BY <1>3, <2>1, <2>2
  <1>5. Dialogue # <<>> /\ Head(Dialogue) = a /\ Tail(Dialogue) = tq \o rest
    BY <1>2, <1>4
  <1>6. Line \in InFlight
    <2>1. Len(msgQueue) \in Nat /\ Len(msgQueue) >= 1 /\ Line = msgQueue[1]
      BY DialogueTypes, LenProperties, EmptySeq DEF Line
    <2>2. 1 \in 1 .. Len(msgQueue)
      BY <2>1
    <2>3. QED
      BY <2>1, <2>2 DEF InFlight
  <1>7. QED
    BY <1>1, <1>2, <1>5, <1>6 DEF rest, tq, a

LEMMA AppendPart ==
    ASSUME NEW a \in Seq(Topic), NEW b \in Seq(Topic), NEW c \in Seq(Topic), NEW r \in Topic
    PROVE  a \o (b \o Append(c, r)) = Append(a \o (b \o c), r)
  <1>1. Append(c, r) = c \o <<r>> /\ <<r>> \in Seq(Topic)
    BY AppendIsConcat
  <1>2. b \o (c \o <<r>>) = (b \o c) \o <<r>> /\ b \o c \in Seq(Topic)
    <2>1. (b \o c) \o <<r>> = b \o (c \o <<r>>)
      BY <1>1, ThreeParts
    <2>2. b \o c \in Seq(Topic)
      BY ThreeParts
    <2>3. QED
      BY <2>1, <2>2
  <1> DEFINE d == b \o c
  <1>3. d \in Seq(Topic)
    BY <1>2
  <1>4. a \o (b \o Append(c, r)) = a \o (d \o <<r>>)
    BY <1>1, <1>2
  <1> HIDE DEF d
  <1>5. a \o (d \o <<r>>) = (a \o d) \o <<r>> /\ a \o d \in Seq(Topic)
    <2>1. (a \o d) \o <<r>> = a \o (d \o <<r>>)
      BY <1>1, <1>3, ThreeParts, SMTT(30)
    <2>2. a \o d \in Seq(Topic)
      BY <1>3, ConcatProperties
    <2>3. QED
      BY <2>1, <2>2
  <1>6. Append(a \o d, r) = (a \o d) \o <<r>>
    BY <1>5, AppendIsConcat
  <1>7. QED
    BY <1>4, <1>5, <1>6 DEF d

\* A reply is taken from the front; a request may be sent with it.
LEMMA TakeMoves ==
    ASSUME Types, NEW t \in Threads, Take(t)
    PROVE  /\ Dialogue # <<>> /\ Head(Dialogue) = About(Line)
           /\ Line \in InFlight /\ Line \in Lines
           /\ InFlight' \subseteq InFlight
           /\ requests' = requests => Dialogue' = Tail(Dialogue)
           /\ \A r \in Topic : requests' = Append(requests, r) =>
                  Dialogue' = Append(Tail(Dialogue), r)
  <1>1. msgQueue # <<>> /\ msgQueue' = Tail(msgQueue) /\ stream' = stream
    BY DEF Take, Q!Take
  <1>2. InFlight' \subseteq InFlight
    <2>1. /\ Len(msgQueue) \in Nat /\ Len(msgQueue) >= 1
          /\ Len(Tail(msgQueue)) = Len(msgQueue) - 1
          /\ \A i \in 1 .. Len(msgQueue) - 1 : Tail(msgQueue)[i] = msgQueue[i + 1]
      BY <1>1, DialogueTypes, HeadTailProperties, LenProperties, EmptySeq
    <2>2. \A i \in 1 .. Len(msgQueue) - 1 : i + 1 \in 1 .. Len(msgQueue)
      BY <2>1
    <2>3. QED
      BY <1>1, <2>1, <2>2 DEF InFlight
  <1>3. Topics(msgQueue') = Topics(Tail(msgQueue)) /\ Topics(stream') = Topics(stream)
    BY <1>1
  <1>4. requests' = requests => Dialogue' = Tail(Dialogue)
    BY <1>1, <1>3, Front DEF Dialogue, Topics
  <1>5. ASSUME NEW r \in Topic, requests' = Append(requests, r)
        PROVE  Dialogue' = Append(Tail(Dialogue), r)
    <2> DEFINE tq == Topics(Tail(msgQueue))
               ts == Topics(stream)
    <2>1. tq \in Seq(Topic) /\ ts \in Seq(Topic) /\ requests \in Seq(Topic)
      BY <1>1, Front, DialogueTypes
    <2>2. Dialogue' = tq \o (ts \o Append(requests, r))
      BY <1>1, <1>5 DEF Dialogue, Topics
    <2>3. Tail(Dialogue) = tq \o (ts \o requests)
      BY <1>1, Front
    <2> HIDE DEF tq, ts
    <2>4. tq \o (ts \o Append(requests, r)) = Append(tq \o (ts \o requests), r)
      BY <2>1, AppendPart
    <2>5. QED
      BY <2>2, <2>3, <2>4
  <1>6. QED
    BY <1>1, <1>2, <1>4, <1>5, Front

\* A request goes to the end.
LEMMA SendMoves ==
    ASSUME Types, NEW r \in Topic, requests' = Append(requests, r),
           msgQueue' = msgQueue, stream' = stream
    PROVE  Dialogue' = Append(Dialogue, r) /\ InFlight' = InFlight
  <1>1. Dialogue' = Topics(msgQueue) \o (Topics(stream) \o Append(requests, r))
    BY DEF Dialogue, Topics
  <1> DEFINE s == Topics(msgQueue)
             t == Topics(stream)
  <1>2. /\ s \in Seq(Topic) /\ t \in Seq(Topic) /\ requests \in Seq(Topic)
        /\ Dialogue = s \o (t \o requests) /\ Dialogue' = s \o (t \o Append(requests, r))
    BY <1>1, DialogueTypes DEF Dialogue
  <1> HIDE DEF s, t
  <1>3. s \o (t \o Append(requests, r)) = Append(s \o (t \o requests), r)
    BY <1>2, AppendPart
  <1>4. InFlight' = InFlight
    BY DEF InFlight
  <1>5. QED
    BY <1>2, <1>3, <1>4

\* A line is added to the stream.
LEMMA StreamGrows ==
    ASSUME Types, NEW line \in Lines, stream' = Append(stream, line),
           msgQueue' = msgQueue
    PROVE  /\ InFlight' = InFlight \cup {line}
           /\ requests' \in Seq(Topic) =>
                Dialogue' = Topics(msgQueue) \o (Topics(stream) \o (<<About(line)>> \o requests'))
  <1>1. InFlight' = InFlight \cup {line}
    <2>1. /\ Len(stream) \in Nat /\ Len(stream') = Len(stream) + 1
          /\ \A i \in 1 .. Len(stream) : stream'[i] = stream[i]
          /\ stream'[Len(stream) + 1] = line
      BY DialogueTypes, AppendProperties
    <2>2. \A i \in 1 .. Len(stream) + 1 : i \in 1 .. Len(stream) \/ i = Len(stream) + 1
      BY <2>1
    <2>3. /\ \A i \in 1 .. Len(stream) : i \in 1 .. Len(stream')
          /\ Len(stream) + 1 \in 1 .. Len(stream')
      BY <2>1
    <2>4. QED
      BY <2>1, <2>2, <2>3 DEF InFlight
  <1>2. ASSUME requests' \in Seq(Topic)
        PROVE  Dialogue' = Topics(msgQueue) \o (Topics(stream) \o (<<About(line)>> \o requests'))
    <2>1. Topics(stream') = Topics(stream) \o <<About(line)>>
      BY DialogueTypes, TopicsAppend
    <2>2. Topics(stream) \in Seq(Topic) /\ <<About(line)>> \in Seq(Topic)
      BY DialogueTypes, LineIs
    <2>3. (Topics(stream) \o <<About(line)>>) \o requests'
              = Topics(stream) \o (<<About(line)>> \o requests')
      BY <1>2, <2>2, ConcatAssociative
    <2>4. QED
      BY <2>1, <2>3 DEF Dialogue, Topics
  <1>3. QED
    BY <1>1, <1>2

\* The server answers its first request.
LEMMA AnswerMoves ==
    ASSUME Types, NEW line \in Lines, requests # <<>>, About(line) = Head(requests),
           stream' = Append(stream, line), requests' = Tail(requests),
           msgQueue' = msgQueue
    PROVE  /\ Dialogue' = Dialogue /\ InFlight' = InFlight \cup {line}
           /\ \E i \in 1 .. Len(Dialogue) : Dialogue[i] = About(line)
  <1>1. requests' \in Seq(Topic) /\ <<About(line)>> \o requests' = requests
    <2>1. requests \in Seq(Topic)
      BY DialogueTypes
    <2>2. QED
      BY <2>1
  <1>2. Dialogue' = Dialogue /\ InFlight' = InFlight \cup {line}
    BY <1>1, StreamGrows DEF Dialogue
  <1>3. \E i \in 1 .. Len(Dialogue) : Dialogue[i] = About(line)
    <2> DEFINE s == Topics(msgQueue)
               t == Topics(stream)
    <2>1. /\ s \in Seq(Topic) /\ t \in Seq(Topic) /\ requests \in Seq(Topic)
      BY DialogueTypes
    <2>2. Dialogue = s \o (t \o requests)
      BY DEF Dialogue
    <2> HIDE DEF s, t
    <2>3. /\ t \o requests \in Seq(Topic) /\ Len(t \o requests) = Len(t) + Len(requests)
          /\ \A i \in 1 .. Len(t) + Len(requests) :
                (t \o requests)[i] = IF i <= Len(t) THEN t[i] ELSE requests[i - Len(t)]
      BY <2>1, ConcatProperties
    <2> DEFINE u == t \o requests
    <2>4. /\ Len(s \o u) = Len(s) + Len(u)
          /\ \A i \in 1 .. Len(s) + Len(u) :
                (s \o u)[i] = IF i <= Len(s) THEN s[i] ELSE u[i - Len(s)]
      BY <2>1, <2>3, ConcatProperties
    <2>5. Len(s) \in Nat /\ Len(t) \in Nat /\ Len(requests) \in Nat /\ Len(requests) >= 1
          /\ requests[1] = About(line)
      BY <2>1, LenProperties
    <2>6. Len(t) + 1 \in 1 .. Len(t) + Len(requests) /\ ~ (Len(t) + 1 <= Len(t))
          /\ Len(t) + 1 - Len(t) = 1
      BY <2>5
    <2>7. u[Len(t) + 1] = About(line) /\ Len(u) = Len(t) + Len(requests)
      BY <2>3, <2>5, <2>6
    <2> HIDE DEF u
    <2>8. Len(s) + (Len(t) + 1) \in 1 .. Len(s) + Len(u)
          /\ ~ (Len(s) + (Len(t) + 1) <= Len(s))
          /\ Len(s) + (Len(t) + 1) - Len(s) = Len(t) + 1
      BY <2>5, <2>6, <2>7
    <2>9. (s \o u)[Len(s) + (Len(t) + 1)] = About(line)
      BY <2>4, <2>7, <2>8
    <2>10. QED
      BY <2>2, <2>4, <2>8, <2>9 DEF u
  <1>4. QED
    BY <1>2, <1>3

\* The server adds the last reply of a transfer while nothing is asked.
LEMMA EndMoves ==
    ASSUME Types, NEW line \in Lines, requests = <<>>, requests' = requests,
           stream' = Append(stream, line), msgQueue' = msgQueue
    PROVE  /\ Dialogue' = Append(Dialogue, About(line))
           /\ InFlight' = InFlight \cup {line}
  <1> DEFINE s == Topics(msgQueue)
             t == Topics(stream)
             a == About(line)
  <1>1. s \in Seq(Topic) /\ t \in Seq(Topic) /\ a \in Topic /\ <<a>> \in Seq(Topic)
        /\ <<>> \in Seq(Topic)
    BY DialogueTypes, LineIs
  <1>2. Dialogue' = s \o (t \o (<<a>> \o <<>>)) /\ Dialogue = s \o (t \o <<>>)
    BY <1>1, StreamGrows DEF Dialogue
  <1>3. Dialogue \in Seq(Topic)
    BY DialogueTypes
  <1> HIDE DEF s, t, a
  <1>4. Dialogue' = s \o (t \o <<a>>) /\ Dialogue = s \o t
    BY <1>1, <1>2, ConcatEmptySeq
  <1>5. s \o (t \o <<a>>) = (s \o t) \o <<a>>
    BY <1>1, ConcatAssociative
  <1>6. Append(Dialogue, a) = Dialogue \o <<a>>
    BY <1>1, <1>3, AppendIsConcat
  <1>7. InFlight' = InFlight \cup {line}
    BY StreamGrows
  <1>8. QED
    BY <1>4, <1>5, <1>6, <1>7 DEF a

-----------------------------------------------------------------------------
(***************************************************************************)
(* The pairing of replies with requests.  As long as no command was typed  *)
(* beside a transfer and no reply became two lines, the dialogue is known  *)
(* from the places of the threads alone: at most one transfer runs         *)
(* (OneTransfer), and what is to be taken is what is waited for, and the   *)
(* last reply of a transfer once its data are through.  An upload that the *)
(* server broke may leave one line more, at the front, which is no reply   *)
(* to PASV: so the next transfer is refused, and a second such line cannot *)
(* come.                                                                   *)
(***************************************************************************)
NobodyBusy == \A n \in DataThreads : ~Busy(n)

\* Where the command thread may be beside a transfer.
Settled == {"idle", "typing", "report", "shout"}

\* Only the last command has a transfer, and beside it the command thread is
\* where nothing is asked for.
OneTransfer ==
    ~overlapped => \A n \in DataThreads : Busy(n) => n = Now /\ pc[Cmd] \in Settled

\* As long as replies come whole, their codes are the server's.
ProperCodes ==
    splits = 0 => \A line \in InFlight : line.code \in Codes[line.kind]

\* What the rest of the pairing needs.  A server that hangs up ends it.
Clean == ~overlapped /\ splits = 0 /\ Alive /\ (broken => control = "open")

\* Only after a QUIT does the server end the control connection; the client
\* has closed it only where it waits for nothing.
ControlKept ==
    Clean => /\ control = "lost" => pc[Cmd] \in {"quit", "bye"}
             /\ control = "closed" =>
                    NobodyBusy /\ pc[Cmd] \notin Kinds \cup {"connect", "ask_start"}

\* From the typing of a command until its start is asked for.
Before == {"lock", "path", "ask_pasv", "pasv", "connect", "ask_start"}

\* A data connection is there from the 150 on, and is in use as long as its
\* thread runs; an upload meets the end of it only after the server broke it.
DataOf(n) ==
    /\ n > Now => data[n] = "none"
    /\ Busy(n) => data[n] # "none"
    /\ data[n] \in {"open", "closed"} =>
           Busy(n) \/ (n = Now /\ pc[Cmd] = "start" /\ data[n] = "open")
    /\ pc[n] \in {"begin", "sending", "progress"} =>
           typed[n] = "stor" /\ data[n] \in {"open", "over"} /\ (data[n] = "over" => broken)
    /\ pc[n] = "failed" => data[n] = "over" /\ broken

DataState ==
    Clean => /\ \A n \in DataThreads : DataOf(n)
             /\ pc[Cmd] \in Before => data[Now] = "none"

Asked == [kind |-> pc[Cmd], n |-> Now]

End == [kind |-> "end", n |-> Now]

\* The start of a transfer: asked for, allowed, refused, or already over.
OnStart ==
    Clean /\ pc[Cmd] = "start" =>
        \/ data[Now] = "none" /\ requests # <<>> /\ Dialogue = <<Asked>>
        \/ /\ data[Now] = "open" /\ requests = <<>> /\ Dialogue = <<Asked>>
           /\ \A line \in InFlight : line.code = 150
        \/ /\ data[Now] = "over" /\ requests = <<>> /\ Dialogue = <<Asked>>
           /\ \A line \in InFlight : line.code # 150
        \/ /\ data[Now] = "over" /\ requests = <<>> /\ Dialogue = <<Asked, End>>
           /\ \A line \in InFlight : line.kind = "start" => line.code = 150
           /\ Verb = "stor" => broken

\* Beside a transfer nothing is under way but its own last reply.
OnTransfer ==
    Clean /\ ~NobodyBusy =>
        Dialogue = IF data[Now] = "over" THEN <<End>> ELSE <<>>

\* The line that a broken upload leaves, or the reply it stands before.
IsLate(topic) == topic.kind \in {"end", "pwd", "cwd", "quit"}

\* Where it may be left: not before the first transfer, nor in a second one.
LatePlaces == CmdPlaces \ {"greet", "user", "pass", "connect", "ask_start", "start"}

\* Between commands nothing is under way, but for the late line.
OnPrompt ==
    Clean /\ NobodyBusy /\ pc[Cmd] \notin Kinds =>
        \/ Dialogue = <<>>
        \/ /\ broken /\ pc[Cmd] \in LatePlaces
           /\ \E late \in Topic : IsLate(late) /\ Dialogue = <<late>>

\* Where a reply is awaited it is the next one, but for the late line.
OnAsk ==
    Clean /\ pc[Cmd] \in Kinds \ {"start"} =>
        \/ Dialogue = <<Asked>>
        \/ /\ broken /\ pc[Cmd] \in LatePlaces
           /\ \E late \in Topic : IsLate(late) /\ Dialogue = <<late, Asked>>

Paired ==
    /\ OneTransfer
    /\ ProperCodes
    /\ ControlKept
    /\ DataState
    /\ OnStart
    /\ OnTransfer
    /\ OnPrompt
    /\ OnAsk
    /\ CrossedOnlyBeside
    /\ SessionKept

-----------------------------------------------------------------------------
(***************************************************************************)
(* Steps of the command thread.                                            *)
(***************************************************************************)
LEMMA NumberOf ==
    ASSUME IInv
    PROVE  /\ Now \in 0 .. MaxCommands /\ MaxCommands \in Nat
           /\ [kind |-> "end", n |-> Now] \in Topic
           /\ (Now # 0 => Now \in DataThreads)
  <1>1. Now \in Nat /\ Now <= MaxCommands /\ MaxCommands \in Nat
    BY LenProperties, ThreadFacts DEF IInv, CommandPath, Now
  <1>2. Now \in 0 .. MaxCommands /\ (Now # 0 => Now \in DataThreads)
    BY <1>1 DEF DataThreads
  <1>3. QED
    BY <1>1, <1>2, KindsAre DEF Topic

\* Only the command thread moves, in the same command.
LEMMA CmdMoves ==
    ASSUME IInv, NEW place, pc' = [pc EXCEPT ![Cmd] = place], typed' = typed
    PROVE  /\ pc'[Cmd] = place
           /\ \A n \in DataThreads : pc'[n] = pc[n]
           /\ NobodyBusy' = NobodyBusy
           /\ Now' = Now /\ Verb' = Verb /\ End' = End
  <1>1. pc'[Cmd] = place /\ \A n \in DataThreads : pc'[n] = pc[n]
    BY ThreadFacts DEF IInv, Places
  <1>2. NobodyBusy' = NobodyBusy
    BY <1>1 DEF NobodyBusy, Busy
  <1>3. QED
    BY <1>1, <1>2 DEF Now, Verb, End

\* What a step that takes no reply leaves alone.
LEMMA RestKeeps ==
    ASSUME Rest
    PROVE  /\ msgQueue' = msgQueue /\ stream' = stream /\ InFlight' = InFlight
           /\ requests' = requests => Dialogue' = Dialogue
           /\ broken' = broken /\ splits' = splits /\ crossed' = crossed /\ taken' = taken
  BY DEF Rest, queue, InFlight, Dialogue, Topics

\* A step of the command thread that neither asks nor takes anything.
LEMMA QuietStep ==
    ASSUME IInv, Types, Paired, Rest, NEW place \in CmdPlaces,
           pc' = [pc EXCEPT ![Cmd] = place],
           UNCHANGED <<control, typed, requests, data, overlapped>>,
           pc[Cmd] \notin Kinds \cup {"exited", "bye"},
           place \notin Kinds \cup {"exited", "connect"},
           pc[Cmd] \in Settled => place \in Settled,
           place = "ask_start" => pc[Cmd] = "connect",
           place \in Before => pc[Cmd] \in Before
    PROVE  Paired'
  <1>1. /\ pc'[Cmd] = place
        /\ \A n \in DataThreads : pc'[n] = pc[n]
        /\ NobodyBusy' = NobodyBusy
        /\ Now' = Now /\ Verb' = Verb /\ End' = End
    BY CmdMoves
  <1>2. /\ InFlight' = InFlight /\ Dialogue' = Dialogue
        /\ broken' = broken /\ splits' = splits /\ crossed' = crossed /\ taken' = taken
    BY RestKeeps
  <1>3. Clean' => Clean
    BY <1>1, <1>2 DEF Clean, Alive
  <1>4. OneTransfer'
    BY <1>1 DEF Paired, OneTransfer, Busy
  <1>5. ProperCodes'
    BY <1>2 DEF Paired, ProperCodes
  <1>6. ControlKept'
    BY <1>1, <1>3, KindsAre DEF Paired, ControlKept
  <1>7. DataState'
    <2>1. \A n \in DataThreads : DataOf(n) /\ pc[Cmd] # "start" => DataOf(n)'
      BY <1>1, <1>2 DEF DataOf, Busy
    <2>2. pc[Cmd] # "start"
      BY KindsAre
    <2>3. QED
      BY <1>1, <1>3, <2>1, <2>2 DEF Paired, DataState
  <1>8. OnStart' /\ OnAsk'
    BY <1>1, KindsAre DEF OnStart, OnAsk
  <1>9. OnTransfer'
    BY <1>1, <1>2, <1>3 DEF Paired, OnTransfer
  <1>10. OnPrompt'
    <2>1. pc[Cmd] \in LatePlaces => place \in LatePlaces
      BY KindsAre DEF LatePlaces
    <2>2. QED
      BY <1>1, <1>2, <1>3, <2>1 DEF Paired, OnPrompt
  <1>11. CrossedOnlyBeside'
    BY <1>2 DEF Paired, CrossedOnlyBeside, Regular
  <1>12. SessionKept'
    BY <1>1, <1>2 DEF Paired, SessionKept, Regular, Alive
  <1>13. QED
    BY <1>4, <1>5, <1>6, <1>7, <1>8, <1>9, <1>10, <1>11, <1>12 DEF Paired

\* A line is sent where the command asks for something.
LEMMA SendStep ==
    ASSUME IInv, Types, Paired, Rest, NEW kind \in Kinds, SendLine(kind),
           pc' = [pc EXCEPT ![Cmd] = kind],
           UNCHANGED <<control, typed, data, overlapped>>,
           \/ pc[Cmd] = "ask" /\ kind \in {"pwd", "cwd", "quit"}
           \/ pc[Cmd] = "ask_pasv" /\ kind = "pasv"
           \/ pc[Cmd] = "ask_start" /\ kind = "start"
    PROVE  Paired'
  <1>1. /\ pc'[Cmd] = kind
        /\ \A n \in DataThreads : pc'[n] = pc[n]
        /\ NobodyBusy' = NobodyBusy
        /\ Now' = Now /\ Verb' = Verb /\ End' = End
    BY CmdMoves
  <1>2. /\ msgQueue' = msgQueue /\ stream' = stream /\ InFlight' = InFlight
        /\ broken' = broken /\ splits' = splits /\ crossed' = crossed /\ taken' = taken
    BY RestKeeps
  <1>3. Clean' => Clean /\ control = "open"
    BY <1>1, <1>2 DEF Clean, Alive, Paired, ControlKept, SendLine
  <1>4. OneTransfer' /\ (~overlapped => NobodyBusy)
    BY <1>1 DEF Paired, OneTransfer, Busy, Settled, NobodyBusy
  <1>5. ProperCodes'
    BY <1>2 DEF Paired, ProperCodes
  <1>6. ControlKept'
    BY <1>1, <1>3 DEF ControlKept
  <1>7. Asked' = [kind |-> kind, n |-> Now] /\ Asked' \in Topic
    BY <1>1, NumberOf DEF Asked, Topic
  <1>8. Clean' => requests' = Append(requests, Asked') /\ Dialogue' = Append(Dialogue, Asked')
    BY <1>2, <1>3, <1>7, SendMoves DEF SendLine
  <1>9. DataState'
    <2>1. \A n \in DataThreads : DataOf(n) /\ pc[Cmd] # "start" => DataOf(n)'
      BY <1>1, <1>2 DEF DataOf, Busy
    <2>2. QED
      BY <1>1, <1>3, <2>1 DEF Paired, DataState, Before
  <1>10. Clean' => \/ Dialogue = <<>>
                   \/ /\ broken /\ pc[Cmd] \in LatePlaces
                      /\ \E late \in Topic : IsLate(late) /\ Dialogue = <<late>>
    BY <1>3, <1>4, KindsAre DEF Paired, OnPrompt, Clean
  <1>11. Clean' => \/ Dialogue' = <<Asked'>>
                   \/ /\ broken' /\ kind \in LatePlaces /\ pc[Cmd] # "ask_start"
                      /\ \E late \in Topic : IsLate(late) /\ Dialogue' = <<late, Asked'>>
    <2>1. kind \in LatePlaces \/ kind = "start"
      BY DEF LatePlaces, CmdPlaces, CmdHolds
    <2>2. pc[Cmd] = "ask_start" => pc[Cmd] \notin LatePlaces
      BY DEF LatePlaces
    <2>3. QED
      BY <1>2, <1>8, <1>10, <2>1, <2>2, SMTT(30)
  <1>12. OnAsk'
    BY <1>1, <1>11 DEF OnAsk
  <1>13. OnStart'
    <2>1. Clean' => requests' # <<>>
      BY <1>7, <1>8, AppendProperties, DialogueTypes
    <2>2. Clean' /\ kind = "start" => data'[Now'] = "none" /\ Dialogue' = <<Asked'>>
      BY <1>1, <1>3, <1>11 DEF Paired, DataState, Before
    <2>3. QED
      BY <1>1, <2>1, <2>2 DEF OnStart
  <1>14. OnTransfer' /\ OnPrompt'
    BY <1>1, <1>3, <1>4 DEF OnTransfer, OnPrompt, Clean
  <1>15. CrossedOnlyBeside'
    BY <1>2 DEF Paired, CrossedOnlyBeside, Regular
  <1>16. SessionKept'
    BY <1>1, <1>2, ThreadFacts DEF Paired, SessionKept, Regular, Alive, SendLine
  <1>17. QED
    BY <1>4, <1>5, <1>6, <1>9, <1>12, <1>13, <1>14, <1>15, <1>16 DEF Paired

\* A command is typed that asks the server for something.
LEMMA TypeAsks ==
    ASSUME IInv, Types, Paired, NEW verb \in Asks, Type(verb)
    PROVE  Paired'
  <1>1. /\ pc[Cmd] = "typing" /\ Rest /\ UNCHANGED <<control, requests, data>>
        /\ pc' = [pc EXCEPT ![Cmd] = PlaceOf(verb)]
        /\ typed' = Append(typed, verb) /\ Now < MaxCommands
        /\ overlapped' = (overlapped \/ ~NobodyBusy)
    BY DEF Type, Goto, NobodyBusy
  <1>2. PlaceOf(verb) \in {"lock", "ask"}
    BY DEF PlaceOf, Asks, Transfers
  <1>3. pc'[Cmd] \in {"lock", "ask"} /\ \A n \in DataThreads : pc'[n] = pc[n]
    BY <1>1, <1>2, ThreadFacts DEF IInv, Places
  <1>4. NobodyBusy' = NobodyBusy
    BY <1>3 DEF NobodyBusy, Busy
  <1>5. Now' = Now + 1 /\ Now' \in DataThreads /\ Now \in Nat
    <2>1. typed \in Seq(Asks)
      BY DEF IInv, CommandPath
    <2>2. Now' = Now + 1 /\ Now \in Nat
      BY <1>1, <2>1, AppendProperties, LenProperties DEF Now
    <2>3. QED
      BY <1>1, <2>2, NumberOf DEF DataThreads
  <1>6. /\ InFlight' = InFlight /\ Dialogue' = Dialogue
        /\ broken' = broken /\ splits' = splits /\ crossed' = crossed /\ taken' = taken
    BY <1>1, RestKeeps
  <1>7. ~overlapped' => ~overlapped /\ NobodyBusy
    BY <1>1 DEF Types
  <1>8. Clean' => Clean
    BY <1>1, <1>6, <1>7 DEF Clean, Alive
  <1>9. OneTransfer'
    BY <1>4, <1>7 DEF OneTransfer, NobodyBusy
  <1>10. ProperCodes'
    BY <1>6 DEF Paired, ProperCodes
  <1>11. ControlKept'
    BY <1>1, <1>3, <1>4, <1>7, <1>8, KindsAre DEF Paired, ControlKept, Clean
  <1>12. DataState'
    <2>1. ASSUME Clean', NEW n \in DataThreads
          PROVE  DataOf(n)' /\ (n > Now => data[n] = "none")
      <3>1. DataOf(n) /\ ~Busy(n)
        BY <1>7, <1>8, <2>1 DEF Paired, DataState, Clean, NobodyBusy
      <3>2. data[n] \notin {"open", "closed"}
        BY <1>1, <3>1 DEF DataOf
      <3>3. ~ (n > Now) => ~ (n > Now')
        BY <1>5 DEF DataThreads
      <3>4. pc'[n] \in {"none", "done"}
        BY <1>3, <3>1 DEF Busy
      <3>5. QED
        BY <1>1, <3>1, <3>2, <3>3, <3>4 DEF DataOf, Busy
    <2>2. Clean' => data'[Now'] = "none"
      BY <1>1, <1>5, <2>1
    <2>3. QED
      BY <2>1, <2>2 DEF DataState
  <1>13. OnStart' /\ OnAsk' /\ OnTransfer'
    BY <1>3, <1>4, <1>7, KindsAre DEF OnStart, OnAsk, OnTransfer, Clean
  <1>14. OnPrompt'
    <2>1. pc'[Cmd] \in LatePlaces /\ pc[Cmd] \notin Kinds
      BY <1>1, <1>3, KindsAre DEF LatePlaces, CmdPlaces
    <2>2. QED
      BY <1>4, <1>6, <1>8, <2>1 DEF Paired, OnPrompt
  <1>15. CrossedOnlyBeside'
    BY <1>6, <1>7 DEF Paired, CrossedOnlyBeside, Regular
  <1>16. SessionKept'
    BY <1>1, <1>6, <1>7 DEF Paired, SessionKept, Regular, Alive
  <1>17. QED
    BY <1>9, <1>10, <1>11, <1>12, <1>13, <1>14, <1>15, <1>16 DEF Paired

\* A reply is taken by the command thread in the middle of a dialogue: it is
\* the one it asked for, or a late one.
LEMMA TakenByCmd ==
    ASSUME IInv, Types, Paired, Take(Cmd), pc[Cmd] # "start",
           Clean
    PROVE  /\ NobodyBusy /\ Line.code \in Codes[Line.kind]
           /\ Line.kind \in Kinds
           /\ \/ /\ Line.kind = pc[Cmd] /\ Line.n = Now /\ Tail(Dialogue) = <<>>
              \/ /\ broken /\ pc[Cmd] \in LatePlaces
                 /\ IsLate(Line) /\ Tail(Dialogue) = <<Asked>>
  <1>1. pc[Cmd] \in Kinds \ {"start"}
    BY DEF Take
  <1>2. /\ Head(Dialogue) = About(Line) /\ Line \in InFlight /\ Line \in Lines
    BY TakeMoves, ThreadFacts
  <1>3. NobodyBusy
    BY <1>1, KindsAre DEF Paired, OneTransfer, Clean, Settled, NobodyBusy
  <1>4. Line.code \in Codes[Line.kind] /\ Line.kind \in Kinds
    BY <1>2, LineIs DEF Paired, ProperCodes, Clean
  <1>5. CASE Dialogue = <<Asked>>
    <2>1. About(Line) = Asked /\ Tail(Dialogue) = <<>>
      BY <1>2, <1>5
    <2>2. QED
      BY <1>3, <1>4, <2>1 DEF About, Asked
  <1>6. CASE /\ broken /\ pc[Cmd] \in LatePlaces
             /\ \E late \in Topic : IsLate(late) /\ Dialogue = <<late, Asked>>
    <2>1. PICK late \in Topic : IsLate(late) /\ Dialogue = <<late, Asked>>
      BY <1>6
    <2>2. About(Line) = late /\ Tail(Dialogue) = <<Asked>>
      BY <1>2, <2>1
    <2>3. Line.kind = late.kind
      BY <2>2 DEF About
    <2>4. QED
      BY <1>3, <1>4, <1>6, <2>1, <2>2, <2>3 DEF IsLate
  <1>7. QED
    BY <1>1, <1>5, <1>6 DEF Paired, OnAsk

\* What is taken is remembered.
LEMMA TakeKeeps ==
    ASSUME Types, NEW t \in Threads, Take(t)
    PROVE  /\ UNCHANGED <<typed, overlapped, broken, splits>>
           /\ Alive /\ pc[t] \in Kinds
           /\ crossed' = (crossed \/ ~IsFor(Line, t))
           /\ \A i \in DOMAIN taken : i \in DOMAIN taken' /\ taken'[i] = taken[i]
           /\ \E i \in DOMAIN taken' : taken'[i].reply = Line
  <1>1. /\ UNCHANGED <<typed, overlapped, broken, splits>>
        /\ Alive /\ pc[t] \in Kinds
        /\ crossed' = (crossed \/ ~IsFor(Line, t))
        /\ taken' = Append(taken, [by |-> t, reply |-> Line])
    BY DEF Take, Q!Take, Line
  <1>2. taken \in Seq([by : Threads, reply : Lines]) /\ Line \in Lines
    BY TakeMoves DEF Types
  <1>3. /\ taken' \in Seq([by : Threads, reply : Lines])
        /\ Len(taken') = Len(taken) + 1 /\ Len(taken) \in Nat
        /\ \A i \in 1 .. Len(taken) : taken'[i] = taken[i]
        /\ taken'[Len(taken) + 1] = [by |-> t, reply |-> Line]
    BY <1>1, <1>2, AppendProperties, LenProperties
  <1>4. DOMAIN taken = 1 .. Len(taken) /\ DOMAIN taken' = 1 .. Len(taken) + 1
    BY <1>2, <1>3, LenProperties
  <1>5. /\ \A i \in 1 .. Len(taken) : i \in 1 .. Len(taken) + 1
        /\ Len(taken) + 1 \in 1 .. Len(taken) + 1
    BY <1>3
  <1>6. QED
    BY <1>1, <1>3, <1>4, <1>5

\* The command thread has taken a reply and goes to a place where it waits
\* for none.  If it gave up the connection, a refused PASV was the reason.
LEMMA TakingStep ==
    ASSUME IInv, Types, Paired, Take(Cmd), pc[Cmd] # "start",
           NEW place \in {"report", "shout", "bye", "connect", "idle"},
           pc' = [pc EXCEPT ![Cmd] = place], UNCHANGED <<requests, data>>,
           place = "connect" => pc[Cmd] = "pasv" /\ Line.code = 227,
           pc[Cmd] = "quit" /\ Line.code = 221 => place = "bye",
           \/ control' = control
           \/ control' = "closed" /\ pc[Cmd] = "pasv" /\ place = "idle" /\ Line.code # 227,
           pc[Cmd] = "pasv" /\ Line.code # 227 => control' = "closed"
    PROVE  Paired'
  <1>1. /\ pc'[Cmd] = place
        /\ \A n \in DataThreads : pc'[n] = pc[n]
        /\ NobodyBusy' = NobodyBusy
        /\ Now' = Now /\ Verb' = Verb /\ End' = End
    BY CmdMoves, TakeKeeps, ThreadFacts
  <1>2. /\ UNCHANGED <<typed, overlapped, broken, splits>> /\ Alive /\ pc[Cmd] \in Kinds
        /\ crossed' = (crossed \/ ~IsFor(Line, Cmd))
        /\ \A i \in DOMAIN taken : i \in DOMAIN taken' /\ taken'[i] = taken[i]
        /\ \E i \in DOMAIN taken' : taken'[i].reply = Line
    BY TakeKeeps, ThreadFacts
  <1>3. InFlight' \subseteq InFlight /\ Dialogue' = Tail(Dialogue)
    BY TakeMoves, ThreadFacts
  <1>4. Clean' => Clean
    BY <1>1, <1>2 DEF Clean
  <1>5. Clean => /\ NobodyBusy /\ Line.code \in Codes[Line.kind]
                 /\ Line.kind \in Kinds
                 /\ \/ /\ Line.kind = pc[Cmd] /\ Line.n = Now /\ Tail(Dialogue) = <<>>
                    \/ /\ broken /\ pc[Cmd] \in LatePlaces
                       /\ IsLate(Line) /\ Tail(Dialogue) = <<Asked>>
    BY TakenByCmd
  <1>6. OneTransfer'
    <2>1. ~overlapped => NobodyBusy
      BY <1>2, KindsAre DEF Paired, OneTransfer, Settled, NobodyBusy
    <2>2. QED
      BY <1>1, <1>2, <2>1 DEF OneTransfer, NobodyBusy
  <1>7. ProperCodes'
    BY <1>2, <1>3 DEF Paired, ProperCodes
  <1>8. Clean' => (pc[Cmd] = "pasv" /\ Line.code # 227 => ~broken)
    BY <1>1, <1>2 DEF Clean
  <1>9. ControlKept'
    <2>1. ASSUME Clean', control' = "lost"
          PROVE  place = "bye"
      <3>1. control = "lost" /\ ~broken /\ pc[Cmd] = "quit"
        BY <1>2, <1>4, <2>1, KindsAre DEF Paired, ControlKept, Clean
      <3>2. Line.kind = "quit" /\ Line.code \in Codes["quit"]
        BY <1>4, <1>5, <2>1, <3>1
      <3>3. Line.code = 221
        BY <3>2 DEF Codes
      <3>4. QED
        BY <3>1, <3>3
    <2>2. ASSUME Clean', control' = "closed"
          PROVE  NobodyBusy' /\ place \notin Kinds \cup {"connect", "ask_start"}
      <3>1. NobodyBusy /\ control # "closed"
        BY <1>2, <1>4, <1>5, <2>2 DEF Paired, ControlKept
      <3>2. place = "idle"
        BY <2>2, <3>1
      <3>3. QED
        BY <1>1, <3>1, <3>2, KindsAre
    <2>3. QED
      BY <1>1, <2>1, <2>2 DEF ControlKept
  <1>10. DataState'
    <2>1. \A n \in DataThreads : DataOf(n) /\ pc[Cmd] # "start" => DataOf(n)'
      BY <1>1, <1>2 DEF DataOf, Busy
    <2>2. QED
      BY <1>1, <1>4, <2>1 DEF Paired, DataState, Before
  <1>11. OnStart' /\ OnAsk'
    BY <1>1, KindsAre DEF OnStart, OnAsk
  <1>12. OnTransfer'
    BY <1>1, <1>4, <1>5 DEF OnTransfer
  <1>13. OnPrompt'
    <2>1. ASSUME Clean'
          PROVE  \/ Tail(Dialogue) = <<>>
                 \/ /\ broken /\ place \in LatePlaces
                    /\ \E late \in Topic : IsLate(late) /\ Tail(Dialogue) = <<late>>
      <3>1. CASE Tail(Dialogue) = <<>>
        BY <3>1
      <3>2. CASE /\ broken /\ pc[Cmd] \in LatePlaces
                 /\ IsLate(Line) /\ Tail(Dialogue) = <<Asked>>
        <4>1. Line.code # 227
          BY <1>4, <1>5, <2>1, <3>2 DEF IsLate, Codes
        <4>2. pc[Cmd] # "pasv" /\ place # "connect"
          BY <1>8, <2>1, <3>2, <4>1
        <4>3. place \in LatePlaces
          BY <4>2 DEF LatePlaces, CmdPlaces
        <4>4. pc[Cmd] \in {"pwd", "cwd", "quit"}
          BY <1>2, <3>2, <4>2, KindsAre DEF LatePlaces, CmdPlaces, CmdHolds
        <4>5. IsLate(Asked) /\ Asked \in Topic
          BY <1>2, <4>4, NumberOf DEF IsLate, Asked, Topic
        <4>6. QED
          BY <3>2, <4>3, <4>5
      <3>3. QED
        BY <1>4, <1>5, <2>1, <3>1, <3>2
    <2>2. QED
      BY <1>1, <1>2, <1>3, <2>1 DEF OnPrompt
  <1>14. CrossedOnlyBeside'
    <2>1. Regular /\ ~crossed => IsFor(Line, Cmd)
      <3>1. Regular => Clean /\ ~broken
        BY <1>2 DEF Regular, Clean
      <3>2. QED
        BY <1>5, <3>1 DEF IsFor
    <2>2. QED
      BY <1>2, <2>1 DEF Paired, CrossedOnlyBeside, Regular
  <1>15. SessionKept'
    <2>1. ASSUME Regular, control' = "closed"
          PROVE  \E i \in DOMAIN taken' : taken'[i].reply.code = 425
      <3>1. Clean /\ ~broken
        BY <1>2, <2>1 DEF Regular, Clean
      <3>2. pc[Cmd] = "pasv" /\ Line.code # 227
        BY <1>2, <2>1, <3>1 DEF Paired, ControlKept
      <3>3. Line.code \in Codes["pasv"]
        BY <1>5, <3>1, <3>2
      <3>4. Line.code = 425
        BY <3>2, <3>3 DEF Codes
      <3>5. QED
        BY <1>2, <3>4
    <2>2. Regular' = Regular
      BY <1>2 DEF Regular
    <2>3. QED
      BY <2>1, <2>2 DEF SessionKept
  <1>16. QED
    BY <1>6, <1>7, <1>9, <1>10, <1>11, <1>12, <1>13, <1>14, <1>15 DEF Paired

LEMMA AnsweredPairs == ASSUME IInv, Types, Paired, Answered PROVE Paired'
  <1>1. /\ pc[Cmd] \in {"pwd", "cwd", "quit"} /\ Take(Cmd)
        /\ UNCHANGED <<control, requests, data>>
    BY DEF Answered
  <1> DEFINE place == CASE pc[Cmd] = "cwd" -> "shout"
                        [] pc[Cmd] = "quit" /\ Line.code = 221 -> "bye"
                        [] OTHER -> "report"
  <1>2. pc' = [pc EXCEPT ![Cmd] = place]
    BY DEF Answered, Goto
  <1>3. /\ place \in {"report", "shout", "bye"}
        /\ pc[Cmd] = "quit" /\ Line.code = 221 => place = "bye"
    BY <1>1
  <1> HIDE DEF place
  <1>4. QED
    BY <1>1, <1>2, <1>3, TakingStep

LEMMA PasvPairs == ASSUME IInv, Types, Paired, PasvAnswered PROVE Paired'
  <1>1. pc[Cmd] = "pasv" /\ Take(Cmd) /\ UNCHANGED <<requests, data>>
    BY DEF PasvAnswered
  <1>2. PICK place \in {"connect", "idle"} :
            /\ pc' = [pc EXCEPT ![Cmd] = place]
            /\ \/ Line.code = 227 /\ place = "connect" /\ control' = control
               \/ Line.code # 227 /\ place = "idle" /\ control' = "closed"
    BY DEF PasvAnswered, Goto, Leave
  <1>3. QED
    BY <1>1, <1>2, TakingStep

\* The dialogue of the login, of which nothing can be late.
LEMMA LoginPairs == ASSUME IInv, Types, Paired, Login PROVE Paired'
  <1>1. /\ pc[Cmd] \in {"greet", "user", "pass"} /\ Take(Cmd) /\ data' = data
    BY DEF Login
  <1>2. CASE Goto(Cmd, "idle") /\ UNCHANGED <<control, requests>>
    BY <1>1, <1>2, TakingStep DEF Goto
  <1>3. /\ UNCHANGED <<typed, overlapped, broken, splits>> /\ Alive /\ pc[Cmd] \in Kinds
        /\ crossed' = (crossed \/ ~IsFor(Line, Cmd))
        /\ \A i \in DOMAIN taken : i \in DOMAIN taken' /\ taken'[i] = taken[i]
        /\ \E i \in DOMAIN taken' : taken'[i].reply = Line
        /\ InFlight' \subseteq InFlight
    BY <1>1, TakeKeeps, TakeMoves, ThreadFacts
  <1>4. ~overlapped => NobodyBusy
    BY <1>1 DEF Paired, OneTransfer, Settled, NobodyBusy
  <1>5. ProperCodes'
    BY <1>3 DEF Paired, ProperCodes
  <1>6. Clean => /\ Line.kind = pc[Cmd] /\ Line.n = Now /\ Tail(Dialogue) = <<>>
                 /\ control = "open"
    <2>1. pc[Cmd] \notin LatePlaces
      BY <1>1 DEF LatePlaces
    <2>2. QED
      BY <1>1, <1>3, <2>1, TakenByCmd DEF Paired, ControlKept, Types
  <1>7. Regular /\ ~crossed => IsFor(Line, Cmd)
    <2>1. Regular => Clean
      BY <1>3 DEF Regular, Clean
    <2>2. QED
      BY <1>6, <2>1 DEF IsFor
  <1>8. CrossedOnlyBeside'
    BY <1>3, <1>7 DEF Paired, CrossedOnlyBeside, Regular
  <1>9. CASE Exit
    <2>1. pc'[Cmd] = "exited" /\ NobodyBusy' = NobodyBusy
      BY <1>3, <1>9, CmdMoves DEF Exit, Goto
    <2>2. ~Clean' /\ ~Alive'
      BY <2>1 DEF Clean, Alive
    <2>3. OneTransfer'
      BY <1>3, <1>4, <2>1 DEF OneTransfer, NobodyBusy
    <2>4. QED
      BY <1>5, <1>8, <2>2, <2>3 DEF Paired, ControlKept, DataState, OnStart, OnTransfer,
         OnPrompt, OnAsk, SessionKept
  <1>10. ASSUME NEW place \in {"user", "pass"}, SendLine(place), Goto(Cmd, place),
                UNCHANGED control
         PROVE  Paired'
    <2>1. /\ pc'[Cmd] = place
          /\ \A n \in DataThreads : pc'[n] = pc[n]
          /\ NobodyBusy' = NobodyBusy
          /\ Now' = Now /\ Verb' = Verb /\ End' = End
      BY <1>3, <1>10, CmdMoves DEF Goto
    <2>2. Clean' => Clean
      BY <1>3, <1>10 DEF Clean
    <2>3. Asked' \in Topic /\ Asked' = [kind |-> place, n |-> Now]
      BY <2>1, NumberOf, KindsAre DEF Asked, Topic
    <2>4. Clean' => Dialogue' = <<Asked'>>
      <3>1. Clean' => requests' = Append(requests, Asked')
        BY <1>6, <1>10, <2>2, <2>3 DEF SendLine
      <3>2. Clean' => Dialogue' = Append(Tail(Dialogue), Asked')
        BY <1>1, <2>3, <3>1, TakeMoves, ThreadFacts
      <3>3. QED
        BY <1>6, <2>2, <3>2
    <2>5. OneTransfer'
      BY <1>3, <1>4, <2>1 DEF OneTransfer, NobodyBusy
    <2>6. ControlKept'
      BY <1>6, <1>10, <2>2 DEF ControlKept
    <2>7. DataState'
      <3>1. \A n \in DataThreads : DataOf(n) /\ pc[Cmd] # "start" => DataOf(n)'
        BY <1>1, <1>3, <2>1 DEF DataOf, Busy
      <3>2. QED
        BY <1>1, <2>1, <2>2, <3>1 DEF Paired, DataState, Before
    <2>8. OnStart' /\ OnAsk' /\ OnTransfer' /\ OnPrompt'
      BY <1>3, <1>4, <2>1, <2>2, <2>4, KindsAre DEF OnStart, OnAsk, OnTransfer, OnPrompt, Clean
    <2>9. SessionKept'
      <3>1. Regular' => Clean
        BY <1>3 DEF Regular, Clean
      <3>2. QED
        BY <1>6, <1>10, <3>1 DEF SessionKept
    <2>10. QED
      BY <1>5, <1>8, <2>5, <2>6, <2>7, <2>8, <2>9 DEF Paired
  <1>11. QED
    BY <1>2, <1>9, <1>10 DEF Login

\* The reply to LIST, STOR or RETR: 150 starts the thread of the transfer,
\* whose last reply may be here already.
LEMMA StartTaken ==
    ASSUME IInv, Types, Paired, Take(Cmd), pc[Cmd] = "start", Clean
    PROVE  /\ NobodyBusy /\ control = "open" /\ Line.kind = "start" /\ Line.n = Now
           /\ \/ Line.code = 150 /\ data[Now] = "open" /\ Tail(Dialogue) = <<>>
              \/ Line.code # 150 /\ data[Now] = "over" /\ Tail(Dialogue) = <<>>
              \/ /\ Line.code = 150 /\ data[Now] = "over" /\ Tail(Dialogue) = <<End>>
                 /\ Verb = "stor" => broken
  <1>1. Dialogue # <<>> /\ Head(Dialogue) = About(Line) /\ Line \in InFlight
    BY TakeMoves, ThreadFacts
  <1>2. NobodyBusy /\ control = "open"
    <2>1. NobodyBusy
      BY DEF Paired, OneTransfer, Clean, Settled, NobodyBusy
    <2>2. control = "open"
      BY KindsAre DEF Paired, ControlKept, Types
    <2>3. QED
      BY <2>1, <2>2
  <1>3. ~ (requests # <<>> /\ Dialogue = <<Asked>>)
    <2>1. Len(Dialogue) = Len(msgQueue) + Len(stream) + Len(requests)
      BY DialogueTypes
    <2>2. Len(msgQueue) \in Nat /\ Len(msgQueue) # 0 /\ Len(stream) \in Nat
      BY DialogueTypes, EmptySeq DEF Take, Q!Take
    <2>3. requests # <<>> => Len(requests) \in Nat /\ Len(requests) # 0
      BY DialogueTypes, EmptySeq
    <2>4. Dialogue = <<Asked>> => Len(Dialogue) = 1
      OBVIOUS
    <2>5. QED
      BY <2>1, <2>2, <2>3, <2>4
  <1>4. \/ Dialogue = <<Asked>> \/ Dialogue = <<Asked, End>>
    BY DEF Paired, OnStart
  <1>5. About(Line) = Asked
    BY <1>1, <1>4
  <1>6. Line.kind = "start" /\ Line.n = Now
    BY <1>5 DEF About, Asked
  <1>7. /\ Dialogue = <<Asked>> => Tail(Dialogue) = <<>>
        /\ Dialogue = <<Asked, End>> => Tail(Dialogue) = <<End>>
    <2>1. \A a, b : Tail(<<a>>) = <<>> /\ Tail(<<a, b>>) = <<b>>
      OBVIOUS
    <2>2. QED
      BY <2>1, Zenon
  <1>8. QED
    BY <1>1, <1>2, <1>3, <1>6, <1>7 DEF Paired, OnStart

LEMMA StartPairs == ASSUME IInv, Types, Paired, StartAnswered PROVE Paired'
  <1>1. /\ pc[Cmd] = "start" /\ Take(Cmd) /\ UNCHANGED <<control, requests, data>>
    BY DEF StartAnswered
  <1>2. /\ UNCHANGED <<typed, overlapped, broken, splits>> /\ Alive
        /\ crossed' = (crossed \/ ~IsFor(Line, Cmd))
        /\ \A i \in DOMAIN taken : i \in DOMAIN taken' /\ taken'[i] = taken[i]
        /\ \E i \in DOMAIN taken' : taken'[i].reply = Line
        /\ InFlight' \subseteq InFlight /\ Dialogue' = Tail(Dialogue)
    BY <1>1, TakeKeeps, TakeMoves, ThreadFacts
  <1>3. Now' = Now /\ Verb' = Verb /\ End' = End
    BY <1>2 DEF Now, Verb, End
  <1>4. /\ Now \in DataThreads /\ Verb \in Transfers /\ Now \in Threads /\ Now # Cmd
    BY <1>1, NumberOf, ThreadFacts DEF IInv, CommandPath, MovesData
  <1>5. Clean' => Clean
    BY <1>1, <1>2 DEF Clean
  <1>6. Clean =>
           /\ NobodyBusy /\ control = "open" /\ Line.kind = "start" /\ Line.n = Now
           /\ \/ Line.code = 150 /\ data[Now] = "open" /\ Tail(Dialogue) = <<>>
              \/ Line.code # 150 /\ data[Now] = "over" /\ Tail(Dialogue) = <<>>
              \/ /\ Line.code = 150 /\ data[Now] = "over" /\ Tail(Dialogue) = <<End>>
                 /\ Verb = "stor" => broken
    BY <1>1, StartTaken
  <1>7. ~overlapped => NobodyBusy
    BY <1>1 DEF Paired, OneTransfer, Settled, NobodyBusy
  <1>8. ProperCodes'
    BY <1>2 DEF Paired, ProperCodes
  <1>9. CrossedOnlyBeside'
    <2>1. Regular /\ ~crossed => IsFor(Line, Cmd)
      <3>1. Regular => Clean
        BY <1>2 DEF Regular, Clean
      <3>2. QED
        BY <1>1, <1>6, <3>1 DEF IsFor
    <2>2. QED
      BY <1>2, <2>1 DEF Paired, CrossedOnlyBeside, Regular
  <1>10. SessionKept'
    <2>1. Regular' => Clean
      BY <1>2 DEF Regular, Clean
    <2>2. QED
      BY <1>1, <1>6, <2>1 DEF SessionKept
  <1>11. ControlKept'
    BY <1>1, <1>5, <1>6 DEF ControlKept
  <1>12. ASSUME pc'[Cmd] = "idle"
         PROVE  OnStart' /\ OnAsk'
    BY <1>12, KindsAre DEF OnStart, OnAsk
  <1>13. ASSUME Clean, NEW n \in DataThreads
         PROVE  /\ n > Now => data[n] = "none"
                /\ n # Now => data[n] \in {"none", "over"}
                /\ pc[n] \in {"none", "done"}
    <2>1. DataOf(n) /\ ~Busy(n)
      BY <1>6, <1>13 DEF Paired, DataState, NobodyBusy
    <2>2. data[n] \in {"none", "open", "closed", "over"}
      BY DEF Types
    <2>3. QED
      BY <2>1, <2>2 DEF DataOf, Busy
  <1>14. CASE Line.code # 150 /\ Goto(Cmd, "idle")
    <2>1. /\ pc'[Cmd] = "idle" /\ NobodyBusy' = NobodyBusy
          /\ \A n \in DataThreads : pc'[n] = pc[n]
      BY <1>2, <1>14, CmdMoves DEF Goto
    <2>2. OneTransfer'
      BY <1>2, <1>7, <2>1 DEF OneTransfer, NobodyBusy
    <2>3. DataState'
      <3>1. ASSUME Clean', NEW n \in DataThreads
            PROVE  DataOf(n)'
        <4>1. data[n] \in {"none", "over"}
          BY <1>5, <1>6, <1>13, <1>14, <3>1
        <4>2. pc'[n] \in {"none", "done"}
          BY <1>5, <1>13, <2>1, <3>1
        <4>3. QED
          BY <1>1, <1>3, <1>5, <1>13, <3>1, <4>1, <4>2 DEF DataOf, Busy
      <3>2. QED
        BY <2>1, <3>1 DEF DataState, Before
    <2>4. OnTransfer' /\ OnPrompt'
      BY <1>2, <1>5, <1>6, <1>14, <2>1 DEF OnTransfer, OnPrompt
    <2>5. QED
      BY <1>8, <1>9, <1>10, <1>11, <1>12, <2>1, <2>2, <2>3, <2>4 DEF Paired
  <1>15. ASSUME NEW place \in FirstPlace[Verb], Line.code = 150,
                pc' = [pc EXCEPT ![Cmd] = "idle", ![Now] = place]
         PROVE  Paired'
    <2>1. place \in {"lock_print", "saving", "begin"} /\ (place = "begin" => Verb = "stor")
      <3>1. CASE Verb = "list"
        BY <1>15, <3>1 DEF FirstPlace
      <3>2. CASE Verb = "retr"
        BY <1>15, <3>2 DEF FirstPlace
      <3>3. CASE Verb = "stor"
        BY <1>15, <3>3 DEF FirstPlace
      <3>4. QED
        BY <1>4, <3>1, <3>2, <3>3 DEF Transfers
    <2>2. /\ pc'[Cmd] = "idle" /\ pc'[Now] = place
          /\ \A n \in DataThreads : n # Now => pc'[n] = pc[n]
      BY <1>4, <1>15, ThreadFacts DEF IInv, Places
    <2>3. ~NobodyBusy'
      BY <1>4, <2>1, <2>2 DEF NobodyBusy, Busy
    <2>4. OneTransfer'
      BY <1>2, <1>3, <1>7, <2>2 DEF OneTransfer, NobodyBusy, Busy, Settled
    <2>5. DataState'
      <3>1. ASSUME Clean', NEW n \in DataThreads, n # Now
            PROVE  DataOf(n)'
        <4>1. pc'[n] \in {"none", "done"}
          BY <1>5, <1>13, <2>2, <3>1
        <4>2. QED
          BY <1>1, <1>3, <1>5, <1>13, <3>1, <4>1 DEF DataOf, Busy
      <3>2. ASSUME Clean'
            PROVE  DataOf(Now)'
        <4>1. data[Now] \in {"open", "over"} /\ (data[Now] = "over" /\ Verb = "stor" => broken)
          BY <1>5, <1>6, <1>15, <3>2
        <4>2. ~ (Now > Now)
          BY NumberOf
        <4>3. QED
          BY <1>1, <1>2, <1>3, <2>1, <2>2, <4>1, <4>2 DEF DataOf, Busy, Verb
      <3>3. QED
        BY <1>3, <2>2, <3>1, <3>2 DEF DataState, Before
    <2>6. OnTransfer'
      BY <1>1, <1>2, <1>3, <1>5, <1>6, <1>15 DEF OnTransfer
    <2>7. OnPrompt'
      BY <2>3 DEF OnPrompt
    <2>8. QED
      BY <1>8, <1>9, <1>10, <1>11, <1>12, <2>2, <2>4, <2>5, <2>6, <2>7 DEF Paired
  <1>16. QED
    BY <1>14, <1>15 DEF StartAnswered

\* exit(0) ends everything.
LEMMA ByePairs == ASSUME IInv, Types, Paired, Bye PROVE Paired'
  <1>1. /\ pc[Cmd] = "bye" /\ pc' = [pc EXCEPT ![Cmd] = "exited"] /\ typed' = typed
        /\ Rest /\ UNCHANGED <<requests, overlapped>>
    BY DEF Bye, Exit, Goto
  <1>2. pc'[Cmd] = "exited" /\ NobodyBusy' = NobodyBusy
    BY <1>1, CmdMoves
  <1>3. ~Clean' /\ ~Alive'
    BY <1>2 DEF Clean, Alive
  <1>4. InFlight' = InFlight /\ broken' = broken /\ splits' = splits /\ crossed' = crossed
    BY <1>1, RestKeeps
  <1>5. OneTransfer'
    BY <1>1, <1>2 DEF Paired, OneTransfer, NobodyBusy, Settled
  <1>6. ProperCodes' /\ CrossedOnlyBeside'
    BY <1>1, <1>4 DEF Paired, ProperCodes, CrossedOnlyBeside, Regular
  <1>7. QED
    BY <1>3, <1>5, <1>6 DEF Paired, ControlKept, DataState, OnStart, OnTransfer,
       OnPrompt, OnAsk, SessionKept

LEMMA AskPairs == ASSUME IInv, Types, Paired, Ask PROVE Paired'
  <1>1. /\ pc[Cmd] = "ask" /\ Rest /\ UNCHANGED <<control, typed, data, overlapped>>
        /\ \/ SendLine(Verb) /\ pc' = [pc EXCEPT ![Cmd] = Verb]
           \/ requests' = requests /\ pc' = [pc EXCEPT ![Cmd] = "report"]
    BY DEF Ask, Goto, SendFails
  <1>2. Verb \in {"pwd", "cwd", "quit"} /\ Verb \in Kinds
    BY <1>1, KindsAre DEF IInv, CommandPath
  <1>3. CASE SendLine(Verb) /\ pc' = [pc EXCEPT ![Cmd] = Verb]
    BY <1>1, <1>2, <1>3, SendStep
  <1>4. CASE requests' = requests /\ pc' = [pc EXCEPT ![Cmd] = "report"]
    <2>1. "report" \in CmdPlaces /\ "report" \notin Kinds /\ pc[Cmd] \notin Kinds
          /\ "report" \notin Before /\ pc[Cmd] \notin Settled
      BY <1>1, KindsAre DEF CmdPlaces, Before, Settled
    <2>2. QED
      BY <1>1, <1>4, <2>1, QuietStep
  <1>5. QED
    BY <1>1, <1>3, <1>4

LEMMA AskForPairs ==
    ASSUME IInv, Types, Paired, AskPasv \/ AskStart
    PROVE  Paired'
  <1>1. PICK kind \in {"pasv", "start"} :
            /\ \/ pc[Cmd] = "ask_pasv" /\ kind = "pasv"
               \/ pc[Cmd] = "ask_start" /\ kind = "start"
            /\ AskFor(kind)
    BY DEF AskPasv, AskStart
  <1>2. /\ Rest /\ UNCHANGED <<control, typed, data, overlapped>>
        /\ \/ SendLine(kind) /\ pc' = [pc EXCEPT ![Cmd] = kind]
           \/ requests' = requests /\ pc' = [pc EXCEPT ![Cmd] = "idle"]
    BY <1>1 DEF AskFor, Goto, SendFails, Leave
  <1>3. CASE SendLine(kind) /\ pc' = [pc EXCEPT ![Cmd] = kind]
    <2>1. kind \in Kinds
      BY KindsAre
    <2>2. QED
      BY <1>1, <1>2, <1>3, <2>1, SendStep
  <1>4. CASE requests' = requests /\ pc' = [pc EXCEPT ![Cmd] = "idle"]
    <2>1. "idle" \in CmdPlaces /\ "idle" \notin Kinds /\ pc[Cmd] \notin Kinds
          /\ "idle" \notin Before /\ pc[Cmd] \notin Settled
      BY <1>1, KindsAre DEF CmdPlaces, Before, Settled
    <2>2. QED
      BY <1>1, <1>2, <1>4, <2>1, QuietStep
  <1>5. QED
    BY <1>2, <1>3, <1>4

\* The steps of the command thread that only print, lock, or read the user.
LEMMA QuietPairs ==
    ASSUME IInv, Types, Paired,
           Report \/ Shout \/ LockConsole \/ NamePath \/ Connect \/ StartTyping
    PROVE  Paired'
  <1>1. Rest /\ UNCHANGED <<control, typed, requests, data, overlapped>>
    BY DEF Report, Shout, LockConsole, NamePath, Connect, StartTyping
  <1>2. PICK place \in CmdPlaces :
            /\ pc' = [pc EXCEPT ![Cmd] = place]
            /\ \/ pc[Cmd] \in {"report", "shout"} /\ place = "idle"
               \/ pc[Cmd] = "lock" /\ place \in {"ask_pasv", "path"}
               \/ pc[Cmd] = "path" /\ place \in {"ask", "ask_pasv", "idle"}
               \/ pc[Cmd] = "connect" /\ place \in {"ask_start", "idle"}
               \/ pc[Cmd] = "idle" /\ place = "typing"
    BY DEF Report, Shout, LockConsole, NamePath, Connect, StartTyping, Goto, Leave,
           CmdPlaces, CmdHolds
  <1>3. /\ pc[Cmd] \notin Kinds \cup {"exited", "bye"}
        /\ place \notin Kinds \cup {"exited", "connect"}
        /\ pc[Cmd] \in Settled => place \in Settled
        /\ place = "ask_start" => pc[Cmd] = "connect"
        /\ place \in Before => pc[Cmd] \in Before
    BY <1>2, KindsAre DEF Settled, Before
  <1>4. QED
    BY <1>1, <1>2, <1>3, QuietStep

LEMMA TypePairs == ASSUME IInv, Types, Paired, NEW verb \in Verbs, Type(verb) PROVE Paired'
  <1>1. CASE verb \in Asks
    BY <1>1, TypeAsks
  <1>2. CASE verb \notin Asks
    <2>1. /\ pc[Cmd] = "typing" /\ Rest
          /\ UNCHANGED <<control, typed, requests, data, overlapped>>
          /\ pc' = [pc EXCEPT ![Cmd] = PlaceOf(verb)]
      BY <1>2 DEF Type, Goto, Types
    <2>2. PlaceOf(verb) \in {"report", "shout", "idle"}
      BY <1>2, FtpClientAssumption DEF PlaceOf, AllVerbs, Asks, Transfers
    <2> DEFINE place == PlaceOf(verb)
    <2>3. /\ place \in CmdPlaces /\ pc[Cmd] \notin Kinds
          /\ place \notin Kinds \cup {"exited", "connect"}
          /\ place \in Settled /\ place \notin Before
      BY <2>1, <2>2, KindsAre DEF CmdPlaces, Settled, Before
    <2> HIDE DEF place
    <2>4. pc' = [pc EXCEPT ![Cmd] = place]
      BY <2>1 DEF place
    <2>5. place # "ask_start"
      BY <2>2 DEF place
    <2>6. QED
      BY <2>1, <2>3, <2>4, <2>5, QuietStep
  <1>3. QED
    BY <1>1, <1>2

-----------------------------------------------------------------------------
(***************************************************************************)
(* Steps of a data thread.                                                 *)
(***************************************************************************)
LEMMA ThreadMoves ==
    ASSUME IInv, NEW n \in DataThreads, NEW place, pc' = [pc EXCEPT ![n] = place],
           typed' = typed
    PROVE  /\ pc'[n] = place /\ pc'[Cmd] = pc[Cmd]
           /\ \A m \in DataThreads : m # n => pc'[m] = pc[m]
           /\ Now' = Now /\ Verb' = Verb /\ End' = End /\ Asked' = Asked
  <1>1. pc'[n] = place /\ pc'[Cmd] = pc[Cmd] /\ \A m \in DataThreads : m # n => pc'[m] = pc[m]
    BY ThreadFacts DEF IInv, Places
  <1>2. QED
    BY <1>1 DEF Now, Verb, End, Asked

\* A data thread goes on to another place, and perhaps closes its connection.
LEMMA DataQuiet ==
    ASSUME IInv, Types, Paired, NEW n \in DataThreads, Busy(n), DataStep(n),
           NEW place \in DataPlaces, place \notin {"none", "done"},
           pc' = [pc EXCEPT ![n] = place],
           \/ data' = data
           \/ data' = [data EXCEPT ![n] = "closed"] /\ data[n] # "over" /\ place = "lock_end",
           place \in {"begin", "sending", "progress"} =>
               pc[n] \in {"begin", "sending", "progress"},
           place = "failed" => data[n] = "over" /\ pc[n] = "sending"
    PROVE  Paired'
  <1>1. Rest /\ UNCHANGED <<control, typed, requests, overlapped>> /\ Alive
    BY DEF DataStep
  <1>2. /\ pc'[n] = place /\ pc'[Cmd] = pc[Cmd]
        /\ \A m \in DataThreads : m # n => pc'[m] = pc[m]
        /\ Now' = Now /\ Verb' = Verb /\ End' = End /\ Asked' = Asked
    BY <1>1, ThreadMoves
  <1>3. /\ InFlight' = InFlight /\ Dialogue' = Dialogue
        /\ broken' = broken /\ splits' = splits /\ crossed' = crossed /\ taken' = taken
    BY <1>1, RestKeeps
  <1>4. \A m \in DataThreads : (Busy(m) <=> pc'[m] \notin {"none", "done"})
    BY <1>2 DEF Busy
  <1>5. ~NobodyBusy /\ ~NobodyBusy'
    BY <1>2 DEF NobodyBusy, Busy
  <1>6. Clean' => Clean
    BY <1>1, <1>2, <1>3 DEF Clean, Alive
  <1>7. ~overlapped => n = Now /\ pc[Cmd] \in Settled
    BY DEF Paired, OneTransfer
  <1>8. OneTransfer'
    BY <1>1, <1>2, <1>4 DEF Paired, OneTransfer, Busy
  <1>9. ProperCodes' /\ CrossedOnlyBeside' /\ SessionKept'
    BY <1>1, <1>2, <1>3 DEF Paired, ProperCodes, CrossedOnlyBeside, SessionKept, Regular, Alive
  <1>10. ControlKept'
    BY <1>1, <1>2, <1>5, <1>6 DEF Paired, ControlKept
  <1>11. /\ \A m \in DataThreads : m # n => data'[m] = data[m]
         /\ data'[n] = data[n] \/ (data'[n] = "closed" /\ data[n] # "over" /\ place = "lock_end")
    BY DEF Types
  <1>12. DataState'
    <2>1. ASSUME Clean', NEW m \in DataThreads, m # n
          PROVE  DataOf(m)'
      <3>1. DataOf(m)
        BY <1>6, <2>1 DEF Paired, DataState
      <3>2. QED
        BY <1>1, <1>2, <1>3, <1>11, <2>1, <3>1 DEF DataOf, Busy
    <2>2. ASSUME Clean'
          PROVE  DataOf(n)'
      <3>1. DataOf(n) /\ n = Now
        BY <1>6, <1>7, <2>2 DEF Paired, DataState, Clean
      <3>2. ~ (n > Now)
        BY <3>1, NumberOf
      <3>3. data[n] # "none" /\ data'[n] # "none"
        BY <1>11, <3>1 DEF DataOf
      <3>4. QED
        BY <1>1, <1>2, <1>3, <1>11, <3>1, <3>2, <3>3 DEF DataOf, Busy
    <2>3. pc[Cmd] \in Settled => pc[Cmd] \notin Before
      BY DEF Settled, Before
    <2>4. QED
      BY <1>2, <1>6, <1>7, <2>1, <2>2, <2>3 DEF DataState, Clean
  <1>13. OnStart' /\ OnAsk'
    BY <1>2, <1>6, <1>7, KindsAre DEF OnStart, OnAsk, Settled, Clean
  <1>14. OnTransfer'
    <2>1. Clean' => (data'[Now] = "over" <=> data[Now] = "over")
      BY <1>6, <1>7, <1>11 DEF Clean
    <2>2. QED
      BY <1>2, <1>3, <1>5, <1>6, <2>1 DEF Paired, OnTransfer
  <1>15. OnPrompt'
    BY <1>5 DEF OnPrompt
  <1>16. QED
    BY <1>8, <1>9, <1>10, <1>12, <1>13, <1>14, <1>15 DEF Paired

\* A data thread ends.  It took its last reply, or left it after a failure.
LEMMA DataEnds ==
    ASSUME IInv, Types, Paired, NEW n \in DataThreads, Busy(n), Alive,
           pc' = [pc EXCEPT ![n] = "done"],
           UNCHANGED <<control, typed, requests, data, overlapped, broken, splits>>,
           ProperCodes', CrossedOnlyBeside',
           \A i \in DOMAIN taken : i \in DOMAIN taken' /\ taken'[i] = taken[i],
           Clean => \/ Dialogue' = <<>>
                    \/ broken /\ Dialogue' = <<End>>,
           Clean => data[n] = "over"
    PROVE  Paired'
  <1>1. /\ pc'[n] = "done" /\ pc'[Cmd] = pc[Cmd]
        /\ \A m \in DataThreads : m # n => pc'[m] = pc[m]
        /\ Now' = Now /\ Verb' = Verb /\ End' = End /\ Asked' = Asked
    BY ThreadMoves
  <1>2. Clean' => Clean
    BY <1>1 DEF Clean, Alive
  <1>3. ~overlapped => n = Now /\ pc[Cmd] \in Settled /\ NobodyBusy'
    <2>1. ~overlapped => \A m \in DataThreads : m # n => ~Busy(m)
      BY DEF Paired, OneTransfer
    <2>2. QED
      BY <1>1, <2>1 DEF Paired, OneTransfer, NobodyBusy, Busy
  <1>4. OneTransfer'
    BY <1>3 DEF OneTransfer, NobodyBusy
  <1>5. SessionKept'
    BY <1>1 DEF Paired, SessionKept, Regular, Alive
  <1>6. ControlKept'
    BY <1>1, <1>2, <1>3, KindsAre DEF Paired, ControlKept, Clean, Settled
  <1>7. DataState'
    <2>1. ASSUME Clean', NEW m \in DataThreads, m # n
          PROVE  DataOf(m)'
      <3>1. DataOf(m)
        BY <1>2, <2>1 DEF Paired, DataState
      <3>2. QED
        BY <1>1, <2>1, <3>1 DEF DataOf, Busy
    <2>2. ASSUME Clean'
          PROVE  DataOf(n)'
      <3>1. n = Now /\ data[n] = "over"
        BY <1>2, <1>3, <2>2 DEF Clean
      <3>2. ~ (n > Now)
        BY <3>1, NumberOf
      <3>3. QED
        BY <1>1, <3>1, <3>2 DEF DataOf, Busy
    <2>3. pc[Cmd] \in Settled => pc[Cmd] \notin Before
      BY DEF Settled, Before
    <2>4. QED
      BY <1>1, <1>2, <1>3, <2>1, <2>2, <2>3 DEF DataState, Clean
  <1>8. OnStart' /\ OnAsk' /\ OnTransfer'
    BY <1>1, <1>2, <1>3, KindsAre DEF OnStart, OnAsk, OnTransfer, Settled, Clean
  <1>9. OnPrompt'
    <2>1. End \in Topic /\ IsLate(End)
      BY NumberOf DEF End, IsLate
    <2>2. pc[Cmd] \in Settled => pc[Cmd] \in LatePlaces
      BY DEF Settled, LatePlaces, CmdPlaces, CmdHolds
    <2>3. QED
      BY <1>1, <1>2, <1>3, <2>1, <2>2 DEF OnPrompt, Clean
  <1>10. QED
    BY <1>4, <1>5, <1>6, <1>7, <1>8, <1>9 DEF Paired

LEMMA EndedPairs ==
    ASSUME IInv, Types, Paired, NEW n \in DataThreads, Ended(n)
    PROVE  Paired'
  <1>1. /\ pc[n] = "end" /\ Take(n) /\ pc' = [pc EXCEPT ![n] = "done"]
        /\ UNCHANGED <<control, requests, data>> /\ n \in Threads /\ n # Cmd
    BY ThreadFacts DEF Ended, Goto
  <1>2. /\ UNCHANGED <<typed, overlapped, broken, splits>> /\ Alive
        /\ crossed' = (crossed \/ ~IsFor(Line, n))
        /\ \A i \in DOMAIN taken : i \in DOMAIN taken' /\ taken'[i] = taken[i]
        /\ Dialogue # <<>> /\ Head(Dialogue) = About(Line)
        /\ InFlight' \subseteq InFlight /\ Dialogue' = Tail(Dialogue)
    BY <1>1, TakeKeeps, TakeMoves
  <1>3. Busy(n) /\ ~NobodyBusy
    BY <1>1 DEF Busy, NobodyBusy
  <1>4. ~overlapped => n = Now
    BY <1>3 DEF Paired, OneTransfer
  <1>5. Clean => data[n] = "over" /\ Dialogue = <<End>>
    BY <1>2, <1>3, <1>4 DEF Paired, OnTransfer, Clean
  <1>6. Clean => Dialogue' = <<>> /\ About(Line) = End
    <2>1. \A a : Head(<<a>>) = a /\ Tail(<<a>>) = <<>>
      OBVIOUS
    <2>2. QED
      BY <1>2, <1>5, <2>1, Zenon
  <1>7. ProperCodes'
    BY <1>2 DEF Paired, ProperCodes
  <1>8. CrossedOnlyBeside'
    <2>1. Regular /\ ~crossed => IsFor(Line, n)
      <3>1. Regular => Clean
        BY <1>2 DEF Regular, Clean
      <3>2. Clean => Line.kind = "end" /\ Line.n = n
        BY <1>4, <1>6 DEF About, End, Clean
      <3>3. QED
        BY <1>1, <3>1, <3>2 DEF IsFor
    <2>2. QED
      BY <1>2, <2>1 DEF Paired, CrossedOnlyBeside, Regular
  <1>9. QED
    BY <1>1, <1>2, <1>3, <1>5, <1>6, <1>7, <1>8, DataEnds

LEMMA DataPairs ==
    ASSUME IInv, Types, Paired, NEW n \in DataThreads, DataWorks(n)
    PROVE  Paired'
  <1>1. CASE Ended(n)
    BY <1>1, EndedPairs
  <1>2. CASE Announce(n) /\ pc[n] = "failed"
    <2>1. /\ Rest /\ UNCHANGED <<control, typed, requests, data, overlapped>> /\ Alive
          /\ pc' = [pc EXCEPT ![n] = "done"]
      BY <1>2 DEF Announce, DataStep, Goto
    <2>2. /\ InFlight' = InFlight /\ Dialogue' = Dialogue
          /\ broken' = broken /\ splits' = splits /\ crossed' = crossed /\ taken' = taken
      BY <2>1, RestKeeps
    <2>3. Busy(n) /\ ~NobodyBusy
      BY <1>2 DEF Busy, NobodyBusy
    <2>4. Clean => n = Now /\ data[n] = "over" /\ broken /\ Dialogue = <<End>>
      <3>1. Clean => n = Now
        BY <2>3 DEF Paired, OneTransfer, Clean
      <3>2. Clean => data[n] = "over" /\ broken
        BY <1>2 DEF Paired, DataState, DataOf
      <3>3. QED
        BY <2>3, <3>1, <3>2 DEF Paired, OnTransfer
    <2>5. ProperCodes' /\ CrossedOnlyBeside'
      BY <2>1, <2>2 DEF Paired, ProperCodes, CrossedOnlyBeside, Regular
    <2>6. QED
      BY <2>1, <2>2, <2>3, <2>4, <2>5, DataEnds
  <1>3. CASE SendPiece(n)
    <2>1. PICK place \in {"progress", "failed"} :
              /\ pc' = [pc EXCEPT ![n] = place] /\ data' = data
              /\ place = "failed" => data[n] = "over"
      BY <1>3 DEF SendPiece, Goto
    <2>2. place \in DataPlaces
      BY DEF DataPlaces
    <2>3. pc[n] = "sending" /\ DataStep(n) /\ Busy(n)
      BY <1>3 DEF SendPiece, Busy
    <2>4. QED
      BY <2>1, <2>2, <2>3, DataQuiet
  <1>4. CASE SaveAll(n) \/ SendEnds(n)
    <2>1. /\ DataStep(n) /\ pc[n] \in {"saving", "sending"}
          /\ pc' = [pc EXCEPT ![n] = "lock_end"]
      BY <1>4 DEF SaveAll, SendEnds, Goto
    <2>2. data' = data \/ (data' = [data EXCEPT ![n] = "closed"] /\ data[n] # "over")
      <3>1. \/ data' = data
            \/ data' = [data EXCEPT ![n] = IF data[n] = "over" THEN data[n] ELSE "closed"]
        BY <1>4 DEF SaveAll, SendEnds
      <3>2. CASE data[n] = "over"
        BY <3>1, <3>2 DEF Types
      <3>3. CASE data[n] # "over"
        BY <3>1, <3>3
      <3>4. QED
        BY <3>2, <3>3
    <2>3. "lock_end" \in DataPlaces /\ Busy(n)
      BY <2>1 DEF DataPlaces, Busy
    <2>4. QED
      BY <2>1, <2>2, <2>3, DataQuiet
  <1>5. CASE LockToPrint(n) \/ PrintAll(n) \/ LockToEnd(n) \/ (Announce(n) /\ pc[n] # "failed")
    <2>1. PICK place \in {"printing", "end", "sending"} :
              /\ pc' = [pc EXCEPT ![n] = place] /\ data' = data
              /\ place = "sending" => pc[n] \in {"begin", "progress"}
      BY <1>5 DEF LockToPrint, PrintAll, LockToEnd, Announce, Goto
    <2>2. DataStep(n) /\ Busy(n)
      BY <1>5 DEF LockToPrint, PrintAll, LockToEnd, Announce, Busy
    <2>3. place \in DataPlaces
      BY DEF DataPlaces, DataHolds
    <2>4. QED
      BY <2>1, <2>2, <2>3, DataQuiet
  <1>6. QED
    BY <1>1, <1>2, <1>3, <1>4, <1>5 DEF DataWorks

-----------------------------------------------------------------------------
(***************************************************************************)
(* Steps of the reader and of the server.                                  *)
(***************************************************************************)
LEMMA NothingMoves ==
    ASSUME Paired,
           UNCHANGED <<pc, control, typed, data, overlapped, broken, splits, crossed,
                       requests, taken>>,
           Dialogue' = Dialogue, InFlight' \subseteq InFlight
    PROVE  Paired'
  <1>1. /\ NobodyBusy' = NobodyBusy /\ Clean' = Clean
        /\ Now' = Now /\ Verb' = Verb /\ End' = End /\ Asked' = Asked
    BY DEF NobodyBusy, Busy, Clean, Alive, Now, Verb, End, Asked
  <1>2. OneTransfer' /\ ProperCodes' /\ ControlKept'
    BY <1>1 DEF Paired, OneTransfer, Busy, ProperCodes, ControlKept
  <1>3. DataState'
    <2>1. \A n \in DataThreads : DataOf(n)' = DataOf(n)
      BY <1>1 DEF DataOf, Busy
    <2>2. QED
      BY <1>1, <2>1 DEF Paired, DataState
  <1>4. OnStart'
    BY <1>1 DEF Paired, OnStart
  <1>5. OnTransfer' /\ OnPrompt' /\ OnAsk'
    BY <1>1 DEF Paired, OnTransfer, OnPrompt, OnAsk
  <1>6. CrossedOnlyBeside' /\ SessionKept'
    BY DEF Paired, CrossedOnlyBeside, SessionKept, Regular, Alive
  <1>7. QED
    BY <1>2, <1>3, <1>4, <1>5, <1>6 DEF Paired

\* A step after which the pairing is lost for good.
LEMMA PairingLost ==
    ASSUME Paired, UNCHANGED <<pc, typed, overlapped>>, ~Clean', ~Regular', ProperCodes'
    PROVE  Paired'
  <1>1. OneTransfer'
    BY DEF Paired, OneTransfer, Busy, Now
  <1>2. QED
    BY <1>1 DEF Paired, ControlKept, DataState, OnStart, OnTransfer, OnPrompt, OnAsk,
       CrossedOnlyBeside, SessionKept

\* A reply becomes two lines.
LEMMA SplitPairs ==
    ASSUME Types, Paired, UNCHANGED <<pc, typed, overlapped>>, splits' = splits + 1
    PROVE  Paired'
  <1>1. splits' # 0
    BY FtpClientAssumption DEF Types
  <1>2. QED
    BY <1>1, PairingLost DEF Clean, Regular, ProperCodes

LEMMA ReaderPairs == ASSUME Types, Paired, ReaderWorks PROVE Paired'
  <1>1. CASE StopReceiving
    BY <1>1, NothingMoves DEF StopReceiving, network, queue, history, Dialogue, Topics, InFlight
  <1>2. ASSUME NEW k \in 1 .. MaxBatch, Receive(k)
        PROVE  Paired'
    <2>1. UNCHANGED <<pc, control, typed, data, overlapped, broken, splits, crossed,
                      requests, taken>>
      BY <1>2 DEF Receive, history, Q!Push
    <2>2. QED
      BY <1>2, <2>1, ReceiveMoves, NothingMoves
  <1>3. ASSUME NEW k \in 1 .. MaxBatch, ReceivePart(k)
        PROVE  Paired'
    BY <1>3, SplitPairs DEF ReceivePart
  <1>4. QED
    BY <1>1, <1>2, <1>3 DEF ReaderWorks

LEMMA HangUpPairs == ASSUME Paired, HangUp PROVE Paired'
  <1>1. UNCHANGED <<pc, typed, overlapped, splits>> /\ InFlight' = InFlight
    BY DEF HangUp, ServerLeavesAlone, queue, InFlight
  <1>2. ~Clean' /\ ~Regular'
    BY DEF HangUp, Clean, Regular
  <1>3. ProperCodes'
    BY <1>1 DEF Paired, ProperCodes
  <1>4. QED
    BY <1>1, <1>2, <1>3, PairingLost

\* What is under way is known: a start only where one is asked for, and a
\* quit only there, or late.
LEMMA InDialogue ==
    ASSUME IInv, Types, Paired, Clean, NEW i \in 1 .. Len(Dialogue)
    PROVE  /\ Dialogue[i].kind = "start" => pc[Cmd] = "start"
           /\ Dialogue[i].kind = "quit" => broken \/ pc[Cmd] = "quit"
  <1> DEFINE topic == Dialogue[i]
  <1>1. /\ \A a : Dialogue = <<a>> => topic = a
        /\ \A a, b : Dialogue = <<a, b>> => topic = a \/ topic = b
        /\ Dialogue # <<>>
    OBVIOUS
  <1> HIDE DEF topic
  <1>2. CASE ~NobodyBusy
    <2>1. topic = End
      BY <1>1, <1>2 DEF Paired, OnTransfer
    <2>2. QED
      BY <2>1 DEF topic, End
  <1>3. CASE NobodyBusy /\ pc[Cmd] \notin Kinds
    <2>1. broken /\ IsLate(topic)
      BY <1>1, <1>3 DEF Paired, OnPrompt
    <2>2. QED
      BY <2>1 DEF topic, IsLate
  <1>4. CASE pc[Cmd] \in Kinds \ {"start"}
    <2>1. topic = Asked \/ (broken /\ IsLate(topic))
      BY <1>1, <1>4 DEF Paired, OnAsk
    <2>2. QED
      BY <1>4, <2>1 DEF topic, Asked, IsLate
  <1>5. CASE pc[Cmd] = "start"
    <2>1. topic = Asked \/ topic = End
      BY <1>1, <1>5 DEF Paired, OnStart
    <2>2. QED
      BY <1>5, <2>1 DEF topic, Asked, End
  <1>6. QED
    BY <1>2, <1>3, <1>4, <1>5

\* The server answers the line it has read.
LEMMA AnswerPairs ==
    ASSUME IInv, Types, Paired, NEW code, Answer(code)
    PROVE  Paired'
  <1> DEFINE q == Head(requests)
             line == [kind |-> q.kind, n |-> q.n, code |-> code]
  <1>1. /\ control = "open" /\ requests # <<>> /\ code \in Codes[q.kind]
        /\ stream' = Append(stream, line) /\ requests' = Tail(requests)
        /\ data' = IF q.kind = "start" /\ data[q.n] = "none"
                   THEN [data EXCEPT ![q.n] = IF code = 150 THEN "open" ELSE "over"]
                   ELSE data
        /\ control' = IF code = 221 THEN "lost" ELSE "open"
        /\ UNCHANGED <<pc, typed, msgQueue, taken, crossed, overlapped, broken, splits>>
    BY DEF Answer, Reply, ServerLeavesAlone, queue
  <1>2. q \in Topic /\ q.kind \in Kinds /\ q.n \in 0 .. MaxCommands
    <2>1. q \in Topic
      BY <1>1, DialogueTypes, HeadTailProperties
    <2>2. QED
      BY <2>1 DEF Topic
  <1>3. line \in Lines /\ About(line) = q /\ line.kind = q.kind /\ line.code = code
    BY <1>1, <1>2, LineFacts DEF About, Topic
  <1> HIDE DEF q, line
  <1>4. /\ Dialogue' = Dialogue /\ InFlight' = InFlight \cup {line}
        /\ \E i \in 1 .. Len(Dialogue) : Dialogue[i] = q
    BY <1>1, <1>3, AnswerMoves DEF q
  <1>5. /\ NobodyBusy' = NobodyBusy
        /\ Now' = Now /\ Verb' = Verb /\ End' = End /\ Asked' = Asked
    BY <1>1 DEF NobodyBusy, Busy, Now, Verb, End, Asked
  <1>6. Clean' => Clean
    BY <1>1 DEF Clean, Alive
  <1>7. Clean => /\ q.kind = "start" => pc[Cmd] = "start"
                 /\ q.kind = "quit" => broken \/ pc[Cmd] = "quit"
    BY <1>4, InDialogue
  <1>8. OneTransfer'
    BY <1>1, <1>5 DEF Paired, OneTransfer, Busy
  <1>9. ProperCodes'
    BY <1>1, <1>3, <1>4 DEF Paired, ProperCodes
  <1>10. CrossedOnlyBeside' /\ SessionKept'
    BY <1>1 DEF Paired, CrossedOnlyBeside, SessionKept, Regular
  <1>11. ControlKept'
    <2>1. code = 221 => q.kind = "quit"
      <3>1. \A k \in Kinds : k # "quit" => 221 \notin Codes[k]
        BY KindsAre DEF Codes
      <3>2. QED
        BY <1>1, <1>2, <3>1
    <2>2. Clean' /\ control' = "lost" => ~broken
      BY <1>1 DEF Clean
    <2>3. QED
      BY <1>1, <1>6, <1>7, <2>1, <2>2 DEF ControlKept
  <1>12. CASE Clean /\ pc[Cmd] = "start"
    <2>1. NobodyBusy
      BY <1>12 DEF Paired, OneTransfer, Clean, Settled, NobodyBusy
    <2>2. data[Now] = "none" /\ Dialogue = <<Asked>>
      BY <1>1, <1>12 DEF Paired, OnStart
    <2>3. q = Asked /\ q.kind = "start" /\ q.n = Now
      <3>1. q = Asked
        BY <1>4, <2>2
      <3>2. QED
        BY <1>12, <3>1 DEF Asked
    <2>4. msgQueue = <<>> /\ stream = <<>> /\ Len(requests) = 1
      <3>1. Len(Dialogue) = 1
        BY <2>2
      <3>2. Len(requests) # 0
        BY <1>1, DialogueTypes, EmptySeq
      <3>3. Len(msgQueue) = 0 /\ Len(stream) = 0 /\ Len(requests) = 1
        BY <3>1, <3>2, DialogueTypes
      <3>4. QED
        BY <3>3, DialogueTypes, EmptySeq
    <2>5. requests' = <<>> /\ InFlight' = {line}
      <3>1. requests' = <<>>
        BY <1>1, <2>4, DialogueTypes, HeadTailProperties, EmptySeq
      <3>2. InFlight = {}
        BY <2>4 DEF InFlight
      <3>3. QED
        BY <1>4, <3>1, <3>2
    <2>6. Now \in DataThreads
      BY <1>12, NumberOf DEF IInv, CommandPath, MovesData
    <2>7. /\ data'[Now] = IF code = 150 THEN "open" ELSE "over"
          /\ \A n \in DataThreads : n # Now => data'[n] = data[n]
      BY <1>1, <2>2, <2>3, <2>6 DEF Types
    <2>8. OnStart'
      BY <1>3, <1>4, <1>5, <2>2, <2>5, <2>7 DEF OnStart
    <2>9. DataState'
      <3>1. ASSUME NEW n \in DataThreads
            PROVE  DataOf(n)'
        <4>1. DataOf(n) /\ ~Busy(n)
          BY <1>12, <2>1 DEF Paired, DataState, NobodyBusy
        <4>2. ~ (Now > Now)
          BY NumberOf
        <4>3. pc'[n] \in {"none", "done"}
          BY <1>1, <4>1 DEF Busy
        <4>4. CASE n = Now
          BY <1>1, <1>5, <1>12, <2>7, <4>2, <4>3, <4>4 DEF DataOf, Busy
        <4>5. CASE n # Now
          BY <1>1, <1>5, <2>7, <4>1, <4>3, <4>5 DEF DataOf, Busy
        <4>6. QED
          BY <4>4, <4>5
      <3>2. QED
        BY <1>1, <1>12, <3>1 DEF DataState, Before
    <2>10. OnTransfer' /\ OnPrompt' /\ OnAsk'
      BY <1>1, <1>5, <1>12, <2>1, KindsAre DEF OnTransfer, OnPrompt, OnAsk
    <2>11. QED
      BY <1>8, <1>9, <1>10, <1>11, <2>8, <2>9, <2>10 DEF Paired
  <1>13. CASE Clean /\ pc[Cmd] # "start"
    <2>1. data' = data
      BY <1>1, <1>7, <1>13
    <2>2. \A n \in DataThreads : DataOf(n) => DataOf(n)'
      BY <1>1, <1>5, <2>1 DEF DataOf, Busy
    <2>3. DataState' /\ OnStart'
      BY <1>1, <1>5, <1>13, <2>1, <2>2 DEF Paired, DataState, OnStart
    <2>4. OnTransfer' /\ OnPrompt' /\ OnAsk'
      BY <1>1, <1>4, <1>5, <1>13, <2>1 DEF Paired, OnTransfer, OnPrompt, OnAsk
    <2>5. QED
      BY <1>8, <1>9, <1>10, <1>11, <2>3, <2>4 DEF Paired
  <1>14. CASE ~Clean
    BY <1>6, <1>8, <1>9, <1>10, <1>11, <1>14
       DEF Paired, DataState, OnStart, OnTransfer, OnPrompt, OnAsk
  <1>15. QED
    BY <1>12, <1>13, <1>14

\* The last reply of a transfer, sent once its data are through or when the
\* server has given up.
LEMMA EndPairs ==
    ASSUME IInv, Types, Paired, ServerLeavesAlone, NEW n \in DataThreads,
           NEW code \in Codes["end"],
           data[n] \in {"open", "closed"},
           typed[n] = "stor" => data[n] = "closed" \/ broken',
           data' = [data EXCEPT ![n] = "over"],
           control = "open" =>
               stream' = Append(stream, [kind |-> "end", n |-> n, code |-> code]),
           control # "open" => stream' = stream,
           UNCHANGED <<control, requests, splits>>,
           broken' = broken \/ (broken' = TRUE /\ control = "open")
    PROVE  Paired'
  <1> DEFINE line == [kind |-> "end", n |-> n, code |-> code]
  <1>1. /\ UNCHANGED <<pc, typed, msgQueue, taken, crossed, overlapped>>
        /\ data'[n] = "over" /\ \A m \in DataThreads : m # n => data'[m] = data[m]
    BY DEF ServerLeavesAlone, queue, Types
  <1>2. line \in Lines /\ line.kind = "end" /\ line.code = code /\ line.n = n
    BY LineFacts, KindsAre, ThreadFacts DEF DataThreads
  <1>3. control = "open" => stream' = Append(stream, line)
    OBVIOUS
  <1> HIDE DEF line
  <1>4. /\ NobodyBusy' = NobodyBusy
        /\ Now' = Now /\ Verb' = Verb /\ End' = End /\ Asked' = Asked
    BY <1>1 DEF NobodyBusy, Busy, Now, Verb, End, Asked
  <1>5. Clean' => Clean
    BY <1>1 DEF Clean, Alive
  <1>6. broken => broken'
    OBVIOUS
  <1>7. Clean => \/ Busy(n) /\ n = Now /\ pc[Cmd] \in Settled
                 \/ n = Now /\ pc[Cmd] = "start" /\ data[n] = "open" /\ NobodyBusy
    <2>1. Clean => Busy(n) \/ (n = Now /\ pc[Cmd] = "start" /\ data[n] = "open")
      BY DEF Paired, DataState, DataOf
    <2>2. Clean /\ pc[Cmd] = "start" => NobodyBusy
      BY DEF Paired, OneTransfer, Clean, Settled, NobodyBusy
    <2>3. Clean /\ Busy(n) => n = Now /\ pc[Cmd] \in Settled
      BY DEF Paired, OneTransfer, Clean
    <2>4. QED
      BY <2>1, <2>2, <2>3
  <1>8. Clean => control = "open"
    <2>1. Busy(n) => ~NobodyBusy
      BY DEF NobodyBusy
    <2>2. "start" \in Kinds /\ {"quit", "bye"} \cap (Settled \cup {"start"}) = {}
      BY KindsAre DEF Settled
    <2>3. QED
      BY <1>7, <2>1, <2>2 DEF Paired, ControlKept, Types
  <1>9. OneTransfer'
    BY <1>1, <1>4 DEF Paired, OneTransfer, Busy
  <1>10. ProperCodes'
    <2>1. InFlight' \subseteq InFlight \cup {line}
      <3>1. CASE control = "open"
        BY <1>1, <1>2, <1>3, <3>1, StreamGrows
      <3>2. CASE control # "open"
        BY <1>1, <3>2 DEF InFlight
      <3>3. QED
        BY <3>1, <3>2
    <2>2. QED
      BY <1>2, <2>1 DEF Paired, ProperCodes
  <1>11. CrossedOnlyBeside' /\ SessionKept'
    BY <1>1, <1>6 DEF Paired, CrossedOnlyBeside, SessionKept, Regular, Alive
  <1>12. ControlKept'
    BY <1>5, <1>8 DEF ControlKept
  <1>13. DataState'
    <2>1. ASSUME Clean', NEW m \in DataThreads, m # n
          PROVE  DataOf(m)'
      <3>1. DataOf(m)
        BY <1>5, <2>1 DEF Paired, DataState
      <3>2. QED
        BY <1>1, <1>4, <1>6, <2>1, <3>1 DEF DataOf, Busy
    <2>2. ASSUME Clean'
          PROVE  DataOf(n)'
      <3>1. DataOf(n) /\ n = Now
        BY <1>5, <1>7, <2>2 DEF Paired, DataState
      <3>2. ~ (n > Now)
        BY <3>1, NumberOf
      <3>3. QED
        BY <1>1, <1>4, <3>1, <3>2 DEF DataOf, Busy
    <2>3. Before \cap (Settled \cup {"start"}) = {}
      BY DEF Settled, Before
    <2>4. QED
      BY <1>1, <1>5, <1>7, <2>1, <2>2, <2>3 DEF DataState
  <1>14. ASSUME Clean, Clean', Busy(n)
         PROVE  OnStart' /\ OnTransfer' /\ OnPrompt' /\ OnAsk'
    <2>1. n = Now /\ pc[Cmd] \in Settled /\ ~NobodyBusy
      BY <1>7, <1>14 DEF NobodyBusy, Paired, OneTransfer, Clean
    <2>2. Dialogue = <<>>
      BY <1>14, <2>1 DEF Paired, OnTransfer
    <2>3. requests = <<>>
      BY <2>2, DialogueTypes, EmptySeq
    <2>4. Dialogue' = <<About(line)>>
      BY <1>1, <1>2, <1>3, <1>8, <1>14, <2>2, <2>3, EndMoves
    <2>5. About(line) = End
      BY <1>2, <2>1 DEF About, End
    <2>6. OnTransfer'
      BY <1>1, <1>4, <2>1, <2>4, <2>5 DEF OnTransfer
    <2>7. QED
      BY <1>1, <1>4, <2>1, <2>6, KindsAre DEF OnStart, OnPrompt, OnAsk, Settled
  <1>15. ASSUME Clean, Clean', ~Busy(n)
         PROVE  OnStart' /\ OnTransfer' /\ OnPrompt' /\ OnAsk'
    <2>1. n = Now /\ pc[Cmd] = "start" /\ data[n] = "open" /\ NobodyBusy
      BY <1>7, <1>15
    <2>2. /\ requests = <<>> /\ Dialogue = <<Asked>>
          /\ \A l \in InFlight : l.code = 150
      BY <1>15, <2>1 DEF Paired, OnStart
    <2>3. Dialogue' = <<Asked, About(line)>> /\ InFlight' = InFlight \cup {line}
      BY <1>1, <1>2, <1>3, <1>8, <1>15, <2>2, EndMoves
    <2>4. About(line) = End
      BY <1>2, <2>1 DEF About, End
    <2>5. Verb = "stor" => broken'
      BY <2>1 DEF Verb
    <2>6. \A l \in InFlight' : l.kind = "start" => l.code = 150
      BY <1>2, <2>2, <2>3
    <2>7. OnStart'
      BY <1>1, <1>4, <2>1, <2>2, <2>3, <2>4, <2>5, <2>6 DEF OnStart
    <2>8. QED
      BY <1>1, <1>4, <2>1, <2>7, KindsAre DEF OnTransfer, OnPrompt, OnAsk
  <1>16. OnStart' /\ OnTransfer' /\ OnPrompt' /\ OnAsk'
    <2>1. CASE Clean'
      BY <1>5, <1>14, <1>15, <2>1
    <2>2. CASE ~Clean'
      BY <2>2 DEF OnStart, OnTransfer, OnPrompt, OnAsk
    <2>3. QED
      BY <2>1, <2>2
  <1>17. QED
    BY <1>9, <1>10, <1>11, <1>12, <1>13, <1>16 DEF Paired

LEMMA ServerPairs ==
    ASSUME IInv, Types, Paired,
           ServerWorks \/ AnswerOn \/ HangUp \/ \E n \in DataThreads : BreakUpload(n)
    PROVE  Paired'
  <1>1. ASSUME NEW n \in DataThreads, NEW code \in Codes["end"], Finish(n, code)
        PROVE  Paired'
    <2>1. /\ ServerLeavesAlone /\ data[n] \in {"open", "closed"}
          /\ typed[n] = "stor" => data[n] = "closed"
          /\ data' = [data EXCEPT ![n] = "over"]
          /\ UNCHANGED <<control, requests, broken, splits>>
      BY <1>1 DEF Finish
    <2>2. /\ control = "open" =>
                 stream' = Append(stream, [kind |-> "end", n |-> n, code |-> code])
          /\ control # "open" => stream' = stream
      BY <1>1 DEF Finish, Reply
    <2>3. QED
      BY <2>1, <2>2, EndPairs
  <1>2. ASSUME NEW n \in DataThreads, BreakUpload(n)
        PROVE  Paired'
    <2>1. /\ ServerLeavesAlone /\ data[n] = "open" /\ control = "open"
          /\ data' = [data EXCEPT ![n] = "over"] /\ broken' = TRUE
          /\ stream' = Append(stream, [kind |-> "end", n |-> n, code |-> 426])
          /\ UNCHANGED <<control, requests, splits>>
      BY <1>2 DEF BreakUpload, Reply
    <2>2. 426 \in Codes["end"]
      BY DEF Codes
    <2>3. QED
      BY <2>1, <2>2, EndPairs
  <1>3. CASE AnswerOn
    <2>1. UNCHANGED <<pc, typed, overlapped>> /\ splits' = splits + 1
      BY <1>3 DEF AnswerOn, ServerLeavesAlone
    <2>2. QED
      BY <2>1, SplitPairs
  <1>4. QED
    BY <1>1, <1>2, <1>3, AnswerPairs, HangUpPairs DEF ServerWorks

-----------------------------------------------------------------------------
LEMMA InitPairs == Init => Paired
  <1> SUFFICES ASSUME Init PROVE Paired
    OBVIOUS
  <1>1. PICK c \in Codes["greet"] : stream = <<[kind |-> "greet", n |-> 0, code |-> c]>>
    BY DEF Init
  <1> DEFINE line == [kind |-> "greet", n |-> 0, code |-> c]
  <1>2. line \in Lines /\ line.kind = "greet" /\ line.n = 0 /\ line.code = c
    BY LineFacts, KindsAre, ThreadFacts
  <1>3. stream = <<line>>
    BY <1>1
  <1> HIDE DEF line
  <1>4. /\ pc[Cmd] = "greet" /\ \A n \in DataThreads : pc[n] = "none"
        /\ typed = <<>> /\ requests = <<>> /\ msgQueue = <<>> /\ control = "open"
        /\ data = [n \in DataThreads |-> "none"]
        /\ ~crossed /\ ~overlapped /\ ~broken
    BY ThreadFacts DEF Init, Q!Init
  <1>5. Now = 0 /\ NobodyBusy
    BY <1>4, EmptySeq DEF Now, NobodyBusy, Busy
  <1>6. InFlight = {line}
    BY <1>3, <1>4 DEF InFlight
  <1>7. Dialogue = <<Asked>>
    <2>1. About(line) = Asked /\ <<Asked>> \in Seq({Asked})
      BY <1>2, <1>4, <1>5 DEF About, Asked
    <2>2. Topics(msgQueue) = <<>> /\ Topics(stream) = <<Asked>>
      BY <1>3, <1>4, <2>1 DEF Topics
    <2>3. QED
      BY <1>4, <2>1, <2>2, ConcatEmptySeq DEF Dialogue
  <1>8. OneTransfer /\ ProperCodes /\ CrossedOnlyBeside /\ SessionKept
    BY <1>2, <1>4, <1>5, <1>6
       DEF OneTransfer, NobodyBusy, ProperCodes, CrossedOnlyBeside, SessionKept
  <1>9. ControlKept /\ DataState
    BY <1>4, <1>5 DEF ControlKept, DataState, DataOf, NobodyBusy, Before
  <1>10. OnStart /\ OnTransfer /\ OnPrompt /\ OnAsk
    BY <1>4, <1>5, <1>7, KindsAre DEF OnStart, OnTransfer, OnPrompt, OnAsk
  <1>11. QED
    BY <1>8, <1>9, <1>10 DEF Paired

LEMMA StepPairs == ASSUME IInv, Types, Paired, [Next]_vars PROVE Paired'
  <1>1. CASE CmdWorks \/ StartTyping \/ \E verb \in Verbs : Type(verb)
    BY <1>1, LoginPairs, AnsweredPairs, PasvPairs, StartPairs, AskPairs, ByePairs, AskForPairs,
       QuietPairs, TypePairs DEF CmdWorks
  <1>2. CASE \E n \in DataThreads : DataWorks(n)
    BY <1>2, DataPairs
  <1>3. CASE (\E t \in Threads : Sleep(t)) \/ UNCHANGED vars
    <2>1. /\ UNCHANGED <<pc, control, typed, data, overlapped, broken, splits, crossed,
                         requests, taken>>
          /\ msgQueue' = msgQueue /\ stream' = stream
      BY <1>3 DEF Sleep, Q!Block, Q!SpuriousWake, network, history, vars
    <2>2. Dialogue' = Dialogue /\ InFlight' \subseteq InFlight
      BY <2>1 DEF Dialogue, Topics, InFlight
    <2>3. QED
      BY <2>1, <2>2, NothingMoves
  <1>4. CASE ReaderWorks
    BY <1>4, ReaderPairs
  <1>5. CASE ServerWorks \/ AnswerOn \/ HangUp \/ \E n \in DataThreads : BreakUpload(n)
    BY <1>5, ServerPairs
  <1>6. QED
    BY <1>1, <1>2, <1>3, <1>4, <1>5 DEF Next

\* The pairing holds in every behaviour of the client.
THEOREM PairedInvariance == Spec => [](IInv /\ Types /\ Paired)
  <1>1. Init => IInv /\ Types /\ Paired
    BY InitInv, InitTypes, InitPairs
  <1>2. IInv /\ Types /\ Paired /\ [Next]_vars => IInv' /\ Types' /\ Paired'
    BY StepInv, StepTypes, StepPairs
  <1>3. QED
    BY <1>1, <1>2, PTL DEF Spec

\* GetReplyFromQueue hands the front of the queue to whoever calls it.  A
\* thread is given the reply of another only if a command was typed while a
\* data thread ran, if the server broke something off, or if a reply became
\* two lines: however many commands there are and however the recvs cut the
\* stream, nothing else mixes the replies up.
THEOREM CrossedOnly == Spec => []CrossedOnlyBeside
  <1>1. Paired => CrossedOnlyBeside
    BY DEF Paired
  <1>2. QED
    BY <1>1, PairedInvariance, PTL

\* Without such an event Data_Connect closes SocketControl only for the 425
\* that the server sent: no reply of another command is read as a refusal.
THEOREM Kept == Spec => []SessionKept
  <1>1. Paired => SessionKept
    BY DEF Paired
  <1>2. QED
    BY <1>1, PairedInvariance, PTL

\* Nothing is on its way when a user who waits for each transfer is back at
\* the prompt; after a broken upload one line may be, and never a second.
THEOREM Prompt == Spec => []PromptIsClean
  <1>1. IInv /\ Types /\ Paired => PromptIsClean
    <2> SUFFICES ASSUME IInv, Types, Paired, pc[Cmd] = "idle",
                        \A n \in DataThreads : ~Busy(n),
                        control = "open", ~overlapped, splits = 0
                 PROVE  Len(msgQueue) + Len(stream) + Len(requests) <= IF broken THEN 1 ELSE 0
      BY DEF PromptIsClean
    <2>1. Clean /\ NobodyBusy /\ pc[Cmd] \notin Kinds
      BY KindsAre DEF Clean, Alive, NobodyBusy
    <2>2. Dialogue = <<>> \/ (broken /\ \E late \in Topic : Dialogue = <<late>>)
      BY <2>1 DEF Paired, OnPrompt
    <2>3. Len(Dialogue) = 0 \/ (broken /\ Len(Dialogue) = 1)
      <3>1. \A late : Len(<<late>>) = 1
        OBVIOUS
      <3>2. QED
        BY <2>2, <3>1, EmptySeq
    <2>4. Len(msgQueue) + Len(stream) + Len(requests) = Len(Dialogue)
      BY DialogueTypes
    <2>5. CASE broken
      BY <2>3, <2>4, <2>5
    <2>6. CASE ~broken
      BY <2>3, <2>4, <2>6
    <2>7. QED
      BY <2>5, <2>6
  <1>2. QED
    BY <1>1, PairedInvariance, PTL
=============================================================================
