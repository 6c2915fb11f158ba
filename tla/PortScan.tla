------------------------------ MODULE PortScan ------------------------------
(***************************************************************************)
(* The port scanner with threads, port_scanning/2.cpp.  main gives each of *)
(* NUM_PROCESSES threads a range of ports through an array on its own      *)
(* stack and waits for all of them.  A thread opens a socket per port, and *)
(* ends the whole process when it gets none.                               *)
(*                                                                         *)
(* Abstractions.  What connect and select say about a port decides only    *)
(* what is printed; a turn of the loop is "socket opened", then "port      *)
(* tried and socket closed".  A frame that is gone may hold any numbers.   *)
(*                                                                         *)
(* An operator that stands before its namesake with a longer name (AllDone *)
(* and AllDoneAny) is a slip of that code which a run must notice.         *)
(***************************************************************************)
EXTENDS Naturals

CONSTANTS
    NUM_PROCESSES,  \* 16
    EACH_SCAN_NUM,  \* 64
    START_PORT,     \* 1: defined as the start of the scan, and never used
    END_PORT,       \* 1024: defined as its end, and never used
    Garbage         \* numbers that a dead frame may hold

PortScanAssumption ==
    /\ NUM_PROCESSES \in Nat \ {0}
    /\ EACH_SCAN_NUM \in Nat \ {0}
    /\ {START_PORT, END_PORT} \subseteq 0 .. NUM_PROCESSES * EACH_SCAN_NUM
    /\ Garbage \subseteq 0 .. NUM_PROCESSES * EACH_SCAN_NUM

Threads == 0 .. NUM_PROCESSES - 1

Ports == 0 .. NUM_PROCESSES * EACH_SCAN_NUM

VARIABLES
    main,       \* "creating", "returned", "cleaned", "ended"
    created,    \* the i of the loop: threads created so far
    thread,     \* of each: "none", "created", "scanning", "trying", "done"
    port, pend, \* of each: its locals
    scans,      \* history: how often each port was tried
    trouble     \* history: "create_failed", "no_socket", "stale_read"

vars == <<main, created, thread, port, pend, scans, trouble>>

\* scpin is a local of scan_ports_multithreaded, and gone when that returns.
FrameAlive == main = "creating"

\* After WSACleanup no socket can be had.
WinsockUp == main \in {"creating", "returned"}

-----------------------------------------------------------------------------
(***************************************************************************)
(* main                                                                    *)
(***************************************************************************)
\* The slip counts the threads from 1 on.
CreateThreadFromOne ==
    /\ main = "creating"
    /\ created < NUM_PROCESSES
    /\ thread' = [t \in Threads |-> IF t = created + 1 THEN "created"
                                   ELSE thread[t]]
    /\ created' = created + 1
    /\ UNCHANGED <<main, port, pend, scans, trouble>>

CreateThread ==
    /\ main = "creating"
    /\ created < NUM_PROCESSES
    /\ thread' = [thread EXCEPT ![created] = "created"]
    /\ created' = created + 1
    /\ UNCHANGED <<main, port, pend, scans, trouble>>

\* The function returns at once; the threads created so far run on.
CreateFails ==
    /\ main = "creating"
    /\ created < NUM_PROCESSES
    /\ main' = "returned"
    /\ trouble' = trouble \cup {"create_failed"}
    /\ UNCHANGED <<created, thread, port, pend, scans>>

\* WaitForMultipleObjects waits for all of them, not for any.
AllDoneAny == \E t \in Threads : thread[t] = "done"

AllDone == \A t \in Threads : thread[t] = "done"

Wait ==
    /\ main = "creating"
    /\ created = NUM_PROCESSES
    /\ AllDone
    /\ main' = "returned"
    /\ UNCHANGED <<created, thread, port, pend, scans, trouble>>

CleanUp ==
    /\ main = "returned"
    /\ main' = "cleaned"
    /\ UNCHANGED <<created, thread, port, pend, scans, trouble>>

\* main returns, and with it ends every thread that is left.
Return ==
    /\ main = "cleaned"
    /\ main' = "ended"
    /\ UNCHANGED <<created, thread, port, pend, scans, trouble>>

MainStep == CreateThread \/ CreateFails \/ Wait \/ CleanUp \/ Return

-----------------------------------------------------------------------------
(***************************************************************************)
(* scan_ports_in_process                                                   *)
(***************************************************************************)
Start(t) == t * EACH_SCAN_NUM

End(t) == t * EACH_SCAN_NUM + EACH_SCAN_NUM

ReadRange(t) ==
    /\ main # "ended"
    /\ thread[t] = "created"
    /\ FrameAlive
    /\ thread' = [thread EXCEPT ![t] = "scanning"]
    /\ port' = [port EXCEPT ![t] = Start(t)]
    /\ pend' = [pend EXCEPT ![t] = End(t)]
    /\ UNCHANGED <<main, created, scans, trouble>>

ReadDeadFrame(t) ==
    /\ main # "ended"
    /\ thread[t] = "created"
    /\ ~FrameAlive
    /\ thread' = [thread EXCEPT ![t] = "scanning"]
    /\ \E s, e \in Garbage :
         /\ port' = [port EXCEPT ![t] = s]
         /\ pend' = [pend EXCEPT ![t] = e]
    /\ trouble' = trouble \cup {"stale_read"}
    /\ UNCHANGED <<main, created, scans>>

InRangeOpen(t) == port[t] < pend[t]

InRange(t) == port[t] <= pend[t]

OpenSocket(t) ==
    /\ main # "ended"
    /\ thread[t] = "scanning"
    /\ InRange(t)
    /\ WinsockUp
    /\ thread' = [thread EXCEPT ![t] = "trying"]
    /\ UNCHANGED <<main, created, port, pend, scans, trouble>>

\* exit(0) ends the scan of all threads, and says that all went well.
NoSocket(t) ==
    /\ main # "ended"
    /\ thread[t] = "scanning"
    /\ InRange(t)
    /\ main' = "ended"
    /\ trouble' = trouble \cup {"no_socket"}
    /\ UNCHANGED <<created, thread, port, pend, scans>>

Try(t) ==
    /\ main # "ended"
    /\ thread[t] = "trying"
    /\ scans' = [scans EXCEPT ![port[t]] = @ + 1]
    /\ port' = [port EXCEPT ![t] = @ + 1]
    /\ thread' = [thread EXCEPT ![t] = "scanning"]
    /\ UNCHANGED <<main, created, pend, trouble>>

Finish(t) ==
    /\ main # "ended"
    /\ thread[t] = "scanning"
    /\ ~InRange(t)
    /\ thread' = [thread EXCEPT ![t] = "done"]
    /\ UNCHANGED <<main, created, port, pend, scans, trouble>>

ThreadStep(t) ==
    \/ ReadRange(t) \/ ReadDeadFrame(t) \/ OpenSocket(t) \/ NoSocket(t)
    \/ Try(t) \/ Finish(t)

Init ==
    /\ main = "creating"
    /\ created = 0
    /\ thread = [t \in Threads |-> "none"]
    /\ port = [t \in Threads |-> 0]
    /\ pend = [t \in Threads |-> 0]
    /\ scans = [p \in Ports |-> 0]
    /\ trouble = {}

Next == MainStep \/ \E t \in Threads : ThreadStep(t)

Spec == Init /\ [][Next]_vars

\* The system runs every thread that can run; connect and select return.
Fairness == WF_vars(MainStep) /\ \A t \in Threads : WF_vars(ThreadStep(t))

-----------------------------------------------------------------------------
(***************************************************************************)
(* Properties.                                                             *)
(***************************************************************************)
Seams == {p \in Ports : p % EACH_SCAN_NUM = 0} \ {0, NUM_PROCESSES * EACH_SCAN_NUM}

\* 2.cpp:11 and 12 call START_PORT and END_PORT the start and the end of the
\* scan, and the ranges of the threads come from other numbers.  A process
\* that ended without trouble has tried every port from START_PORT to END_PORT
\* all the same, whatever the threads' pace: none falls between two ranges,
\* and one is tried twice only where two ranges meet.  Nothing keeps the scan
\* to those ports: it starts at port 0, and START_PORT is 1.
ScanComplete ==
    main = "ended" /\ trouble = {} =>
        /\ \A p \in START_PORT .. END_PORT : scans[p] >= 1
        /\ \A p \in Ports : scans[p] <= IF p \in Seams THEN 2 ELSE 1

\* No thread reads main's stack after main has left the function, and none
\* still scans when Winsock goes away: but for the one early return.
NothingOutlivesTheCall ==
    /\ "stale_read" \in trouble => "create_failed" \in trouble
    /\ ~FrameAlive /\ trouble = {} => \A t \in Threads : thread[t] = "done"

\* The process ends, whichever threads got their sockets.
ScanEnds == <>(main = "ended")
=============================================================================
