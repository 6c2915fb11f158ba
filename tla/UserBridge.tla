----------------------------- MODULE UserBridge -----------------------------
(***************************************************************************)
(* The user level bridge of WpdPack, UserBridge.c: main opens two adapters *)
(* and starts a thread for each direction; Ctrl+C runs a handler in a      *)
(* thread of its own, which orders both to end and waits for them.         *)
(*                                                                         *)
(* Abstractions.  Which interfaces are chosen does not matter, only that   *)
(* they are two; compiling and setting the two filters is one step, since  *)
(* each of its failures is handled alike.  A thread's step is a call to    *)
(* the library or a critical section.  TerminateThread returns before the  *)
(* thread has ended.  A library call on an adapter that has been closed    *)
(* may do what it does on an open one, or end the process.                 *)
(*                                                                         *)
(* An operator that stands before its namesake with a longer name (Test    *)
(* and TestOnlyAtStart) is a slip of that code which a run must notice.    *)
(***************************************************************************)
EXTENDS Naturals, FiniteSets

CONSTANT None

Threads == {0, 1}

UserBridgeAssumption == None \notin Threads

VARIABLES
    main,            \* see MainStates
    alldevs,         \* "none", "held", "freed", "freed_twice"
    adapters,        \* those that are open: 0 is adhandle1, 1 is adhandle2
    thread,          \* of each: see ThreadStates
    print_cs,        \* who is in the critical section
    kill_forwaders,
    handler,         \* "none", "installed", "waiting"
    doomed,          \* TerminateThread has been called for thread 0
    late,            \* history, of each: packets forwarded under the order
    trouble          \* history: "no_thread", "timeout", "interrupted", "crash"

vars == <<main, alldevs, adapters, thread, print_cs, kill_forwaders, handler,
          doomed, late, trouble>>

MainStates ==
    {"listing", "choosing", "opening1", "opening2", "filtering", "freeing",
     "creating0", "creating1", "terminating", "closing", "freeing_again",
     "installing", "sleeping", "ended"}

\* "announcing", "complaining" and "parting" print under print_cs; a thread
\* is in the critical section when print_cs is the thread.
ThreadStates ==
    {"none", "testing", "capturing", "announcing", "sending", "complaining",
     "parting", "returned", "terminated"}

bridge == <<thread, print_cs, late>>

-----------------------------------------------------------------------------
(***************************************************************************)
(* main                                                                    *)
(***************************************************************************)
\* pcap_freealldevs; on a list that has been freed it is undefined.
Freed == IF alldevs = "held" THEN "freed" ELSE "freed_twice"

\* pcap_findalldevs_ex fails, or finds nothing.
ListFails ==
    /\ main = "listing"
    /\ main' = "ended"
    /\ UNCHANGED <<alldevs, adapters, bridge, kill_forwaders, handler, doomed,
                   trouble>>

ListDevices ==
    /\ main = "listing"
    /\ alldevs' = "held"
    /\ main' = "choosing"
    /\ UNCHANGED <<adapters, bridge, kill_forwaders, handler, doomed, trouble>>

\* A number out of range, or the same twice.
ChooseBadly ==
    /\ main = "choosing"
    /\ alldevs' = Freed
    /\ main' = "ended"
    /\ UNCHANGED <<adapters, bridge, kill_forwaders, handler, doomed, trouble>>

Choose ==
    /\ main = "choosing"
    /\ main' = "opening1"
    /\ UNCHANGED <<alldevs, adapters, bridge, kill_forwaders, handler, doomed,
                   trouble>>

Open ==
    /\ \/ main = "opening1" /\ main' = "opening2" /\ adapters' = {0}
       \/ main = "opening2" /\ main' = "filtering" /\ adapters' = {0, 1}
    /\ UNCHANGED <<alldevs, bridge, kill_forwaders, handler, doomed, trouble>>

\* When the second cannot be opened, the first stays open.
OpenFails ==
    /\ main \in {"opening1", "opening2"}
    /\ alldevs' = Freed
    /\ main' = "ended"
    /\ UNCHANGED <<adapters, bridge, kill_forwaders, handler, doomed, trouble>>

SetFilters ==
    /\ main = "filtering"
    /\ main' = "freeing"
    /\ UNCHANGED <<alldevs, adapters, bridge, kill_forwaders, handler, doomed,
                   trouble>>

\* The slip frees the list and goes on to free it again.
FilterFailsOn ==
    /\ main = "filtering"
    /\ adapters' = {}
    /\ alldevs' = Freed
    /\ main' = "freeing"
    /\ UNCHANGED <<bridge, kill_forwaders, handler, doomed, trouble>>

FilterFails ==
    /\ main = "filtering"
    /\ adapters' = {}
    /\ alldevs' = Freed
    /\ main' = "ended"
    /\ UNCHANGED <<bridge, kill_forwaders, handler, doomed, trouble>>

FreeDevices ==
    /\ main = "freeing"
    /\ alldevs' = Freed
    /\ main' = "creating0"
    /\ UNCHANGED <<adapters, bridge, kill_forwaders, handler, doomed, trouble>>

CreateThread ==
    /\ \/ /\ main = "creating0"
          /\ thread' = [thread EXCEPT ![0] = "testing"]
          /\ main' = "creating1"
       \/ /\ main = "creating1"
          /\ thread' = [thread EXCEPT ![1] = "testing"]
          /\ main' = "installing"
    /\ UNCHANGED <<alldevs, adapters, print_cs, kill_forwaders, handler,
                   doomed, late, trouble>>

\* Without the first thread the adapters are closed and the list is freed,
\* which is freed already; without the second, thread 0 is terminated before.
CreateFails ==
    /\ \/ main = "creating0" /\ main' = "closing"
       \/ main = "creating1" /\ main' = "terminating"
    /\ trouble' = trouble \cup {"no_thread"}
    /\ UNCHANGED <<alldevs, adapters, bridge, kill_forwaders, handler, doomed>>

Terminate ==
    /\ main = "terminating"
    /\ doomed' = TRUE
    /\ main' = "closing"
    /\ UNCHANGED <<alldevs, adapters, bridge, kill_forwaders, handler, trouble>>

CloseAdapters ==
    /\ main = "closing"
    /\ adapters' = {}
    /\ main' = "freeing_again"
    /\ UNCHANGED <<alldevs, bridge, kill_forwaders, handler, doomed, trouble>>

FreeAgain ==
    /\ main = "freeing_again"
    /\ alldevs' = Freed
    /\ main' = "ended"
    /\ UNCHANGED <<adapters, bridge, kill_forwaders, handler, doomed, trouble>>

Install ==
    /\ main = "installing"
    /\ handler' = "installed"
    /\ main' = "sleeping"
    /\ UNCHANGED <<alldevs, adapters, bridge, kill_forwaders, doomed, trouble>>

MainStep ==
    \/ ListFails \/ ListDevices \/ ChooseBadly \/ Choose \/ Open \/ OpenFails
    \/ SetFilters \/ FilterFails \/ FreeDevices \/ CreateThread \/ CreateFails
    \/ Terminate \/ CloseAdapters \/ FreeAgain \/ Install

-----------------------------------------------------------------------------
(***************************************************************************)
(* CaptureAndForwardThread.  A process that has ended runs no thread.      *)
(***************************************************************************)
Printing == {"announcing", "complaining", "parting"}

\* A turn of the loop begins: is the thread to end?  The slip asks when the
\* thread starts, and not again.
TestOnlyAtStart(t) ==
    /\ main # "ended"
    /\ thread[t] = "testing"
    /\ thread' = [thread EXCEPT ![t] = "capturing"]
    /\ UNCHANGED <<main, alldevs, adapters, print_cs, kill_forwaders, handler,
                   doomed, late, trouble>>

Test(t) ==
    /\ main # "ended"
    /\ thread[t] = "testing"
    /\ thread' = [thread EXCEPT ![t] = IF kill_forwaders THEN "parting"
                                       ELSE "capturing"]
    /\ UNCHANGED <<main, alldevs, adapters, print_cs, kill_forwaders, handler,
                   doomed, late, trouble>>

\* pcap_next_ex returns a packet (1), after a timeout (0) or with an error.
Capture(t) ==
    /\ main # "ended"
    /\ thread[t] = "capturing"
    /\ \E after \in {"announcing", "testing", "parting"} :
         thread' = [thread EXCEPT ![t] = after]
    /\ UNCHANGED <<main, alldevs, adapters, print_cs, kill_forwaders, handler,
                   doomed, late, trouble>>

Enter(t) ==
    /\ main # "ended"
    /\ thread[t] \in Printing
    /\ print_cs = None
    /\ print_cs' = t
    /\ UNCHANGED <<main, alldevs, adapters, thread, kill_forwaders, handler,
                   doomed, late, trouble>>

AfterPrintingStay(t) ==
    CASE thread[t] = "announcing"  -> "sending"
      [] thread[t] = "complaining" -> "testing"
      [] thread[t] = "parting"     -> "testing"

AfterPrinting(t) ==
    CASE thread[t] = "announcing"  -> "sending"
      [] thread[t] = "complaining" -> "testing"
      [] thread[t] = "parting"     -> "returned"

Leave(t) ==
    /\ main # "ended"
    /\ thread[t] \in Printing /\ print_cs = t
    /\ print_cs' = None
    /\ thread' = [thread EXCEPT ![t] = AfterPrinting(t)]
    /\ UNCHANGED <<main, alldevs, adapters, kill_forwaders, handler, doomed,
                   late, trouble>>

\* pcap_sendpacket; n_fwd counts what it has sent.
Forward(t) ==
    /\ main # "ended"
    /\ thread[t] = "sending"
    /\ thread' = [thread EXCEPT ![t] = "testing"]
    /\ late' = IF kill_forwaders THEN [late EXCEPT ![t] = @ + 1] ELSE late
    /\ UNCHANGED <<main, alldevs, adapters, print_cs, kill_forwaders, handler,
                   doomed, trouble>>

ForwardFails(t) ==
    /\ main # "ended"
    /\ thread[t] = "sending"
    /\ thread' = [thread EXCEPT ![t] = "complaining"]
    /\ UNCHANGED <<main, alldevs, adapters, print_cs, kill_forwaders, handler,
                   doomed, late, trouble>>

ThreadStep(t) ==
    \/ Test(t) \/ Capture(t) \/ Enter(t) \/ Leave(t) \/ Forward(t)
    \/ ForwardFails(t)

InLibrary(t) == thread[t] \in {"capturing", "sending"}

Crash ==
    /\ main # "ended"
    /\ \E t \in Threads : InLibrary(t)
    /\ adapters # {0, 1}
    /\ main' = "ended"
    /\ trouble' = trouble \cup {"crash"}
    /\ UNCHANGED <<alldevs, adapters, bridge, kill_forwaders, handler, doomed>>

\* The system ends the thread wherever it is; it frees no critical section.
Die ==
    /\ main # "ended"
    /\ doomed
    /\ thread[0] \notin {"returned", "terminated"}
    /\ thread' = [thread EXCEPT ![0] = "terminated"]
    /\ UNCHANGED <<main, alldevs, adapters, print_cs, kill_forwaders, handler,
                   doomed, late, trouble>>

-----------------------------------------------------------------------------
(***************************************************************************)
(* Ctrl+C                                                                  *)
(***************************************************************************)
\* ctrlc_handler starts.  A signal is handled once: the next one is not.
Order ==
    /\ main = "sleeping"
    /\ handler = "installed"
    /\ handler' = "waiting"
    /\ kill_forwaders' = TRUE
    /\ UNCHANGED <<main, alldevs, adapters, bridge, doomed, trouble>>

\* Without a handler Ctrl+C ends the process.
Interrupt ==
    /\ main # "ended"
    /\ handler # "installed"
    /\ main' = "ended"
    /\ trouble' = trouble \cup {"interrupted"}
    /\ UNCHANGED <<alldevs, adapters, bridge, kill_forwaders, handler, doomed>>

\* WaitForMultipleObjects sees both threads end, and exit(0) is called.
Exit ==
    /\ main # "ended"
    /\ handler = "waiting"
    /\ \A t \in Threads : thread[t] = "returned"
    /\ main' = "ended"
    /\ UNCHANGED <<alldevs, adapters, bridge, kill_forwaders, handler, doomed,
                   trouble>>

\* Five seconds have passed before.
TimeOut ==
    /\ main # "ended"
    /\ handler = "waiting"
    /\ \E t \in Threads : thread[t] # "returned"
    /\ main' = "ended"
    /\ trouble' = trouble \cup {"timeout"}
    /\ UNCHANGED <<alldevs, adapters, bridge, kill_forwaders, handler, doomed>>

Init ==
    /\ main = "listing"
    /\ alldevs = "none"
    /\ adapters = {}
    /\ thread = [t \in Threads |-> "none"]
    /\ print_cs = None
    /\ kill_forwaders = FALSE
    /\ handler = "none"
    /\ doomed = FALSE
    /\ late = [t \in Threads |-> 0]
    /\ trouble = {}

Next ==
    \/ MainStep
    \/ \E t \in Threads : ThreadStep(t)
    \/ Crash \/ Die
    \/ Order \/ Interrupt \/ Exit \/ TimeOut

Spec == Init /\ [][Next]_vars

\* pcap_next_ex returns within the read timeout and the system runs both
\* threads and the handler.  Nothing is assumed of the five seconds.
Fairness == WF_vars(Exit) /\ \A t \in Threads : WF_vars(ThreadStep(t))

-----------------------------------------------------------------------------
(***************************************************************************)
(* Properties.                                                             *)
(***************************************************************************)
\* As long as both threads can be created, the device list is freed once at
\* most and no thread is in the library without both adapters.  Line 323 and
\* line 346 free the list again that line 290 has freed, and line 342 closes
\* the adapters under a thread that may not have ended yet.
CleanWithThreads ==
    "no_thread" \notin trouble =>
        /\ alldevs # "freed_twice"
        /\ \A t \in Threads : InLibrary(t) => adapters = {0, 1}

\* Once ordered to end, a thread forwards one more packet at most, the one
\* it was waiting for or had announced: the order is seen on every turn.
OneMoreAtMost == \A t \in Threads : late[t] <= 1

\* Threads obey without the help of the five seconds: ordered to end, both
\* get out of the library and past the critical section, and the process
\* ends.
OrderObeyed == kill_forwaders ~> main = "ended"
=============================================================================
