--------------------------- MODULE Programs_proofs ---------------------------
(***************************************************************************)
(* What TLC checks on one instance of Programs, proved for every number of *)
(* threads, byte, text, sample, capture file, block of packets, file to    *)
(* send and order of steps; SocketLab_proofs does it for the files and     *)
(* messages of socketlab.                                                  *)
(*                                                                         *)
(* A step of Programs is a step of one program and leaves the others alone *)
(* (OneProgram), so an invariant of a program is one of the whole.  Each   *)
(* section states the invariant of one program, proves that every step of  *)
(* it keeps it, and ends in the theorem about its property.                *)
(***************************************************************************)
EXTENDS Programs, SequenceLemmas

-----------------------------------------------------------------------------
\* A step of the whole is a step of one program and leaves the others alone.
LEMMA OneProgram ==
    ASSUME [Next]_vars
    PROVE  /\ [PS!Next]_(PS!vars)
           /\ [SC!Next]_(SC!vars)
           /\ [IC!Next]_(IC!vars)
           /\ [UB!Next]_(UB!vars)
           /\ [CS!Next]_(CS!vars)
           /\ [CP!Next]_(CP!vars)
           /\ [PD!Next]_(PD!vars)
<1>1. /\ [PS!Next]_psVars
      /\ [SC!Next]_scVars
      /\ [IC!Next]_icVars
      /\ [UB!Next]_ubVars
      /\ [CS!Next]_csVars
      /\ [CP!Next]_cpVars
      /\ [PD!Next]_pdVars
  <2> USE DEF Next, vars, RunPacketSend, RunTcpFile, RunUdpFile, RunTcpEcho,
          RunUdpEcho, RunPortScan, PortScanAlone, RunIcmpChecksum,
          RunUserBridge, UserBridgeAlone, RunCaptureSamples, RunSendCap,
          RunPacketDriver
  <2>1. [PS!Next]_psVars
    OBVIOUS
  <2>2. [SC!Next]_scVars
    OBVIOUS
  <2>3. [IC!Next]_icVars
    OBVIOUS
  <2>4. [UB!Next]_ubVars
    OBVIOUS
  <2>5. [CS!Next]_csVars
    OBVIOUS
  <2>6. [CP!Next]_cpVars
    OBVIOUS
  <2>7. [PD!Next]_pdVars
    OBVIOUS
  <2> QED
    BY <2>1, <2>2, <2>3, <2>4, <2>5, <2>6, <2>7
<1>2. [PS!Next]_(PS!vars)
  BY <1>1 DEF PS!vars, psVars
<1>3. [SC!Next]_(SC!vars)
  BY <1>1 DEF SC!vars, scVars
<1>4. [IC!Next]_(IC!vars)
  BY <1>1 DEF IC!vars, icVars
<1>5. [UB!Next]_(UB!vars)
  BY <1>1 DEF UB!vars, ubVars
<1>6. [CS!Next]_(CS!vars)
  BY <1>1 DEF CS!vars, csVars
<1>7. [CP!Next]_(CP!vars)
  BY <1>1 DEF CP!vars, cpVars
<1>8. [PD!Next]_(PD!vars)
  BY <1>1 DEF PD!vars, pdVars
<1> QED
  BY <1>2, <1>3, <1>4, <1>5, <1>6, <1>7, <1>8

-----------------------------------------------------------------------------
(***************************************************************************)
(* The bridge                                                              *)
(***************************************************************************)
BridgeTypes ==
    /\ ub_main \in UB!MainStates
    /\ ub_thread \in [UB!Threads -> UB!ThreadStates]
    /\ ub_late \in [UB!Threads -> {0, 1}]
    /\ ub_kill_forwaders \in BOOLEAN

\* Before the first CreateThread, and behind the last.
BeforeThreads == {"listing", "choosing", "opening1", "opening2", "filtering",
          "freeing", "creating0"}

Bridging == {"creating1", "installing", "sleeping"}

BridgeStage ==
    /\ ub_main = "listing" => ub_alldevs = "none"
    /\ ub_main
           \in {"choosing", "opening1", "opening2", "filtering", "freeing"} =>
           ub_alldevs = "held"
    /\ ub_main \in {"creating0"} \cup Bridging => ub_alldevs = "freed"
    /\ ub_main = "ended" => ub_alldevs \in {"none", "held", "freed"}
    /\ ub_main \in {"filtering", "freeing", "creating0"} \cup Bridging =>
           ub_adapters = {0, 1}
    /\ ub_main \in BeforeThreads => \A t \in UB!Threads : ub_thread[t] = "none"
    /\ ub_main \notin {"terminating", "closing", "freeing_again"}
    /\ ~ub_doomed
    /\ \A t \in UB!Threads : UB!InLibrary(t) => ub_adapters = {0, 1}

Obeying ==
    \A t \in UB!Threads :
        ub_late[t] = 1 =>
            /\ ub_kill_forwaders
            /\ ub_thread[t]
                 \in {"testing", "parting", "returned", "terminated"}

BridgeInv ==
    /\ BridgeTypes
    /\ Obeying
    /\ "no_thread" \notin ub_trouble => BridgeStage

-----------------------------------------------------------------------------
LEMMA BridgeInitInv ==
    ASSUME UB!Init
    PROVE  BridgeInv
<1>1. BridgeTypes
  BY DEF UB!Init, BridgeTypes, UB!MainStates, UB!ThreadStates, UB!Threads
<1>2. Obeying
  BY DEF UB!Init, Obeying
<1>3. BridgeStage
  BY DEF UB!Init, BridgeStage, BeforeThreads, Bridging, UB!InLibrary
<1>4. QED
  BY <1>1, <1>2, <1>3 DEF BridgeInv

\* main moves on and leaves the threads and the order alone.
LEMMA BridgeMainAlone ==
    ASSUME BridgeInv, ub_main' \in UB!MainStates,
           UNCHANGED <<UB!bridge, ub_kill_forwaders>>
    PROVE  BridgeTypes' /\ Obeying'
BY DEF BridgeInv, BridgeTypes, Obeying, UB!bridge

\* How far main has come, after each of its steps.
LEMMA BridgeMainInv ==
    ASSUME BridgeInv, UB!MainStep
    PROVE  BridgeInv'
<1>1. CASE UB!CreateThread
  <2>1. BridgeTypes'
    BY <1>1 DEF BridgeInv, BridgeTypes, UB!CreateThread, UB!MainStates,
         UB!ThreadStates, UB!Threads
  <2>2. Obeying'
    BY <1>1 DEF BridgeInv, BridgeTypes, Obeying, UB!CreateThread, UB!Threads
  <2>3. "no_thread" \notin ub_trouble' => BridgeStage'
    BY <1>1 DEF BridgeInv, BridgeTypes, BridgeStage, UB!CreateThread,
         BeforeThreads, Bridging, UB!InLibrary, UB!Threads
  <2>4. QED
    BY <2>1, <2>2, <2>3 DEF BridgeInv
<1>2. CASE UB!CreateFails
  <2>1. ub_main' \in UB!MainStates
        /\ UNCHANGED <<UB!bridge, ub_kill_forwaders>>
    BY <1>2 DEF UB!CreateFails, UB!MainStates
  <2>2. "no_thread" \in ub_trouble'
    BY <1>2 DEF UB!CreateFails
  <2>3. QED
    BY <2>1, <2>2, BridgeMainAlone DEF BridgeInv
<1>3. CASE UB!ListFails \/ UB!ListDevices \/ UB!ChooseBadly \/ UB!Choose
  <2>1. ub_main' \in UB!MainStates
        /\ UNCHANGED <<UB!bridge, ub_kill_forwaders>>
    BY <1>3 DEF UB!ListFails, UB!ListDevices, UB!ChooseBadly, UB!Choose,
         UB!MainStates
  <2>2. "no_thread" \notin ub_trouble' => BridgeStage'
    BY <1>3 DEF BridgeInv, BridgeStage, UB!ListFails, UB!ListDevices,
         UB!ChooseBadly, UB!Choose, UB!Freed, BeforeThreads, Bridging,
         UB!InLibrary, UB!bridge
  <2>3. QED
    BY <2>1, <2>2, BridgeMainAlone DEF BridgeInv
<1>4. CASE UB!Open \/ UB!OpenFails
  <2>1. ub_main' \in UB!MainStates
        /\ UNCHANGED <<UB!bridge, ub_kill_forwaders>>
    BY <1>4 DEF UB!Open, UB!OpenFails, UB!MainStates
  <2>2. "no_thread" \notin ub_trouble' => BridgeStage'
    BY <1>4 DEF BridgeInv, BridgeStage, UB!Open, UB!OpenFails, UB!Freed,
         BeforeThreads, Bridging, UB!InLibrary, UB!bridge
  <2>3. QED
    BY <2>1, <2>2, BridgeMainAlone DEF BridgeInv
<1>5. CASE UB!SetFilters
  <2>1. ub_main' \in UB!MainStates
        /\ UNCHANGED <<UB!bridge, ub_kill_forwaders>>
    BY <1>5 DEF UB!SetFilters, UB!MainStates
  <2>2. /\ ub_main = "filtering" /\ ub_main' = "freeing"
        /\ UNCHANGED <<ub_alldevs, ub_adapters, ub_thread, ub_trouble,
                       ub_doomed>>
    BY <1>5 DEF UB!SetFilters, UB!bridge
  <2>3. "no_thread" \notin ub_trouble => BridgeStage
    BY DEF BridgeInv
  <2>4. "no_thread" \notin ub_trouble' => BridgeStage'
    BY <2>2, <2>3 DEF BridgeStage, BeforeThreads, Bridging, UB!InLibrary
  <2>5. QED
    BY <2>1, <2>4, BridgeMainAlone DEF BridgeInv
<1>6. CASE UB!FilterFails \/ UB!FreeDevices
  <2>1. ub_main' \in UB!MainStates
        /\ UNCHANGED <<UB!bridge, ub_kill_forwaders>>
    BY <1>6 DEF UB!FilterFails, UB!FreeDevices, UB!MainStates
  <2>2. "no_thread" \notin ub_trouble' => BridgeStage'
    BY <1>6 DEF BridgeInv, BridgeStage, UB!FilterFails, UB!FreeDevices,
         UB!Freed, BeforeThreads, Bridging, UB!InLibrary, UB!bridge
  <2>3. QED
    BY <2>1, <2>2, BridgeMainAlone DEF BridgeInv
<1>7. CASE UB!Terminate \/ UB!CloseAdapters \/ UB!FreeAgain
  <2>1. ub_main' \in UB!MainStates
        /\ UNCHANGED <<UB!bridge, ub_kill_forwaders>>
    BY <1>7 DEF UB!Terminate, UB!CloseAdapters, UB!FreeAgain, UB!MainStates
  <2>2. "no_thread" \notin ub_trouble' => BridgeStage'
    BY <1>7 DEF BridgeInv, BridgeStage, UB!Terminate, UB!CloseAdapters,
         UB!FreeAgain
  <2>3. QED
    BY <2>1, <2>2, BridgeMainAlone DEF BridgeInv
<1>8. CASE UB!Install
  <2>1. ub_main' \in UB!MainStates
        /\ UNCHANGED <<UB!bridge, ub_kill_forwaders>>
    BY <1>8 DEF UB!Install, UB!MainStates
  <2>2. "no_thread" \notin ub_trouble' => BridgeStage'
    BY <1>8 DEF BridgeInv, BridgeStage, UB!Install, BeforeThreads, Bridging,
         UB!InLibrary, UB!bridge
  <2>3. QED
    BY <2>1, <2>2, BridgeMainAlone DEF BridgeInv
<1>9. QED
  BY <1>1, <1>2, <1>3, <1>4, <1>5, <1>6, <1>7, <1>8 DEF UB!MainStep

\* A thread moves: it was started, so main is past creating the first, and
\* it gets into the library only while the adapters are open.
LEMMA BridgeThreadInv ==
    ASSUME BridgeInv, NEW t \in UB!Threads, UB!ThreadStep(t)
    PROVE  BridgeInv'
<1>1. /\ UNCHANGED <<ub_main, ub_alldevs, ub_adapters, ub_kill_forwaders,
                     ub_doomed, ub_trouble>>
      /\ ub_main # "ended"
      /\ ub_thread[t] # "none"
      /\ \A u \in UB!Threads : u # t =>
            ub_thread'[u] = ub_thread[u] /\ ub_late'[u] = ub_late[u]
  BY DEF BridgeInv, BridgeTypes, UB!ThreadStep, UB!Test, UB!Capture, UB!Enter,
       UB!Leave, UB!Forward, UB!ForwardFails, UB!Printing
<1>2. BridgeTypes'
  BY DEF BridgeInv, BridgeTypes, Obeying, UB!ThreadStep, UB!Test, UB!Capture,
       UB!Enter, UB!Leave, UB!Forward, UB!ForwardFails, UB!Printing,
       UB!AfterPrinting, UB!ThreadStates
<1>3. Obeying'
  <2>1. CASE UB!Forward(t)
    <3>1. /\ ub_thread'[t] = "testing"
          /\ ub_kill_forwaders' = ub_kill_forwaders
          /\ ub_late'[t]
               = IF ub_kill_forwaders THEN ub_late[t] + 1 ELSE ub_late[t]
      BY <2>1 DEF BridgeInv, BridgeTypes, UB!Forward
    <3>2. ub_late'[t] = 1 => ub_kill_forwaders'
      BY <3>1 DEF BridgeInv, Obeying
    <3>3. QED
      BY <1>1, <3>1, <3>2 DEF BridgeInv, Obeying
  <2>2. CASE UB!Test(t) \/ UB!Capture(t) \/ UB!Enter(t) \/ UB!Leave(t)
             \/ UB!ForwardFails(t)
    <3>1. ub_late' = ub_late /\ ub_kill_forwaders' = ub_kill_forwaders
      BY <2>2 DEF UB!Test, UB!Capture, UB!Enter, UB!Leave, UB!ForwardFails
    <3>2. ub_late[t] = 1 =>
              ub_thread'[t]
                  \in {"testing", "parting", "returned", "terminated"}
      BY <2>2 DEF BridgeInv, BridgeTypes, Obeying, UB!Test, UB!Capture,
           UB!Enter, UB!Leave, UB!ForwardFails, UB!Printing, UB!AfterPrinting
    <3>3. QED
      BY <1>1, <3>1, <3>2 DEF BridgeInv, Obeying
  <2>3. QED
    BY <2>1, <2>2 DEF UB!ThreadStep
<1>4. "no_thread" \notin ub_trouble' => BridgeStage'
  <2> SUFFICES ASSUME "no_thread" \notin ub_trouble
               PROVE  BridgeStage'
    BY <1>1
  <2>1. BridgeStage
    BY DEF BridgeInv
  <2>2. ub_main \notin BeforeThreads
    BY <1>1, <2>1 DEF BridgeStage
  <2>3. ub_main \in Bridging
    BY <1>1, <2>1, <2>2 DEF BridgeInv, BridgeTypes, UB!MainStates, BridgeStage,
         BeforeThreads, Bridging
  <2>4. ub_adapters' = {0, 1}
    BY <1>1, <2>1, <2>3 DEF BridgeStage
  <2>5. QED
    BY <1>1, <2>1, <2>2, <2>4 DEF BridgeStage, UB!InLibrary
<1>5. QED
  BY <1>2, <1>3, <1>4 DEF BridgeInv

LEMMA BridgeStepInv ==
    ASSUME BridgeInv, [UB!Next]_(UB!vars)
    PROVE  BridgeInv'
<1>1. CASE UB!MainStep
  BY <1>1, BridgeMainInv
<1>2. CASE \E t \in UB!Threads : UB!ThreadStep(t)
  BY <1>2, BridgeThreadInv
<1>3. CASE UB!Crash \/ UB!Interrupt \/ UB!Exit \/ UB!TimeOut
  <2>1. ub_main' \in UB!MainStates
        /\ UNCHANGED <<UB!bridge, ub_kill_forwaders>>
    BY <1>3 DEF UB!Crash, UB!Interrupt, UB!Exit, UB!TimeOut, UB!MainStates
  <2>2. "no_thread" \notin ub_trouble' => BridgeStage'
    <3> SUFFICES ASSUME "no_thread" \notin ub_trouble'
                 PROVE  BridgeStage'
      OBVIOUS
    <3>1. /\ ub_main # "ended" /\ ub_main' = "ended"
          /\ UNCHANGED <<ub_alldevs, ub_adapters, ub_thread, ub_doomed>>
          /\ "no_thread" \notin ub_trouble
      BY <1>3 DEF UB!Crash, UB!Interrupt, UB!Exit, UB!TimeOut, UB!bridge
    <3>2. BridgeStage
      BY <3>1 DEF BridgeInv
    <3>3. CASE UB!Crash
      BY <3>1, <3>2, <3>3 DEF BridgeStage, UB!Crash
    <3>4. QED
      BY <3>1, <3>2 DEF BridgeInv, BridgeTypes, BridgeStage, UB!MainStates,
           BeforeThreads, Bridging, UB!InLibrary
  <2>3. QED
    BY <2>1, <2>2, BridgeMainAlone DEF BridgeInv
<1>4. CASE UB!Die
  <2>1. BridgeTypes'
    BY <1>4 DEF BridgeInv, BridgeTypes, UB!Die, UB!ThreadStates, UB!Threads
  <2>2. Obeying'
    BY <1>4 DEF BridgeInv, BridgeTypes, Obeying, UB!Die, UB!Threads
  <2>3. QED
    BY <1>4, <2>1, <2>2 DEF BridgeInv, BridgeStage, UB!Die
<1>5. CASE UB!Order
  <2>1. BridgeTypes' /\ Obeying'
    BY <1>5 DEF BridgeInv, BridgeTypes, Obeying, UB!Order, UB!bridge
  <2>2. QED
    BY <1>5, <2>1 DEF BridgeInv, BridgeStage, UB!Order, UB!InLibrary, UB!bridge
<1>6. CASE UNCHANGED UB!vars
  BY <1>6 DEF UB!vars, BridgeInv, BridgeTypes, Obeying, BridgeStage,
       UB!InLibrary
<1>7. QED
  BY <1>1, <1>2, <1>3, <1>4, <1>5, <1>6 DEF UB!Next

LEMMA BridgeInvariance == Spec => []BridgeInv
<1>1. Init => BridgeInv
  BY BridgeInitInv DEF Init
<1>2. BridgeInv /\ [Next]_vars => BridgeInv'
  BY OneProgram, BridgeStepInv
<1>3. QED
  BY <1>1, <1>2, PTL DEF Spec

-----------------------------------------------------------------------------
\* However the threads, Ctrl+C and the five seconds fall: while both threads
\* could be created, the device list is not freed twice and no thread is in
\* the library without both adapters.
THEOREM Clean == Spec => []CleanWithThreads
<1>1. BridgeInv => CleanWithThreads
  BY DEF BridgeInv, BridgeTypes, BridgeStage, CleanWithThreads,
         UB!CleanWithThreads, UB!MainStates, BeforeThreads, Bridging
<1>2. QED
  BY <1>1, BridgeInvariance, PTL

\* Ordered to end, a thread forwards one more packet at most.
THEOREM Obedient == Spec => []OneMoreAtMost
<1>1. BridgeInv => OneMoreAtMost
  BY DEF BridgeInv, BridgeTypes, OneMoreAtMost, UB!OneMoreAtMost
<1>2. QED
  BY <1>1, BridgeInvariance, PTL

-----------------------------------------------------------------------------
(***************************************************************************)
(* The port scanner.                                                       *)
(*                                                                         *)
(* A port is counted by the threads in whose range it lies, two of them at *)
(* a seam.  Counted keeps that sum against how far each thread has come    *)
(* (Upto); it holds while no thread has read its range from a dead frame.  *)
(***************************************************************************)
ScanStates == {"none", "created", "scanning", "trying", "done"}

ScanTypes ==
    /\ sc_main \in {"creating", "returned", "cleaned", "ended"}
    /\ sc_created \in 0 .. NUM_PROCESSES
    /\ sc_thread \in [SC!Threads -> ScanStates]
    /\ sc_port \in [SC!Threads -> Nat]
    /\ sc_pend \in [SC!Threads -> Nat]
    /\ sc_scans \in [SC!Ports -> Nat]

NotYetCreated == \A t \in SC!Threads : t >= sc_created => sc_thread[t] = "none"

OnTime ==
    /\ sc_main \in {"returned", "cleaned"}
       /\ "create_failed" \notin sc_trouble =>
           SC!AllDone
    /\ sc_main = "ended" /\ sc_trouble = {} => SC!AllDone

NoStaleRead == "stale_read" \in sc_trouble => "create_failed" \in sc_trouble

\* What a thread that has read its range keeps.
ScanRanges ==
    \A t \in SC!Threads :
        sc_thread[t] \notin {"none", "created"} =>
            /\ sc_pend[t] = SC!End(t)
            /\ SC!Start(t) <= sc_port[t] /\ sc_port[t] <= SC!End(t) + 1
            /\ sc_thread[t] = "trying" => sc_port[t] <= SC!End(t)
            /\ sc_thread[t] = "done" => sc_port[t] = SC!End(t) + 1

\* The ports from Start(t) up to this one have been tried by t.
Upto(t) ==
    IF sc_thread[t] \in {"none", "created"} THEN SC!Start(t) ELSE sc_port[t]

Times(t, p) == IF SC!Start(t) <= p /\ p < Upto(t) THEN 1 ELSE 0

\* How often the thread below has tried the first port of t's range.
Below(t, p) == IF t > 0 /\ p = SC!Start(t) THEN Times(t - 1, p) ELSE 0

Counted ==
    \A t \in SC!Threads, p \in SC!Ports :
        /\ SC!Start(t) <= p /\ p < SC!End(t) =>
               sc_scans[p] = Times(t, p) + Below(t, p)
        /\ t = NUM_PROCESSES - 1 /\ p = SC!End(t) => sc_scans[p] = Times(t, p)

ScanInv ==
    /\ ScanTypes
    /\ NotYetCreated
    /\ OnTime
    /\ NoStaleRead
    /\ "stale_read" \notin sc_trouble => ScanRanges /\ Counted

-----------------------------------------------------------------------------
(***************************************************************************)
(* Arithmetic of the ranges.                                               *)
(***************************************************************************)
\* A product rounds to its factor.
LEMMA Division ==
    ASSUME NEW a \in Nat, NEW b \in Nat, b > 0
    PROVE  /\ a \div b \in Nat
           /\ (a \div b) * b <= a /\ a < (a \div b) * b + b
           /\ a % b = a - (a \div b) * b
<1>1. a \div b \in Nat
  OBVIOUS
<1>2. (a \div b) * b <= a /\ a < (a \div b) * b + b
  OBVIOUS
<1>3. a % b = a - (a \div b) * b
  OBVIOUS
<1>4. QED
  BY <1>1, <1>2, <1>3

LEMMA ScanConstants ==
    /\ NUM_PROCESSES \in Nat /\ NUM_PROCESSES > 0
    /\ EACH_SCAN_NUM \in Nat /\ EACH_SCAN_NUM > 0
    /\ sc_Garbage \subseteq Nat
    /\ \A t \in SC!Threads : t \in Nat /\ t < NUM_PROCESSES
<1>1. /\ NUM_PROCESSES \in Nat /\ NUM_PROCESSES > 0
      /\ EACH_SCAN_NUM \in Nat /\ EACH_SCAN_NUM > 0
  BY ProgramsAssumption DEF ProgramsAssumption, SC!PortScanAssumption
<1>2. \A t \in SC!Threads : t \in Nat /\ t < NUM_PROCESSES
  BY <1>1 DEF SC!Threads
<1>3. sc_Garbage \subseteq Nat
  BY ProgramsAssumption DEF ProgramsAssumption, SC!PortScanAssumption
<1>4. QED
  BY <1>1, <1>2, <1>3

\* A smaller multiple is smaller by the factor at least.
LEMMA Multiples ==
    ASSUME NEW b \in Nat, b > 0, NEW k \in Nat, NEW l \in Nat, k < l
    PROVE  k * b + b <= l * b
<1>1. l - (k + 1) \in Nat
  OBVIOUS
<1>2. l * b = (l - (k + 1)) * b + k * b + b
  OBVIOUS
<1>3. (l - (k + 1)) * b \in Nat /\ k * b \in Nat /\ l * b \in Nat
  BY <1>1
<1>4. QED
  BY <1>2, <1>3

\* Ranges: they are in order, and meet in one port.
LEMMA RangeOrder ==
    ASSUME NEW t \in SC!Threads
    PROVE  /\ SC!Start(t) \in Nat /\ SC!End(t) \in Nat
           /\ SC!End(t) = SC!Start(t) + EACH_SCAN_NUM
           /\ SC!End(t) <= NUM_PROCESSES * EACH_SCAN_NUM
           /\ \A u \in SC!Threads : u < t => SC!End(u) <= SC!Start(t)
           /\ t > 0 => t - 1 \in SC!Threads /\ SC!End(t - 1) = SC!Start(t)
<1>1. /\ t \in Nat /\ t < NUM_PROCESSES
      /\ NUM_PROCESSES \in Nat /\ EACH_SCAN_NUM \in Nat /\ EACH_SCAN_NUM > 0
  BY ScanConstants
<1>2. SC!Start(t) \in Nat /\ SC!End(t) = SC!Start(t) + EACH_SCAN_NUM
  BY <1>1 DEF SC!Start, SC!End
<1>3. SC!End(t) <= NUM_PROCESSES * EACH_SCAN_NUM
  BY <1>1, Multiples DEF SC!End
<1>4. ASSUME NEW u \in SC!Threads, u < t
      PROVE  SC!End(u) <= SC!Start(t)
  <2>1. u \in Nat
    BY ScanConstants
  <2>2. QED
    BY <1>1, <1>4, <2>1, Multiples DEF SC!End, SC!Start
<1>5. ASSUME t > 0
      PROVE  t - 1 \in SC!Threads /\ SC!End(t - 1) = SC!Start(t)
  <2>1. t - 1 \in SC!Threads
    BY <1>1, <1>5 DEF SC!Threads
  <2>2. (t - 1) * EACH_SCAN_NUM + EACH_SCAN_NUM = t * EACH_SCAN_NUM
    BY <1>1
  <2>3. QED
    BY <2>1, <2>2 DEF SC!Start, SC!End
<1>6. QED
  BY <1>1, <1>2, <1>3, <1>4, <1>5

\* A port before the last is in the range of one thread, and of the one
\* below when it is its first.
LEMMA Overlap ==
    ASSUME NEW t \in SC!Threads, NEW u \in SC!Threads,
           NEW p \in Nat, SC!Start(t) <= p, p < SC!End(t),
           SC!Start(u) <= p, p <= SC!End(u)
    PROVE  u = t \/ (t > 0 /\ u = t - 1 /\ p = SC!Start(t))
<1>1. t \in Nat /\ u \in Nat
  BY ScanConstants
<1>2. CASE u > t
  <2>1. SC!End(t) <= SC!Start(u) /\ SC!Start(u) \in Nat /\ SC!End(t) \in Nat
    BY <1>2, RangeOrder
  <2>2. QED
    BY <2>1
<1>3. CASE u < t
  <2>1. /\ SC!End(u) <= SC!Start(t) /\ SC!Start(t) \in Nat /\ SC!End(u) \in Nat
        /\ t - 1 \in SC!Threads /\ SC!End(t - 1) = SC!Start(t)
    BY <1>1, <1>3, RangeOrder
  <2>2. p = SC!Start(t) /\ p = SC!End(u)
    BY <2>1
  <2>3. CASE u < t - 1
    <3>1. /\ SC!End(u) <= SC!Start(t - 1)
          /\ SC!End(t - 1) = SC!Start(t - 1) + EACH_SCAN_NUM
          /\ SC!Start(t - 1) \in Nat
      BY <2>1, <2>3, RangeOrder
    <3>2. EACH_SCAN_NUM \in Nat /\ EACH_SCAN_NUM > 0
      BY ScanConstants
    <3>3. QED
      BY <2>1, <2>2, <3>1, <3>2
  <2>4. QED
    BY <1>1, <1>3, <2>2, <2>3
<1>4. QED
  BY <1>1, <1>2, <1>3

\* The last port is in the range of the last thread only.
LEMMA LastPort ==
    ASSUME NEW u \in SC!Threads, NEW t \in SC!Threads,
           t = NUM_PROCESSES - 1, SC!End(t) <= SC!End(u)
    PROVE  u = t
<1>1. t \in Nat /\ u \in Nat /\ u < NUM_PROCESSES /\ NUM_PROCESSES \in Nat
  BY ScanConstants
<1>2. CASE u < t
  <2>1. /\ SC!End(u) <= SC!Start(t) /\ SC!End(t) = SC!Start(t) + EACH_SCAN_NUM
        /\ SC!Start(t) \in Nat /\ SC!End(u) \in Nat
    BY <1>2, RangeOrder
  <2>2. EACH_SCAN_NUM \in Nat /\ EACH_SCAN_NUM > 0
    BY ScanConstants
  <2>3. QED
    BY <2>1, <2>2
<1>3. QED
  BY <1>1, <1>2

\* Every port but the last begins or is inside one range.
LEMMA Covered ==
    ASSUME NEW p \in SC!Ports
    PROVE  \/ p = NUM_PROCESSES * EACH_SCAN_NUM
           \/ \E t \in SC!Threads : SC!Start(t) <= p /\ p < SC!End(t)
<1> DEFINE q == p \div EACH_SCAN_NUM
<1>1. /\ NUM_PROCESSES \in Nat /\ EACH_SCAN_NUM \in Nat /\ EACH_SCAN_NUM > 0
  BY ScanConstants
<1>2. NUM_PROCESSES * EACH_SCAN_NUM \in Nat
  BY <1>1
<1>3. p \in Nat /\ p <= NUM_PROCESSES * EACH_SCAN_NUM
  BY <1>2 DEF SC!Ports
<1>4. q \in Nat /\ q * EACH_SCAN_NUM <= p
      /\ p < q * EACH_SCAN_NUM + EACH_SCAN_NUM
  BY <1>1, <1>3, Division
<1> HIDE DEF q
<1>5. CASE q < NUM_PROCESSES
  BY <1>1, <1>4, <1>5 DEF SC!Threads, SC!Start, SC!End
<1>6. CASE q = NUM_PROCESSES
  <2>1. NUM_PROCESSES * EACH_SCAN_NUM <= p
    BY <1>4, <1>6
  <2>2. QED
    BY <1>2, <1>3, <2>1
<1>7. CASE q > NUM_PROCESSES
  <2>1. NUM_PROCESSES * EACH_SCAN_NUM + EACH_SCAN_NUM <= q * EACH_SCAN_NUM
    BY <1>1, <1>4, <1>7, Multiples
  <2>2. q * EACH_SCAN_NUM \in Nat
    BY <1>1, <1>4
  <2>3. QED
    BY <1>1, <1>2, <1>3, <1>4, <2>1, <2>2
<1>8. QED
  BY <1>1, <1>4, <1>5, <1>6, <1>7

\* In the range of t, only its first port is a multiple.
LEMMA SeamIsStart ==
    ASSUME NEW t \in SC!Threads, NEW p \in Nat,
           SC!Start(t) <= p, p < SC!End(t)
    PROVE  p % EACH_SCAN_NUM = 0 <=> p = SC!Start(t)
<1> DEFINE q == p \div EACH_SCAN_NUM
<1>1. EACH_SCAN_NUM \in Nat /\ EACH_SCAN_NUM > 0 /\ t \in Nat
  BY ScanConstants
<1>2. /\ q \in Nat /\ q * EACH_SCAN_NUM <= p
      /\ p < q * EACH_SCAN_NUM + EACH_SCAN_NUM
      /\ p % EACH_SCAN_NUM = p - q * EACH_SCAN_NUM
  BY <1>1, Division
<1> HIDE DEF q
<1>3. q * EACH_SCAN_NUM \in Nat /\ t * EACH_SCAN_NUM \in Nat
  BY <1>1, <1>2
<1>4. t * EACH_SCAN_NUM <= p /\ p < t * EACH_SCAN_NUM + EACH_SCAN_NUM
  BY DEF SC!Start, SC!End
<1>5. ~(q < t)
  <2>1. SUFFICES ASSUME q < t PROVE FALSE
    OBVIOUS
  <2>2. q * EACH_SCAN_NUM + EACH_SCAN_NUM <= t * EACH_SCAN_NUM
    BY <1>1, <1>2, <2>1, Multiples
  <2>3. QED
    BY <1>1, <1>2, <1>3, <1>4, <2>2
<1>6. ~(t < q)
  <2>1. SUFFICES ASSUME t < q PROVE FALSE
    OBVIOUS
  <2>2. t * EACH_SCAN_NUM + EACH_SCAN_NUM <= q * EACH_SCAN_NUM
    BY <1>1, <1>2, <2>1, Multiples
  <2>3. QED
    BY <1>1, <1>2, <1>3, <1>4, <2>2
<1>7. q = t
  BY <1>1, <1>2, <1>5, <1>6
<1>8. QED
  BY <1>2, <1>3, <1>7 DEF SC!Start
-----------------------------------------------------------------------------
\* While no thread gets further, the counts stay right.
LEMMA CountsAside ==
    ASSUME Counted, sc_scans' = sc_scans,
           \A t \in SC!Threads : Upto(t)' = Upto(t)
    PROVE  Counted'
<1>1. ASSUME NEW t \in SC!Threads, NEW p \in SC!Ports
      PROVE  Times(t, p)' = Times(t, p)
  BY DEF Times, SC!Start
<1>2. ASSUME NEW t \in SC!Threads, NEW p \in SC!Ports
      PROVE  Below(t, p)' = Below(t, p)
  <2>1. t > 0 => t - 1 \in SC!Threads
    BY RangeOrder
  <2>2. QED
    BY <1>1, <2>1 DEF Below, SC!Start
<1>3. QED
  BY <1>1, <1>2 DEF Counted, SC!Start, SC!End

\* A thread tries its next port: the count of that port goes with it.
LEMMA CountsTry ==
    ASSUME ScanTypes, ScanRanges, Counted,
           NEW u \in SC!Threads, SC!Try(u)
    PROVE  Counted'
<1> DEFINE next == sc_port[u]
<1>1. /\ sc_thread[u] = "trying" /\ sc_thread'[u] = "scanning"
      /\ sc_port'[u] = next + 1 /\ next \in Nat
      /\ \A t \in SC!Threads : t # u =>
             sc_thread'[t] = sc_thread[t] /\ sc_port'[t] = sc_port[t]
      /\ \A p \in SC!Ports : 
             sc_scans'[p] = IF p = next THEN sc_scans[p] + 1 ELSE sc_scans[p]
  BY DEF ScanTypes, SC!Try
<1>2. SC!Start(u) <= next /\ next <= SC!End(u)
  BY <1>1 DEF ScanRanges
<1> HIDE DEF next
<1>3. Upto(u) = next /\ Upto(u)' = next + 1
  BY <1>1 DEF Upto, ScanTypes, next
<1>4. \A t \in SC!Threads : t # u => Upto(t)' = Upto(t)
  BY <1>1 DEF Upto, SC!Start
<1>5. ASSUME NEW t \in SC!Threads, NEW p \in SC!Ports
      PROVE  Times(t, p)' = IF t = u /\ p = next THEN Times(t, p) + 1
                            ELSE Times(t, p)
  <2>1. p \in Nat
    BY ScanConstants DEF SC!Ports
  <2>2. CASE t = u
    BY <1>1, <1>2, <1>3, <2>1, <2>2 DEF Times, SC!Start
  <2>3. CASE t # u
    BY <1>4, <2>3 DEF Times, SC!Start
  <2>4. QED
    BY <2>2, <2>3
<1>6. ASSUME NEW t \in SC!Threads, NEW p \in SC!Ports
      PROVE  Below(t, p)' = IF /\ t > 0 /\ u = t - 1
                               /\ p = SC!Start(t) /\ p = next
                            THEN Below(t, p) + 1 ELSE Below(t, p)
  <2>1. t > 0 => t - 1 \in SC!Threads
    BY RangeOrder
  <2>2. Below(t, p)' = IF t > 0 /\ p = SC!Start(t) THEN Times(t - 1, p)' ELSE 0
    BY DEF Below, SC!Start
  <2>3. QED
    BY <1>5, <2>1, <2>2 DEF Below
<1>7. \A t \in SC!Threads, p \in SC!Ports :
          Times(t, p) \in Nat /\ Below(t, p) \in Nat
  BY DEF Times, Below
<1>8. ASSUME NEW t \in SC!Threads, NEW p \in SC!Ports,
             SC!Start(t) <= p, p < SC!End(t)
      PROVE  sc_scans'[p] = Times(t, p)' + Below(t, p)'
  <2>1. sc_scans[p] = Times(t, p) + Below(t, p)
    BY <1>8 DEF Counted
  <2>2. CASE p # next
    BY <1>1, <1>5, <1>6, <2>1, <2>2
  <2>3. CASE p = next
    <3>1. t \in Nat /\ t # t - 1
      BY ScanConstants
    <3>2. u = t \/ (t > 0 /\ u = t - 1 /\ p = SC!Start(t))
      BY <1>1, <1>2, <1>8, <2>3, Overlap
    <3>3. CASE u = t
      BY <1>1, <1>5, <1>6, <1>7, <2>1, <2>3, <3>1, <3>3
    <3>4. CASE t > 0 /\ u = t - 1 /\ p = SC!Start(t)
      BY <1>1, <1>5, <1>6, <1>7, <2>1, <2>3, <3>1, <3>4
    <3>5. QED
      BY <3>2, <3>3, <3>4
  <2>4. QED
    BY <2>2, <2>3
<1>9. ASSUME NEW t \in SC!Threads, NEW p \in SC!Ports,
             t = NUM_PROCESSES - 1, p = SC!End(t)
      PROVE  sc_scans'[p] = Times(t, p)'
  <2>1. sc_scans[p] = Times(t, p)
    BY <1>9 DEF Counted
  <2>2. CASE p # next
    BY <1>1, <1>5, <2>1, <2>2
  <2>3. CASE p = next
    <3>1. u = t
      BY <1>2, <1>9, <2>3, LastPort
    <3>2. QED
      BY <1>1, <1>5, <2>1, <2>3, <3>1
  <2>4. QED
    BY <2>2, <2>3
<1>10. QED
  BY <1>8, <1>9 DEF Counted, SC!Start, SC!End

-----------------------------------------------------------------------------
LEMMA ScanInitInv ==
    ASSUME SC!Init
    PROVE  ScanInv
<1>1. ScanTypes
  BY ScanConstants DEF SC!Init, ScanTypes, ScanStates
<1>2. NotYetCreated /\ NoStaleRead /\ ScanRanges
  BY DEF SC!Init, NotYetCreated, NoStaleRead, ScanRanges
<1>3. OnTime
  BY DEF SC!Init, OnTime
<1>4. ASSUME NEW t \in SC!Threads
      PROVE  Upto(t) = SC!Start(t) /\ SC!Start(t) \in Nat
  BY RangeOrder DEF SC!Init, Upto
<1>5. ASSUME NEW t \in SC!Threads, NEW p \in SC!Ports
      PROVE  Times(t, p) = 0
  <2>1. p \in Nat
    BY ScanConstants DEF SC!Ports
  <2>2. QED
    BY <1>4, <2>1 DEF Times
<1>6. Counted
  <2>1. ASSUME NEW t \in SC!Threads, NEW p \in SC!Ports
        PROVE  Below(t, p) = 0 /\ sc_scans[p] = 0
    BY <1>5, RangeOrder DEF Below, SC!Init
  <2>2. QED
    BY <1>5, <2>1 DEF Counted
<1>7. QED
  BY <1>1, <1>2, <1>3, <1>6 DEF ScanInv

\* main's steps: no thread gets further by them.
LEMMA ScanMainInv ==
    ASSUME ScanInv, SC!MainStep
    PROVE  ScanInv'
<1>1. CASE SC!CreateThread
  <2>1. /\ sc_main = "creating" /\ sc_created \in Nat
        /\ sc_created < NUM_PROCESSES
        /\ sc_created' = sc_created + 1 /\ NUM_PROCESSES \in Nat
        /\ sc_created \in SC!Threads
        /\ sc_thread' = [sc_thread EXCEPT ![sc_created] = "created"]
        /\ UNCHANGED <<sc_main, sc_port, sc_pend, sc_scans, sc_trouble>>
    BY <1>1, ScanConstants DEF SC!CreateThread, ScanInv, ScanTypes, SC!Threads
  <2>2. ScanTypes'
    BY <2>1 DEF ScanInv, ScanTypes, ScanStates
  <2>3. NotYetCreated'
    BY <2>1, ScanConstants DEF ScanInv, ScanTypes, NotYetCreated
  <2>4. OnTime' /\ NoStaleRead'
    BY <2>1 DEF ScanInv, OnTime, NoStaleRead
  <2>5. sc_thread[sc_created] = "none"
    BY <2>1 DEF ScanInv, NotYetCreated
  <2>6. ASSUME "stale_read" \notin sc_trouble'
        PROVE  ScanRanges' /\ Counted'
    <3>1. ScanRanges /\ Counted
      BY <2>1, <2>6 DEF ScanInv
    <3>2. ScanRanges'
      BY <2>1, <3>1 DEF ScanInv, ScanTypes, ScanRanges, SC!Start, SC!End
    <3>3. \A t \in SC!Threads : Upto(t)' = Upto(t)
      BY <2>1, <2>5 DEF ScanInv, ScanTypes, Upto, SC!Start
    <3>4. QED
      BY <2>1, <3>1, <3>2, <3>3, CountsAside
  <2>7. QED
    BY <2>2, <2>3, <2>4, <2>6 DEF ScanInv
<1>2. CASE SC!CreateFails \/ SC!Wait \/ SC!CleanUp \/ SC!Return
  <2>1. UNCHANGED <<sc_created, sc_thread, sc_port, sc_pend, sc_scans>>
    BY <1>2 DEF SC!CreateFails, SC!Wait, SC!CleanUp, SC!Return
  <2>2. ScanTypes' /\ NotYetCreated'
    BY <1>2, <2>1 DEF ScanInv, ScanTypes, NotYetCreated, SC!CreateFails,
         SC!Wait, SC!CleanUp, SC!Return
  <2>3. OnTime' /\ NoStaleRead'
    BY <1>2 DEF ScanInv, OnTime, NoStaleRead, SC!AllDone, SC!CreateFails,
         SC!Wait, SC!CleanUp, SC!Return
  <2>4. ASSUME "stale_read" \notin sc_trouble'
        PROVE  ScanRanges' /\ Counted'
    <3>1. ScanRanges /\ Counted
      BY <1>2, <2>4 DEF ScanInv, SC!CreateFails, SC!Wait, SC!CleanUp, SC!Return
    <3>2. ScanRanges'
      BY <2>1, <3>1 DEF ScanRanges, SC!Start, SC!End
    <3>3. \A t \in SC!Threads : Upto(t)' = Upto(t)
      BY <2>1 DEF Upto, SC!Start
    <3>4. QED
      BY <2>1, <3>1, <3>2, <3>3, CountsAside
  <2>5. QED
    BY <2>2, <2>3, <2>4 DEF ScanInv
<1>3. QED
  BY <1>1, <1>2 DEF SC!MainStep

\* A thread's steps.
LEMMA ScanThreadInv ==
    ASSUME ScanInv, NEW u \in SC!Threads, SC!ThreadStep(u)
    PROVE  ScanInv'
<1>1. /\ sc_created' = sc_created
      /\ sc_thread[u] \in {"created", "scanning", "trying"}
      /\ sc_main # "ended"
      /\ sc_thread' \in [SC!Threads -> ScanStates]
      /\ \A t \in SC!Threads : t # u => sc_thread'[t] = sc_thread[t]
      /\ sc_thread'[u] # "none"
  BY DEF ScanInv, ScanTypes, SC!ThreadStep, SC!ReadRange, SC!ReadDeadFrame,
       SC!OpenSocket, SC!NoSocket, SC!Try, SC!Finish, ScanStates
<1>2. ScanTypes'
  <2>1. CASE SC!ReadRange(u)
    <3>1. SC!Start(u) \in Nat /\ SC!End(u) \in Nat
      BY RangeOrder
    <3>2. QED
      BY <1>1, <2>1, <3>1 DEF ScanInv, ScanTypes, SC!ReadRange
  <2>2. CASE SC!ReadDeadFrame(u)
    <3>1. sc_port' \in [SC!Threads -> Nat] /\ sc_pend' \in [SC!Threads -> Nat]
      BY <2>2, ScanConstants DEF ScanInv, ScanTypes, SC!ReadDeadFrame
    <3>2. QED
      BY <1>1, <2>2, <3>1 DEF ScanInv, ScanTypes, SC!ReadDeadFrame
  <2>3. CASE SC!OpenSocket(u) \/ SC!NoSocket(u) \/ SC!Finish(u)
    BY <1>1, <2>3 DEF ScanInv, ScanTypes, SC!OpenSocket, SC!NoSocket, SC!Finish
  <2>4. CASE SC!Try(u)
    <3>1. sc_port' \in [SC!Threads -> Nat]
      BY <2>4 DEF ScanInv, ScanTypes, SC!Try
    <3>2. sc_scans' \in [SC!Ports -> Nat]
      <4> DEFINE next == sc_port[u]
      <4>1. sc_scans' = [sc_scans EXCEPT ![next] = sc_scans[next] + 1]
        BY <2>4 DEF SC!Try
      <4>2. sc_scans \in [SC!Ports -> Nat]
        BY DEF ScanInv, ScanTypes
      <4> HIDE DEF next
      <4>3. next \in SC!Ports => sc_scans[next] + 1 \in Nat
        BY <4>2
      <4>4. QED
        BY <4>1, <4>2, <4>3
    <3>3. QED
      BY <1>1, <2>4, <3>1, <3>2 DEF ScanInv, ScanTypes, SC!Try
  <2>5. QED
    BY <2>1, <2>2, <2>3, <2>4 DEF SC!ThreadStep
<1>3. NotYetCreated'
  BY <1>1 DEF ScanInv, NotYetCreated
<1>4. ~SC!AllDone
  BY <1>1 DEF SC!AllDone
<1>5. OnTime' /\ NoStaleRead'
  <2>1. CASE SC!ReadDeadFrame(u)
    <3>1. sc_main \in {"returned", "cleaned"} /\ sc_main' = sc_main
          /\ sc_trouble' = sc_trouble \cup {"stale_read"}
      BY <2>1 DEF SC!ReadDeadFrame, SC!FrameAlive, ScanInv, ScanTypes
    <3>2. "create_failed" \in sc_trouble
      BY <1>4, <3>1 DEF ScanInv, OnTime
    <3>3. QED
      BY <3>1, <3>2 DEF OnTime, NoStaleRead
  <2>2. CASE SC!NoSocket(u)
    BY <2>2 DEF ScanInv, OnTime, NoStaleRead, SC!NoSocket
  <2>3. CASE SC!ReadRange(u) \/ SC!OpenSocket(u) \/ SC!Try(u) \/ SC!Finish(u)
    <3>1. sc_main' = sc_main /\ sc_trouble' = sc_trouble
      BY <2>3 DEF SC!ReadRange, SC!OpenSocket, SC!Try, SC!Finish
    <3>2. QED
      BY <1>1, <1>4, <3>1 DEF ScanInv, OnTime, NoStaleRead
  <2>4. QED
    BY <2>1, <2>2, <2>3 DEF SC!ThreadStep
<1>6. ASSUME "stale_read" \notin sc_trouble'
      PROVE  ScanRanges' /\ Counted'
  <2>1. "stale_read" \notin sc_trouble
    BY <1>6 DEF SC!ThreadStep, SC!ReadRange, SC!ReadDeadFrame, SC!OpenSocket,
         SC!NoSocket, SC!Try, SC!Finish
  <2>2. ScanRanges /\ Counted /\ ScanTypes
    BY <2>1 DEF ScanInv
  <2>3. SC!Start(u) \in Nat /\ SC!End(u) \in Nat /\ SC!Start(u) <= SC!End(u)
    BY RangeOrder, ScanConstants
  <2>4. CASE SC!ReadRange(u)
    <3>1. ScanRanges'
      BY <2>2, <2>3, <2>4 DEF ScanTypes, ScanRanges, SC!ReadRange, SC!Start,
           SC!End
    <3>2. \A t \in SC!Threads : Upto(t)' = Upto(t)
      BY <2>2, <2>4 DEF ScanTypes, Upto, SC!ReadRange, SC!Start
    <3>3. sc_scans' = sc_scans
      BY <2>4 DEF SC!ReadRange
    <3>4. QED
      BY <2>2, <3>1, <3>2, <3>3, CountsAside
  <2>5. CASE SC!ReadDeadFrame(u)
    BY <1>6, <2>5 DEF SC!ReadDeadFrame
  <2>6. CASE SC!OpenSocket(u)
    <3>1. sc_port[u] <= SC!End(u)
      BY <2>2, <2>6 DEF ScanRanges, SC!OpenSocket, SC!InRange
    <3>2. ScanRanges'
      BY <2>2, <2>6, <3>1 DEF ScanTypes, ScanRanges, SC!OpenSocket, SC!Start,
           SC!End
    <3>3. \A t \in SC!Threads : Upto(t)' = Upto(t)
      BY <2>2, <2>6 DEF ScanTypes, Upto, SC!OpenSocket, SC!Start
    <3>4. sc_scans' = sc_scans
      BY <2>6 DEF SC!OpenSocket
    <3>5. QED
      BY <2>2, <3>2, <3>3, <3>4, CountsAside
  <2>7. CASE SC!NoSocket(u)
    <3>1. ScanRanges'
      BY <2>2, <2>7 DEF ScanRanges, SC!NoSocket, SC!Start, SC!End
    <3>2. sc_scans' = sc_scans /\ \A t \in SC!Threads : Upto(t)' = Upto(t)
      BY <2>7 DEF SC!NoSocket, Upto, SC!Start
    <3>3. QED
      BY <2>2, <3>1, <3>2, CountsAside
  <2>8. CASE SC!Try(u)
    <3>1. SC!Start(u) <= sc_port[u] /\ sc_port[u] <= SC!End(u)
          /\ sc_pend[u] = SC!End(u)
          /\ sc_port[u] \in Nat
      BY <2>2, <2>8 DEF ScanTypes, ScanRanges, SC!Try
    <3>2. SC!Start(u) <= sc_port[u] + 1 /\ sc_port[u] + 1 <= SC!End(u) + 1
      BY <2>3, <3>1
    <3>3. ScanRanges'
      BY <2>2, <2>8, <3>1, <3>2 DEF ScanTypes, ScanRanges, SC!Try, SC!Start,
           SC!End
    <3>4. QED
      BY <2>2, <2>8, <3>3, CountsTry
  <2>9. CASE SC!Finish(u)
    <3>1. sc_port[u] = SC!End(u) + 1
      <4>1. /\ sc_pend[u] = SC!End(u) /\ sc_port[u] <= SC!End(u) + 1
            /\ sc_port[u] \in Nat /\ ~(sc_port[u] <= sc_pend[u])
        BY <2>2, <2>9 DEF ScanTypes, ScanRanges, SC!Finish, SC!InRange
      <4>2. QED
        BY <2>3, <4>1
    <3>2. ScanRanges'
      BY <2>2, <2>9, <3>1 DEF ScanTypes, ScanRanges, SC!Finish, SC!Start,
           SC!End
    <3>3. \A t \in SC!Threads : Upto(t)' = Upto(t)
      BY <2>2, <2>9 DEF ScanTypes, Upto, SC!Finish, SC!Start
    <3>4. sc_scans' = sc_scans
      BY <2>9 DEF SC!Finish
    <3>5. QED
      BY <2>2, <3>2, <3>3, <3>4, CountsAside
  <2>10. QED
    BY <2>4, <2>5, <2>6, <2>7, <2>8, <2>9 DEF SC!ThreadStep
<1>7. QED
  BY <1>2, <1>3, <1>5, <1>6 DEF ScanInv

LEMMA ScanStepInv ==
    ASSUME ScanInv, [SC!Next]_(SC!vars)
    PROVE  ScanInv'
<1>1. CASE UNCHANGED SC!vars
  <2>1. ScanTypes' /\ NotYetCreated' /\ OnTime' /\ NoStaleRead'
    BY <1>1 DEF SC!vars, ScanInv, ScanTypes, NotYetCreated, OnTime,
         NoStaleRead, SC!AllDone
  <2>2. ScanRanges => ScanRanges'
    BY <1>1 DEF SC!vars, ScanRanges, SC!Start, SC!End
  <2>3. \A t \in SC!Threads : Upto(t)' = Upto(t)
    BY <1>1 DEF SC!vars, Upto, SC!Start
  <2>4. sc_trouble' = sc_trouble /\ sc_scans' = sc_scans
    BY <1>1 DEF SC!vars
  <2>5. QED
    BY <2>1, <2>2, <2>3, <2>4, CountsAside DEF ScanInv
<1>2. QED
  BY <1>1, ScanMainInv, ScanThreadInv DEF SC!Next

LEMMA ScanInvariance == Spec => []ScanInv
<1>1. Init => ScanInv
  BY ScanInitInv DEF Init
<1>2. ScanInv /\ [Next]_vars => ScanInv'
  BY OneProgram, ScanStepInv
<1>3. QED
  BY <1>1, <1>2, PTL DEF Spec

-----------------------------------------------------------------------------
\* How often a scan that ended without trouble has tried a port.
LEMMA TriesOfPort ==
    ASSUME ScanInv, sc_main = "ended", sc_trouble = {},
           NEW p \in SC!Ports
    PROVE  sc_scans[p] = IF p \in SC!Seams THEN 2 ELSE 1
<1> DEFINE last == NUM_PROCESSES * EACH_SCAN_NUM
<1>1. ScanRanges /\ Counted /\ SC!AllDone
  BY DEF ScanInv, OnTime
<1>2. ASSUME NEW t \in SC!Threads, SC!Start(t) <= p, p <= SC!End(t)
      PROVE  Times(t, p) = 1
  <2>1. Upto(t) = SC!End(t) + 1
    BY <1>1 DEF SC!AllDone, ScanRanges, Upto
  <2>2. p \in Nat /\ SC!End(t) \in Nat
    BY ScanConstants, RangeOrder DEF SC!Ports
  <2>3. QED
    BY <1>2, <2>1, <2>2 DEF Times
<1>3. /\ p \in Nat /\ last \in Nat /\ last > 0
      /\ NUM_PROCESSES \in Nat /\ NUM_PROCESSES > 0
      /\ EACH_SCAN_NUM \in Nat /\ EACH_SCAN_NUM > 0
  <2>1. /\ NUM_PROCESSES \in Nat /\ NUM_PROCESSES > 0
        /\ EACH_SCAN_NUM \in Nat /\ EACH_SCAN_NUM > 0
    BY ScanConstants
  <2>2. last \in Nat /\ last > 0
    BY <2>1
  <2>3. QED
    BY <2>1, <2>2 DEF SC!Ports
<1>4. CASE p = last
  <2> DEFINE t == NUM_PROCESSES - 1
  <2>1. t \in SC!Threads /\ SC!End(t) = last
    <3>1. t \in SC!Threads
      BY <1>3 DEF SC!Threads
    <3>2. (NUM_PROCESSES - 1) * EACH_SCAN_NUM + EACH_SCAN_NUM
              = NUM_PROCESSES * EACH_SCAN_NUM
      BY <1>3
    <3>3. QED
      BY <3>1, <3>2 DEF SC!End
  <2>2. SC!Start(t) <= p
    BY <1>3, <1>4, <2>1, RangeOrder
  <2>3. sc_scans[p] = Times(t, p)
    BY <1>1, <1>4, <2>1 DEF Counted
  <2>4. p <= SC!End(t)
    BY <1>3, <1>4, <2>1
  <2>5. Times(t, p) = 1
    BY <1>2, <2>1, <2>2, <2>4
  <2>6. p \notin SC!Seams
    BY <1>4 DEF SC!Seams
  <2>7. QED
    BY <2>3, <2>5, <2>6
<1>5. CASE p # last
  <2>1. PICK t \in SC!Threads : SC!Start(t) <= p /\ p < SC!End(t)
    BY <1>5, Covered
  <2>2. /\ SC!Start(t) \in Nat /\ SC!End(t) \in Nat /\ SC!End(t) <= last
        /\ SC!End(t) = SC!Start(t) + EACH_SCAN_NUM
        /\ t > 0 => t - 1 \in SC!Threads /\ SC!End(t - 1) = SC!Start(t)
        /\ t > 0 => SC!End(t - 1) = SC!Start(t - 1) + EACH_SCAN_NUM
        /\ t > 0 => SC!Start(t - 1) \in Nat
    BY RangeOrder
  <2>3. sc_scans[p] = 1 + Below(t, p)
    <3>1. Times(t, p) = 1
      BY <1>2, <1>3, <2>1, <2>2
    <3>2. QED
      BY <1>1, <2>1, <3>1 DEF Counted
  <2>4. p \in SC!Seams <=> p = SC!Start(t) /\ p # 0
    BY <1>3, <1>5, <2>1, SeamIsStart DEF SC!Seams
  <2>5. p = SC!Start(t) /\ p # 0 <=> p = SC!Start(t) /\ t > 0
    <3>1. t \in Nat
      BY ScanConstants
    <3>2. t = 0 => SC!Start(t) = 0
      BY <1>3 DEF SC!Start
    <3>3. t > 0 => SC!Start(t) > 0
      BY <1>3, <2>2
    <3>4. QED
      BY <3>1, <3>2, <3>3
  <2>6. Below(t, p) = IF p = SC!Start(t) /\ t > 0 THEN 1 ELSE 0
    <3>1. ASSUME t > 0, p = SC!Start(t)
          PROVE  Times(t - 1, p) = 1
      <4>1. t - 1 \in SC!Threads /\ SC!Start(t - 1) <= p
            /\ p <= SC!End(t - 1)
        BY <1>3, <2>2, <3>1
      <4>2. QED
        BY <1>2, <4>1
    <3>2. QED
      BY <3>1 DEF Below
  <2>7. QED
    BY <2>3, <2>4, <2>5, <2>6
<1>6. QED
  BY <1>4, <1>5

\* For every number of threads and length of a range, and any two ports for
\* its start and end: a scan that ended without trouble has tried every port
\* from the one to the other, and no port more than once but those between two
\* ranges.
THEOREM Scanned == Spec => []ScanComplete
<1>1. ScanInv => ScanComplete
  <2> SUFFICES ASSUME ScanInv, sc_main = "ended", sc_trouble = {}
               PROVE  /\ \A p \in START_PORT .. END_PORT : sc_scans[p] >= 1
                      /\ \A p \in SC!Ports :
                           sc_scans[p] <= IF p \in SC!Seams THEN 2 ELSE 1
    BY DEF ScanComplete, SC!ScanComplete
  <2>1. \A p \in SC!Ports : sc_scans[p] = IF p \in SC!Seams THEN 2 ELSE 1
    BY TriesOfPort
  <2>2. START_PORT .. END_PORT \subseteq SC!Ports
    <3>1. {START_PORT, END_PORT} \subseteq SC!Ports
      BY ProgramsAssumption
         DEF ProgramsAssumption, SC!PortScanAssumption, SC!Ports
    <3>2. NUM_PROCESSES * EACH_SCAN_NUM \in Nat
      BY ScanConstants
    <3>3. QED
      BY <3>1, <3>2 DEF SC!Ports
  <2>3. QED
    BY <2>1, <2>2
<1>2. QED
  BY <1>1, ScanInvariance, PTL

\* For every number of threads: none reads a range from a dead frame, or is
\* still at work after the call, unless a thread could not be created.
THEOREM Outlived == Spec => []NothingOutlivesTheCall
<1>1. ScanInv => NothingOutlivesTheCall
  BY DEF ScanInv, ScanTypes, OnTime, NoStaleRead, NothingOutlivesTheCall,
       SC!NothingOutlivesTheCall, SC!FrameAlive, SC!AllDone
<1>2. QED
  BY <1>1, ScanInvariance, PTL

-----------------------------------------------------------------------------
(***************************************************************************)
(* The echo request                                                        *)
(***************************************************************************)
IcmpBytes == 0 .. BYTE - 1
W == BYTE * BYTE

\* What each byte adds to a sum of words, if the low byte of a word comes
\* first, and if the high byte does.
LowFirst(p) ==
    [k \in 1 .. Len(p) |-> IF k % 2 = 1 THEN p[k] ELSE BYTE * p[k]]

HighFirst(p) ==
    [k \in 1 .. Len(p) |-> IF k % 2 = 1 THEN BYTE * p[k] ELSE p[k]]

LEMMA WordFacts ==
    /\ BYTE \in Nat /\ BYTE > 8 /\ IC!WORD = W
    /\ W \in Nat \ {0} /\ W - 1 \in Nat \ {0} /\ W > BYTE /\ W > 8
    /\ \A b \in IcmpBytes : b \in Nat /\ BYTE * b \in 0 .. W - 1
                            /\ b \in 0 .. W - 1
<1>1. BYTE \in Nat /\ BYTE > 8 /\ IC!WORD = W
  BY ProgramsAssumption
     DEF ProgramsAssumption, IC!IcmpChecksumAssumption, IC!WORD, W
<1>2. W = 8 * BYTE + (BYTE - 8) * BYTE
  BY <1>1, SMTT(30) DEF W
<1>3. (BYTE - 8) * BYTE >= 0 /\ (BYTE - 8) * BYTE \in Int
  <2>1. BYTE - 8 \in Nat
    BY <1>1
  <2>2. QED
    BY <1>1, <2>1, SMTT(30)
<1>4. W \in Nat /\ W > BYTE /\ W > 8
  BY <1>1, <1>2, <1>3
<1>5. ASSUME NEW b \in IcmpBytes
      PROVE  b \in Nat /\ BYTE * b \in 0 .. W - 1 /\ b \in 0 .. W - 1
  <2>1. b \in Nat /\ b <= BYTE - 1
    BY <1>1 DEF IcmpBytes
  <2>2. BYTE * (BYTE - b) >= BYTE
    BY <1>1, <2>1, ProductGrows
  <2>3. BYTE * (BYTE - b) = W - BYTE * b
    BY <1>1, <2>1, SMTT(30) DEF W
  <2>4. BYTE * b \in Nat
    BY <1>1, <2>1, SMTT(30)
  <2>5. QED
    BY <1>1, <1>4, <2>1, <2>2, <2>3, <2>4
<1>6. QED
  BY <1>1, <1>4, <1>5

LEMMA Terms ==
    ASSUME NEW p \in Seq(IcmpBytes)
    PROVE  /\ Len(p) \in Nat
           /\ \A k \in 1 .. Len(p) :
                  /\ p[k] \in IcmpBytes
                  /\ LowFirst(p)[k] \in 0 .. W - 1
                  /\ LowFirst(p)[k] \in Nat
                  /\ HighFirst(p)[k] \in Nat
<1>1. Len(p) \in Nat /\ \A k \in 1 .. Len(p) : p[k] \in IcmpBytes
  BY LenProperties, ElementOfSeq
<1>2. QED
  BY <1>1, WordFacts DEF LowFirst, HighFirst

\* Two words are room enough for a sum below W * W.
LEMMA NoOverflow ==
    ASSUME NEW s \in Nat, s < W * W
    PROVE  (s % (W * W)) = s
<1>1. W * W \in Nat \ {0}
  <2>1. W \in Nat /\ W > 8
    BY WordFacts
  <2> HIDE DEF W
  <2>2. W * W \in Int
    BY <2>1
  <2>3. QED
    BY <2>2
<1> DEFINE V == W * W
<1> HIDE DEF V
<1>2. s \in 0 .. V - 1 /\ V \in Nat \ {0}
  BY <1>1 DEF V
<1>3. V * 0 + s = s
  BY <1>2
<1>4. ((V * 0 + s) % V) = s
  BY <1>2, Remainder
<1>5. QED
  BY <1>3, <1>4 DEF V

\* The bytes of a word that has c in it.
LEMMA WordOfBytes ==
    ASSUME NEW c \in 0 .. W - 1
    PROVE  /\ (c % BYTE) \in IcmpBytes /\ (c \div BYTE) \in IcmpBytes
           /\ (c % BYTE) + BYTE * (c \div BYTE) = c
<1>1. /\ BYTE \in Nat \ {0} /\ c \in Int /\ c < W /\ c >= 0
  BY WordFacts
<1> DEFINE q == c \div BYTE
           r == c % BYTE
<1>2. c = BYTE * q + r /\ r \in 0 .. BYTE - 1 /\ q \in Int
  BY <1>1, DivMod
<1> HIDE DEF q, r
<1>3. ~ (q >= BYTE)
  <2> SUFFICES ASSUME q >= BYTE PROVE FALSE
    OBVIOUS
  <2>1. BYTE * q = W + BYTE * (q - BYTE)
    BY <1>1, <1>2, SMTT(30) DEF W
  <2>2. BYTE * (q - BYTE) >= 0 /\ BYTE * (q - BYTE) \in Int
    <3>1. q - BYTE \in Nat
      BY <1>1, <1>2
    <3>2. QED
      BY <1>1, <3>1, SMTT(30)
  <2>3. QED
    BY <1>1, <1>2, <2>1, <2>2, WordFacts
<1>4. q >= 0
  <2> SUFFICES ASSUME q <= -1 PROVE FALSE
    BY <1>2
  <2>1. BYTE * (-q) >= BYTE
    BY <1>1, <1>2, ProductGrows
  <2>2. BYTE * (-q) = - (BYTE * q) /\ BYTE * q \in Int
    BY <1>1, <1>2, SMTT(30)
  <2>3. QED
    BY <1>1, <1>2, <2>1, <2>2
<1>5. q \in IcmpBytes /\ r \in IcmpBytes /\ r + BYTE * q = c
  <2>1. BYTE * q \in Int
    BY <1>1, <1>2
  <2>2. QED
    BY <1>1, <1>2, <1>3, <1>4, <2>1 DEF IcmpBytes
<1>6. QED
  BY <1>5 DEF q, r

\* With the bytes of each word exchanged a sum is BYTE times what it was, but
\* for multiples of W - 1.
LEMMA ByteOrder ==
    ASSUME NEW p \in Seq(IcmpBytes),
           NEW g, Summed(g, Len(p), LowFirst(p)),
           NEW h, Summed(h, Len(p), HighFirst(p))
    PROVE  \E e \in Nat : h[Len(p)] + (W - 1) * e = BYTE * g[Len(p)]
<1> DEFINE n == Len(p)
           T == {k \in Nat : k <= n =>
                    \E e \in Nat : h[k] + (W - 1) * e = BYTE * g[k]}
<1>1. n \in Nat /\ \A k \in 1 .. n : p[k] \in IcmpBytes
  BY Terms
<1>2. 0 \in T
  <2>1. h[0] + (W - 1) * 0 = BYTE * g[0]
    BY WordFacts DEF Summed
  <2>2. QED
    BY <2>1
<1>3. ASSUME NEW k \in T
      PROVE  k + 1 \in T
  <2>1. SUFFICES ASSUME k + 1 <= n
                 PROVE  \E e \in Nat :
                            h[k + 1] + (W - 1) * e = BYTE * g[k + 1]
    OBVIOUS
  <2>2. /\ k + 1 \in 1 .. n /\ (k + 1) - 1 = k /\ k \in 0 .. n /\ k <= n
        /\ k \in Nat
    BY <1>1, <2>1
  <2>3. PICK e \in Nat : h[k] + (W - 1) * e = BYTE * g[k]
    BY <2>2
  <2> DEFINE b == p[k + 1]
             x == g[k]
             y == h[k]
             M == W - 1
  <2>4. /\ b \in Nat /\ x \in Nat /\ y \in Nat /\ M \in Nat /\ BYTE \in Nat
        /\ W = M + 1
    BY <1>1, <2>2, WordFacts DEF Summed
  <2>5. /\ g[k + 1] = x + (IF (k + 1) % 2 = 1 THEN b ELSE BYTE * b)
        /\ h[k + 1] = y + (IF (k + 1) % 2 = 1 THEN BYTE * b ELSE b)
    <3>1. /\ g[k + 1] = g[k] + LowFirst(p)[k + 1]
          /\ h[k + 1] = h[k] + HighFirst(p)[k + 1]
      BY <2>2 DEF Summed
    <3>2. QED
      BY <2>2, <3>1 DEF LowFirst, HighFirst
  <2>6. y + M * e = BYTE * x
    BY <2>3
  <2> HIDE DEF b, x, y, M
  <2>7. /\ M * e \in Int /\ BYTE * x \in Int /\ BYTE * b \in Int
        /\ BYTE * (x + b) = BYTE * x + BYTE * b
    BY <2>4, SMTT(30)
  <2>8. CASE (k + 1) % 2 = 1
    <3>1. (y + BYTE * b) + M * e = BYTE * (x + b)
      BY <2>4, <2>6, <2>7
    <3>2. QED
      BY <2>5, <2>8, <3>1 DEF M
  <2>9. CASE (k + 1) % 2 # 1
    <3>1. /\ BYTE * (x + BYTE * b) = BYTE * x + W * b
          /\ W * b = M * b + b
          /\ M * (e + b) = M * e + M * b
          /\ M * b \in Int /\ W * b \in Int
      <4>1. BYTE * (x + BYTE * b) = BYTE * x + BYTE * (BYTE * b)
        BY <2>4, <2>7, SMTT(30)
      <4>2. BYTE * (BYTE * b) = W * b
        BY <2>4, SMTT(30) DEF W
      <4>3. W * b = M * b + b
        BY <2>4, SMTT(30)
      <4>4. M * (e + b) = M * e + M * b
        BY <2>4, SMTT(30)
      <4>5. M * b \in Int /\ W * b \in Int
        BY <2>4
      <4>6. QED
        BY <4>1, <4>2, <4>3, <4>4, <4>5
    <3>2. (y + b) + M * (e + b) = BYTE * (x + BYTE * b)
      BY <2>4, <2>6, <2>7, <3>1
    <3>3. e + b \in Nat
      BY <2>4
    <3>4. QED
      BY <2>5, <2>9, <3>2, <3>3 DEF M
  <2>10. QED
    BY <2>8, <2>9
<1> HIDE DEF T
<1>4. T \in SUBSET Nat
  BY DEF T
<1>5. n \in T
  BY <1>1, <1>2, <1>3, <1>4, Climb
<1>6. QED
  BY <1>1, <1>5 DEF T

\* A checksum that is stored where there were zeros is added to the sum.
Stored(c, p, q) == q = [p EXCEPT ![3] = c % BYTE, ![4] = c \div BYTE]

LEMMA ChecksumAdded ==
    ASSUME NEW p \in Seq(IcmpBytes), Len(p) >= 8, p[3] = 0, p[4] = 0,
           NEW c \in 0 .. W - 1,
           NEW q, Stored(c, p, q),
           NEW g, Summed(g, Len(p), LowFirst(p)),
           NEW f, Summed(f, Len(p), LowFirst(q))
    PROVE  f[Len(p)] = g[Len(p)] + c
<1> DEFINE n == Len(p)
           T == {k \in Nat : 4 + k <= n => f[4 + k] = g[4 + k] + c}
<1>1. n \in Nat /\ n >= 8 /\ \A k \in 1 .. n : p[k] \in IcmpBytes
  BY Terms
<1>2. /\ Len(q) = n /\ q[3] = c % BYTE /\ q[4] = c \div BYTE
      /\ \A k \in 1 .. n : k \notin {3, 4} => q[k] = p[k]
  BY <1>1 DEF Stored
<1>3. \A k \in 1 .. n :
          /\ g[k] = g[k - 1] + (IF k % 2 = 1 THEN p[k] ELSE BYTE * p[k])
          /\ f[k] = f[k - 1] + (IF k % 2 = 1 THEN q[k] ELSE BYTE * q[k])
  BY <1>2 DEF Summed, LowFirst
<1>4. /\ g[0] = 0 /\ f[0] = 0
      /\ \A k \in 0 .. n : g[k] \in Nat /\ f[k] \in Nat
  BY DEF Summed
<1>5. f[1] = g[1] /\ f[2] = g[2]
  <2>1. 1 \in 1 .. n /\ 2 \in 1 .. n /\ 1 - 1 = 0 /\ 2 - 1 = 1
    BY <1>1
  <2>2. q[1] = p[1] /\ q[2] = p[2]
    BY <1>2, <2>1
  <2>3. f[1] = g[1]
    BY <1>3, <1>4, <2>1, <2>2
  <2>4. QED
    BY <1>3, <2>1, <2>2, <2>3
<1>6. f[4] = g[4] + c
  <2>1. /\ 3 \in 1 .. n /\ 4 \in 1 .. n /\ 3 - 1 = 2 /\ 4 - 1 = 3
        /\ 3 % 2 = 1 /\ 4 % 2 # 1
    BY <1>1
  <2>2. g[3] = g[2] + 0 /\ f[3] = f[2] + (c % BYTE)
    BY <1>2, <1>3, <2>1
  <2>3. g[4] = g[3] + BYTE * 0 /\ f[4] = f[3] + BYTE * (c \div BYTE)
    BY <1>2, <1>3, <2>1
  <2>4. /\ (c % BYTE) + BYTE * (c \div BYTE) = c
        /\ (c % BYTE) \in Nat /\ BYTE * (c \div BYTE) \in Nat /\ BYTE * 0 = 0
    <3>1. /\ (c % BYTE) \in IcmpBytes /\ (c \div BYTE) \in IcmpBytes
          /\ (c % BYTE) + BYTE * (c \div BYTE) = c
      BY WordOfBytes
    <3>2. \A b \in IcmpBytes : b \in Nat /\ BYTE * b \in Nat
      BY WordFacts
    <3>3. BYTE * 0 = 0
      BY WordFacts
    <3> HIDE DEF IcmpBytes
    <3>4. QED
      BY <3>1, <3>2, <3>3
  <2> DEFINE r == c % BYTE
             d == BYTE * (c \div BYTE)
  <2> HIDE DEF r, d
  <2>5. /\ g[3] = g[2] + 0 /\ f[3] = f[2] + r /\ g[4] = g[3] + 0
        /\ f[4] = f[3] + d /\ r + d = c /\ r \in Nat /\ d \in Nat
    BY <2>2, <2>3, <2>4 DEF r, d
  <2>6. g[2] \in Nat /\ f[2] \in Nat
    BY <1>1, <1>4
  <2> HIDE DEF r, d
  <2>7. f[4] = g[2] + (r + d) /\ g[4] = g[2]
    BY <1>5, <2>5, <2>6
  <2>8. r + d = c
    BY <2>5
  <2>9. QED
    BY <2>7, <2>8
<1>7. 0 \in T
  BY <1>6
<1>8. ASSUME NEW k \in T
      PROVE  k + 1 \in T
  <2>1. SUFFICES ASSUME 4 + (k + 1) <= n
                 PROVE  f[4 + (k + 1)] = g[4 + (k + 1)] + c
    OBVIOUS
  <2> DEFINE j == 4 + (k + 1)
  <2>2. j \in 1 .. n /\ j - 1 = 4 + k /\ j \notin {3, 4} /\ 4 + k \in 0 .. n
    BY <1>1, <2>1
  <2>3. f[j - 1] = g[j - 1] + c
    BY <1>1, <2>1, <2>2
  <2> HIDE DEF j
  <2>4. q[j] = p[j] /\ p[j] \in Nat /\ BYTE * p[j] \in Nat
    <3>1. q[j] = p[j] /\ p[j] \in IcmpBytes
      BY <1>1, <1>2, <2>2
    <3>2. \A b \in IcmpBytes : b \in Nat /\ BYTE * b \in Nat
      BY WordFacts
    <3>3. QED
      BY <3>1, <3>2
  <2> DEFINE t == IF j % 2 = 1 THEN p[j] ELSE BYTE * p[j]
  <2>5. f[j] = f[j - 1] + t /\ g[j] = g[j - 1] + t
    BY <1>3, <2>2, <2>4
  <2>6. t \in Nat /\ g[j - 1] \in Nat
    BY <1>4, <2>2, <2>4
  <2> HIDE DEF t
  <2>7. f[j] = g[j] + c
    BY <2>3, <2>5, <2>6
  <2>8. QED
    BY <2>7 DEF j
<1> HIDE DEF T
<1>9. n - 4 \in T
  <2>1. T \in SUBSET Nat /\ n - 4 \in Nat
    BY <1>1 DEF T
  <2>2. QED
    BY <1>7, <1>8, <2>1, Climb
<1>10. 4 + (n - 4) = n /\ n <= n
  BY <1>1
<1>11. QED
  BY <1>9, <1>10 DEF T

LEMMA OneWord ==
    ASSUME NEW f \in 0 .. W - 1
    PROVE  (f % W) = f /\ (f \div W) = 0
<1>1. ((W * 0 + f) % W) = f /\ ((W * 0 + f) \div W) = 0
  BY Remainder, WordFacts
<1>2. W * 0 + f = f
  BY WordFacts
<1>3. QED
  BY <1>1, <1>2

LEMMA OneCarry ==
    ASSUME NEW r \in 0 .. W - 1
    PROVE  ((W + r) % W) = r /\ ((W + r) \div W) = 1
<1>1. ((W * 1 + r) % W) = r /\ ((W * 1 + r) \div W) = 1
  BY Remainder, WordFacts
<1>2. W * 1 + r = W + r
  BY WordFacts
<1>3. QED
  BY <1>1, <1>2

\* The two folds lose no carry: what is left differs from the sum by a
\* multiple of W - 1.
LEMMA FoldTwice ==
    ASSUME NEW s \in Nat, s < W * W,
           NEW f, f = (s \div W) + (s % W)
    PROVE  /\ f \in Nat
           /\ f + (f \div W) \in Nat
           /\ \E m \in Int : s = ((f + (f \div W)) % W) + (W - 1) * m
<1> DEFINE q == s \div W
           r == s % W
           M == W - 1
<1>1. s = W * q + r /\ r \in 0 .. W - 1 /\ q \in Int
  BY DivMod, WordFacts
<1>2. f = q + r
  OBVIOUS
<1>3. W \in Nat /\ W > 8 /\ M \in Int /\ W = M + 1
  BY WordFacts
<1> HIDE DEF q, r, M
<1>4. q >= 0
  <2> SUFFICES ASSUME -q >= 1 PROVE FALSE
    BY <1>1
  <2>1. W * (-q) >= W
    BY <1>1, <1>3, ProductGrows
  <2>2. W * (-q) = -(W * q) /\ W * q \in Int
    BY <1>1, <1>3, SMTT(30)
  <2>3. QED
    BY <1>1, <1>3, <2>1, <2>2
<1>5. q < W
  <2> SUFFICES ASSUME q - W >= 0 PROVE FALSE
    BY <1>1, <1>3
  <2>1. W * (q - W) >= 0 /\ W * (q - W) \in Int
    <3>1. q - W \in Nat
      BY <1>1, <1>3
    <3>2. QED
      BY <1>3, <3>1, SMTT(30)
  <2>2. W * q = W * W + W * (q - W) /\ W * W \in Int
    BY <1>1, <1>3, SMTT(30)
  <2>3. QED
    BY <1>1, <1>3, <2>1, <2>2
<1>6. f \in Nat
  BY <1>1, <1>2, <1>3, <1>4
<1>7. s = f + M * q /\ M * q \in Int
  <2>1. W * q = M * q + q /\ M * q \in Int
    BY <1>1, <1>3, SMTT(30)
  <2>2. QED
    BY <1>1, <1>2, <1>3, <2>1
<1>8. CASE f < W
  <2>1. (f % W) = f /\ (f \div W) = 0
    <3>1. f \in 0 .. W - 1
      BY <1>3, <1>6, <1>8
    <3>2. QED
      BY <3>1, OneWord
  <2>2. ((f + (f \div W)) % W) = f /\ f + (f \div W) = f
    BY <1>6, <2>1
  <2>3. QED
    BY <1>1, <1>6, <1>7, <2>2 DEF M
<1>9. CASE f >= W
  <2>1. f - W \in 0 .. W - 2
    BY <1>1, <1>2, <1>3, <1>5, <1>9
  <2>2. (f \div W) = 1
    <3>1. f = W + (f - W) /\ f - W \in 0 .. W - 1
      BY <1>3, <1>6, <2>1
    <3>2. ((W + (f - W)) \div W) = 1
      BY <3>1, OneCarry
    <3>3. QED
      BY <3>1, <3>2
  <2>3. ((f + 1) % W) = f + 1 - W
    <3>1. f + 1 = W + (f + 1 - W) /\ f + 1 - W \in 0 .. W - 1
      BY <1>3, <1>6, <2>1
    <3>2. ((W + (f + 1 - W)) % W) = f + 1 - W
      BY <3>1, OneCarry
    <3>3. QED
      BY <3>1, <3>2
  <2>4. s = (f + 1 - W) + M * (q + 1)
    <3>1. M * (q + 1) = M * q + M
      BY <1>1, <1>3, SMTT(30)
    <3>2. QED
      BY <1>3, <1>6, <1>7, <3>1
  <2>5. q + 1 \in Int /\ f + 1 \in Nat
    BY <1>1, <1>6
  <2>6. ((f + (f \div W)) % W) = f + 1 - W /\ f + (f \div W) = f + 1
    BY <2>2, <2>3
  <2>7. \E m \in Int : s = ((f + (f \div W)) % W) + M * m
    BY <2>4, <2>5, <2>6
  <2>8. QED
    BY <1>6, <2>5, <2>6, <2>7 DEF M
<1>10. QED
  BY <1>3, <1>6, <1>8, <1>9

\* A sum of words that fits: no more than W bytes.
LEMMA SumFits ==
    ASSUME NEW p \in Seq(IcmpBytes), Len(p) < W,
           NEW g, Summed(g, Len(p), LowFirst(p)), NEW k \in 0 .. Len(p)
    PROVE  g[k] \in Nat /\ g[k] < W * W
<1> DEFINE M == W - 1
<1>1. W \in Nat /\ M \in Nat /\ M >= 8 /\ W = M + 1
  BY WordFacts
<1>2. Len(p) \in Nat /\ \A i \in 1 .. Len(p) : LowFirst(p)[i] \in 0 .. M
  BY Terms
<1>3. g[k] \in Nat
  BY DEF Summed
<1> HIDE DEF M
<1>4. g[k] <= k * M
  BY <1>1, <1>2, SumBound
<1>5. k \in Nat /\ k <= M
  BY <1>1, <1>2
<1>6. k * M <= M * M /\ k * M \in Int /\ M * M \in Int
  <2>1. M * M = k * M + (M - k) * M
    BY <1>1, <1>5, SMTT(30)
  <2>2. M - k \in Nat
    BY <1>1, <1>5
  <2>3. (M - k) * M \in Nat
    BY <1>1, <2>2, SMTT(30)
  <2>4. k * M \in Int /\ M * M \in Int
    BY <1>1, <1>5
  <2>5. QED
    BY <2>1, <2>3, <2>4
<1>7. W * W = M * M + M + M + 1
  BY <1>1, SMTT(30)
<1>8. QED
  BY <1>1, <1>3, <1>4, <1>6, <1>7

\* What the receiver adds up is such a sum.
ReceivedOf(p) ==
    LET upto[k \in 0 .. Len(p)] ==
          IF k = 0 THEN 0
          ELSE upto[k - 1] + (IF k % 2 = 1 THEN BYTE * p[k] ELSE p[k])
    IN  upto[Len(p)]

LEMMA ReceivedIsSum ==
    ASSUME NEW p \in Seq(IcmpBytes),
           NEW h, Summed(h, Len(p), HighFirst(p))
    PROVE  ReceivedOf(p) = h[Len(p)]
<1> DEFINE n == Len(p)
           t(k) == IF k % 2 = 1 THEN BYTE * p[k] ELSE p[k]
           Is(f) == f = [k \in 0 .. n |-> IF k = 0 THEN 0
                                          ELSE f[k - 1] + t(k)]
           c == CHOOSE f : Is(f)
<1>1. n \in Nat
  BY Terms
<1>2. h = [k \in 0 .. n |-> h[k]] /\ h[0] = 0
  BY DEF Summed
<1>3. \A k \in 1 .. n : h[k] = h[k - 1] + t(k)
  BY DEF Summed, HighFirst
<1>4. ReceivedOf(p) = c[n]
  BY DEF ReceivedOf
<1> HIDE DEF t
<1>5. Is(h)
  <2>1. \A k \in 0 .. n : k # 0 => k \in 1 .. n
    BY <1>1
  <2>2. QED
    BY <1>2, <1>3, <2>1
<1>6. Is(c)
  BY <1>5
<1> HIDE DEF c
<1>7. c[0] = 0
  BY <1>1, <1>6
<1>8. ASSUME NEW k \in 1 .. n, c[k - 1] = h[k - 1]
      PROVE  c[k] = h[k]
  <2>1. k \in 0 .. n /\ k # 0
    BY <1>1
  <2>2. c[k] = c[k - 1] + t(k)
    BY <1>6, <2>1
  <2>3. QED
    BY <1>3, <1>8, <2>2
<1>9. \A k \in 0 .. n : c[k] = h[k]
  <2>1. SameSteps(c, h, n)
    BY <1>2, <1>7, <1>8 DEF SameSteps
  <2>2. QED
    BY <1>1, <2>1, SameNumbers
<1>10. QED
  BY <1>1, <1>4, <1>9

-----------------------------------------------------------------------------
Summing == {"adding", "folding", "again", "storing"}

\* The sum so far, and at last what the folds have left of it.
PartialSum(g) ==
    LET n == Len(ic_packet)
    IN  /\ ic_pc = "adding" =>
               ic_i \in 0 .. n \div 2 /\ ic_sum = g[2 * ic_i]
        /\ ic_pc = "folding" => ic_sum = g[n]
        /\ ic_pc = "again" => ic_sum = (g[n] \div W) + (g[n] % W)
        /\ ic_pc = "storing" =>
               \E m \in Int : g[n] = (ic_sum % W) + (W - 1) * m

Unsummed ==
    /\ ic_packet \in Seq(IcmpBytes)
    /\ Len(ic_packet) >= 8 /\ Len(ic_packet) < W
    /\ ic_packet[3] = 0 /\ ic_packet[4] = 0
    /\ ic_sum \in Nat

EchoRequestInv ==
    /\ ic_pc \in Summing =>
           /\ Unsummed
           /\ \E g : /\ Summed(g, Len(ic_packet), LowFirst(ic_packet))
                     /\ PartialSum(g)
    /\ IC!ReceiverVerifies

LEMMA BuildInv ==
    ASSUME EchoRequestInv, IC!Build
    PROVE  EchoRequestInv'
<1>1. PICK id \in Ids, text \in Texts : ic_packet' = IC!Header(id) \o text
  BY DEF IC!Build
<1> DEFINE p == IC!Header(id) \o text
<1>2. /\ text \in Seq(1 .. BYTE - 1) /\ 8 + Len(text) < BYTE * BYTE
      /\ id \in (0 .. BYTE - 1) \X (0 .. BYTE - 1)
  <2>1. IC!IcmpChecksumAssumption
    BY ProgramsAssumption DEF ProgramsAssumption
  <2>2. /\ Ids \subseteq (0 .. BYTE - 1) \X (0 .. BYTE - 1)
        /\ \A t \in Texts :
               t \in Seq(1 .. BYTE - 1) /\ 8 + Len(t) < BYTE * BYTE
    BY <2>1 DEF IC!IcmpChecksumAssumption
  <2>3. QED
    BY <2>2
<1>3. /\ Len(text) \in Nat /\ 8 + Len(text) < W
      /\ \A k \in 1 .. Len(text) : text[k] \in IcmpBytes
  <2>1. \A k \in 1 .. Len(text) : text[k] \in 1 .. BYTE - 1
    BY <1>2, ElementOfSeq
  <2>2. \A b \in 1 .. BYTE - 1 : b \in IcmpBytes
    BY WordFacts DEF IcmpBytes
  <2>3. QED
    BY <1>2, <2>1, <2>2 DEF W
<1>4. /\ text \in Seq(IcmpBytes)
      /\ IC!Header(id) \in Seq(IcmpBytes)
      /\ Len(IC!Header(id)) = 8
      /\ IC!Header(id)[3] = 0 /\ IC!Header(id)[4] = 0
  <2>1. text \in Seq(IcmpBytes)
    <3>1. text = [k \in 1 .. Len(text) |-> text[k]]
      BY <1>2
    <3>2. QED
      BY <1>3, <3>1, IsASeq
  <2>2. id[1] \in IcmpBytes /\ id[2] \in IcmpBytes
        /\ 8 \in IcmpBytes /\ 0 \in IcmpBytes
    BY <1>2, WordFacts DEF IcmpBytes
  <2>3. QED
    BY <2>1, <2>2 DEF IC!Header
<1>5. /\ p \in Seq(IcmpBytes) /\ Len(p) = 8 + Len(text)
      /\ p[3] = 0 /\ p[4] = 0 /\ Len(text) \in Nat
  <2> DEFINE hd == IC!Header(id)
  <2> HIDE DEF hd
  <2>1. p = hd \o text /\ hd \in Seq(IcmpBytes) /\ Len(hd) = 8
        /\ hd[3] = 0 /\ hd[4] = 0
    BY <1>4 DEF hd
  <2> HIDE DEF p
  <2>2. /\ p \in Seq(IcmpBytes) /\ Len(p) = Len(hd) + Len(text)
        /\ \A k \in 1 .. Len(hd) + Len(text) :
               p[k] = IF k <= Len(hd) THEN hd[k] ELSE text[k - Len(hd)]
    BY <1>4, <2>1, ConcatProperties
  <2>3. /\ 3 <= Len(hd) /\ 3 \in 1 .. Len(hd) + Len(text)
        /\ 4 <= Len(hd) /\ 4 \in 1 .. Len(hd) + Len(text)
    BY <1>3, <2>1
  <2>4. QED
    BY <1>3, <2>1, <2>2, <2>3
<1> HIDE DEF p
<1>6. PICK g : Summed(g, Len(p), LowFirst(p))
  BY <1>5, Terms, SumExists
<1>7. ic_packet' = p /\ ic_pc' = "adding" /\ ic_i' = 0 /\ ic_sum' = 0
  BY <1>1 DEF IC!Build, p
<1>8. Unsummed'
  BY <1>3, <1>5, <1>7 DEF Unsummed
<1>9. PartialSum(g)'
  <2>1. 0 \in 0 .. Len(p) \div 2 /\ 2 * 0 = 0 /\ g[0] = 0
    BY <1>5, <1>6 DEF Summed
  <2>2. QED
    BY <1>7, <2>1 DEF PartialSum
<1>10. QED
  BY <1>6, <1>7, <1>8, <1>9 DEF EchoRequestInv, IC!ReceiverVerifies

LEMMA AddWordInv ==
    ASSUME EchoRequestInv, IC!AddWord
    PROVE  EchoRequestInv'
<1> DEFINE p == ic_packet
           n == Len(ic_packet)
<1>1. /\ ic_pc = "adding" /\ ic_i < n \div 2 /\ ic_packet' = p
      /\ ic_pc' = "adding" /\ ic_i' = ic_i + 1
      /\ ic_sum' = ((ic_sum + IC!Data(ic_i)) % (W * W))
  BY WordFacts DEF IC!AddWord
<1>2. PICK g : Summed(g, n, LowFirst(p)) /\ PartialSum(g)
  BY <1>1 DEF EchoRequestInv, Summing
<1>3. Unsummed
  BY <1>1 DEF EchoRequestInv, Summing
<1>4. ic_i \in 0 .. n \div 2 /\ ic_sum = g[2 * ic_i]
  BY <1>1, <1>2 DEF PartialSum
<1> DEFINE a == 2 * ic_i
<1>5. /\ n \in Nat /\ ic_i \in Nat /\ ic_i + 1 \in 0 .. n \div 2
      /\ a \in 0 .. n /\ a + 1 \in 1 .. n /\ a + 2 \in 1 .. n
      /\ (a + 1) - 1 = a /\ (a + 2) - 1 = a + 1 /\ 2 * (ic_i + 1) = a + 2
      /\ (a + 1) % 2 = 1 /\ (a + 2) % 2 # 1
  <2>1. n \in Nat
    BY <1>3, Terms DEF Unsummed
  <2>2. QED
    BY <1>1, <1>4, <2>1
<1> HIDE DEF a
<1>6. IC!Data(ic_i) = p[a + 1] + BYTE * p[a + 2]
  BY DEF IC!Data, a
<1>7. /\ g[a + 1] = g[a] + p[a + 1]
      /\ g[a + 2] = g[a + 1] + BYTE * p[a + 2]
  BY <1>2, <1>5 DEF Summed, LowFirst
<1>8. /\ p[a + 1] \in Nat /\ BYTE * p[a + 2] \in Nat /\ g[a] \in Nat
  <2>1. p[a + 1] \in IcmpBytes /\ p[a + 2] \in IcmpBytes
    BY <1>3, <1>5, Terms DEF Unsummed
  <2>2. \A b \in IcmpBytes : b \in Nat /\ BYTE * b \in Nat
    BY WordFacts
  <2>3. g[a] \in Nat
    BY <1>2, <1>5 DEF Summed
  <2>4. QED
    BY <2>1, <2>2, <2>3
<1>9. g[a] + IC!Data(ic_i) = g[a + 2]
  BY <1>6, <1>7, <1>8
<1>10. g[a + 2] \in Nat /\ (g[a + 2] % (W * W)) = g[a + 2]
  BY <1>2, <1>3, <1>5, SumFits, NoOverflow DEF Unsummed
<1>11. ic_sum' = g[2 * ic_i'] /\ ic_sum' \in Nat
  BY <1>1, <1>4, <1>5, <1>9, <1>10 DEF a
<1>12. Unsummed' /\ PartialSum(g)'
  BY <1>1, <1>3, <1>5, <1>11 DEF Unsummed, PartialSum
<1>13. QED
  BY <1>1, <1>2, <1>12 DEF EchoRequestInv, IC!ReceiverVerifies

LEMMA AddOddByteInv ==
    ASSUME EchoRequestInv, IC!AddOddByte
    PROVE  EchoRequestInv'
<1> DEFINE p == ic_packet
           n == Len(ic_packet)
<1>1. /\ ic_pc = "adding" /\ ic_i = n \div 2 /\ ic_packet' = p
      /\ ic_pc' = "folding"
      /\ ic_sum' = ((ic_sum + IC!OddByte) % (W * W))
  BY WordFacts DEF IC!AddOddByte
<1>2. PICK g : Summed(g, n, LowFirst(p)) /\ PartialSum(g)
  BY <1>1 DEF EchoRequestInv, Summing
<1>3. Unsummed
  BY <1>1 DEF EchoRequestInv, Summing
<1>4. n \in Nat /\ n \in 0 .. n /\ n >= 8
  BY <1>3, Terms DEF Unsummed
<1>5. ic_sum = g[2 * (n \div 2)]
  BY <1>1, <1>2 DEF PartialSum
<1>6. g[2 * (n \div 2)] + IC!OddByte = g[n]
  <2>1. CASE n % 2 = 1
    <3>1. n \in 1 .. n /\ 2 * (n \div 2) = n - 1
      BY <1>4, <2>1
    <3>2. g[n] = g[n - 1] + p[n]
      BY <1>2, <2>1, <3>1 DEF Summed, LowFirst
    <3>3. QED
      BY <2>1, <3>1, <3>2 DEF IC!OddByte
  <2>2. CASE n % 2 # 1
    <3>1. 2 * (n \div 2) = n /\ g[n] \in Nat
      BY <1>2, <1>4, <2>2 DEF Summed
    <3>2. QED
      BY <2>2, <3>1 DEF IC!OddByte
  <2>3. QED
    BY <2>1, <2>2
<1>7. g[n] \in Nat /\ (g[n] % (W * W)) = g[n]
  BY <1>2, <1>3, <1>4, SumFits, NoOverflow DEF Unsummed
<1>8. ic_sum' = g[n] /\ ic_sum' \in Nat
  BY <1>1, <1>5, <1>6, <1>7
<1>9. Unsummed' /\ PartialSum(g)'
  BY <1>1, <1>3, <1>8 DEF Unsummed, PartialSum
<1>10. QED
  BY <1>1, <1>2, <1>9 DEF EchoRequestInv, IC!ReceiverVerifies

LEMMA FoldInv ==
    ASSUME EchoRequestInv, IC!Fold
    PROVE  EchoRequestInv'
<1> DEFINE n == Len(ic_packet)
<1>1. /\ ic_pc = "folding" /\ ic_packet' = ic_packet /\ ic_pc' = "again"
      /\ ic_sum' = (ic_sum \div W) + (ic_sum % W)
  BY WordFacts DEF IC!Fold
<1>2. PICK g : Summed(g, n, LowFirst(ic_packet)) /\ PartialSum(g)
  BY <1>1 DEF EchoRequestInv, Summing
<1>3. Unsummed
  BY <1>1 DEF EchoRequestInv, Summing
<1>4. ic_sum = g[n] /\ n \in 0 .. n
  BY <1>1, <1>2, <1>3, Terms DEF PartialSum, Unsummed
<1>5. g[n] \in Nat /\ g[n] < W * W
  BY <1>2, <1>3, <1>4, SumFits DEF Unsummed
<1>6. ic_sum' = (g[n] \div W) + (g[n] % W) /\ ic_sum' \in Nat
  BY <1>1, <1>4, <1>5, FoldTwice
<1>7. Unsummed' /\ PartialSum(g)'
  BY <1>1, <1>3, <1>6 DEF Unsummed, PartialSum
<1>8. QED
  BY <1>1, <1>2, <1>7 DEF EchoRequestInv, IC!ReceiverVerifies

LEMMA FoldAgainInv ==
    ASSUME EchoRequestInv, IC!FoldAgain
    PROVE  EchoRequestInv'
<1> DEFINE n == Len(ic_packet)
<1>1. /\ ic_pc = "again" /\ ic_packet' = ic_packet /\ ic_pc' = "storing"
      /\ ic_sum' = ic_sum + (ic_sum \div W)
  BY WordFacts DEF IC!FoldAgain
<1>2. PICK g : Summed(g, n, LowFirst(ic_packet)) /\ PartialSum(g)
  BY <1>1 DEF EchoRequestInv, Summing
<1>3. Unsummed
  BY <1>1 DEF EchoRequestInv, Summing
<1>4. ic_sum = (g[n] \div W) + (g[n] % W) /\ n \in 0 .. n
  BY <1>1, <1>2, <1>3, Terms DEF PartialSum, Unsummed
<1>5. g[n] \in Nat /\ g[n] < W * W
  BY <1>2, <1>3, <1>4, SumFits DEF Unsummed
<1>6. /\ ic_sum' \in Nat
      /\ \E m \in Int : g[n] = (ic_sum' % W) + (W - 1) * m
  BY <1>1, <1>4, <1>5, FoldTwice
<1>7. Unsummed' /\ PartialSum(g)'
  BY <1>1, <1>3, <1>6 DEF Unsummed, PartialSum
<1>8. QED
  BY <1>1, <1>2, <1>7 DEF EchoRequestInv, IC!ReceiverVerifies

LEMMA StoreInv ==
    ASSUME EchoRequestInv, IC!Store
    PROVE  EchoRequestInv'
<1> DEFINE p == ic_packet
           n == Len(ic_packet)
           c == IC!Checksum
           q == ic_packet'
           M == W - 1
<1>1. /\ ic_pc = "storing" /\ ic_pc' = "ready"
      /\ q = [p EXCEPT ![3] = c % BYTE, ![4] = c \div BYTE]
  BY DEF IC!Store
<1>2. PICK g : Summed(g, n, LowFirst(p)) /\ PartialSum(g)
  BY <1>1 DEF EchoRequestInv, Summing
<1>3. Unsummed
  BY <1>1 DEF EchoRequestInv, Summing
<1>4. n \in Nat /\ n >= 8 /\ n \in 0 .. n /\ p \in Seq(IcmpBytes)
  BY <1>3, Terms DEF Unsummed
<1>5. PICK m \in Int : g[n] = (ic_sum % W) + M * m
  BY <1>1, <1>2 DEF PartialSum
<1>6. /\ (ic_sum % W) \in 0 .. W - 1 /\ c = M - (ic_sum % W)
      /\ c \in 0 .. W - 1
  <2>1. (ic_sum % W) \in 0 .. W - 1
    <3>1. ic_sum \in Int /\ W \in Nat \ {0}
      BY <1>3, WordFacts DEF Unsummed
    <3>2. QED
      BY <3>1, DivMod
  <2>2. QED
    BY <2>1, WordFacts DEF IC!Checksum
<1> HIDE DEF c
<1>7. /\ q \in Seq(IcmpBytes) /\ Len(q) = n
  <2>1. (c % BYTE) \in IcmpBytes /\ (c \div BYTE) \in IcmpBytes
    BY <1>6, WordOfBytes
  <2> DEFINE s == [p EXCEPT ![3] = c % BYTE]
  <2>2. s \in Seq(IcmpBytes) /\ Len(s) = n
    BY <1>4, <2>1
  <2>3. q = [s EXCEPT ![4] = c \div BYTE]
    BY <1>1
  <2> HIDE DEF s, q
  <2>4. QED
    BY <1>4, <2>1, <2>2, <2>3
<1> HIDE DEF q
<1>8. PICK f : Summed(f, n, LowFirst(q))
  BY <1>7, Terms, SumExists
<1>9. PICK h : Summed(h, n, HighFirst(q))
  BY <1>7, Terms, SumExists
<1>10. f[n] = g[n] + c
  <2>1. /\ p \in Seq(IcmpBytes) /\ Len(p) >= 8 /\ p[3] = 0 /\ p[4] = 0
        /\ Stored(c, p, q)
        /\ Summed(g, Len(p), LowFirst(p))
        /\ Summed(f, Len(p), LowFirst(q))
    BY <1>1, <1>2, <1>3, <1>8 DEF Unsummed, Stored
  <2> HIDE DEF p
  <2>2. f[Len(p)] = g[Len(p)] + c
    BY <1>6, <2>1, ChecksumAdded
  <2>3. QED
    BY <2>2 DEF p
<1>11. PICK e \in Nat : h[n] + M * e = BYTE * f[n]
  BY <1>7, <1>8, <1>9, ByteOrder
<1>12. (h[n] % M) = 0
  <2> HIDE DEF M, n
  <2>1. /\ M \in Nat \ {0} /\ BYTE \in Nat /\ h[n] \in Nat /\ f[n] \in Nat
        /\ g[n] \in Nat
    BY <1>2, <1>4, <1>8, <1>9, WordFacts DEF Summed, M
  <2>2. f[n] = M * m + M
    <3>1. (ic_sum % W) \in Int /\ M * m \in Int
      BY <1>6, <2>1
    <3>2. QED
      BY <1>5, <1>6, <1>10, <2>1, <3>1
  <2>3. M * (BYTE * (m + 1) - e) = BYTE * (M * m + M) - M * e
    BY <2>1, SMTT(30)
  <2>4. /\ BYTE * (m + 1) - e \in Int
        /\ M * e \in Int /\ BYTE * (M * m + M) \in Int
    BY <2>1
  <2>5. h[n] = M * (BYTE * (m + 1) - e) + 0
    BY <1>11, <2>1, <2>2, <2>3, <2>4
  <2>6. 0 \in 0 .. M - 1
    BY <2>1
  <2> DEFINE z == BYTE * (m + 1) - e
  <2> HIDE DEF z
  <2>7. z \in Int /\ h[n] = M * z + 0
    BY <2>4, <2>5 DEF z
  <2>8. ((M * z + 0) % M) = 0
    BY <2>1, <2>6, <2>7, Remainder
  <2>9. QED
    BY <2>7, <2>8
<1>13. IC!Received' = h[n]
  <2>1. IC!Received' = ReceivedOf(q)
    BY DEF IC!Received, ReceivedOf, q
  <2>2. QED
    BY <1>7, <1>9, <2>1, ReceivedIsSum
<1>14. IC!ReceiverVerifies'
  BY <1>12, <1>13, WordFacts DEF IC!ReceiverVerifies
<1>15. QED
  BY <1>1, <1>14 DEF EchoRequestInv, Summing

\* What the module states and explains as ReceiverVerifies: the checksum of
\* message_client.cpp, computed in the byte order of the machine, is right
\* for a receiver of the other order, whatever the user types.
THEOREM EchoVerified == Spec => []ReceiverVerifies
<1>1. Init => EchoRequestInv
  BY DEF Init, IC!Init, EchoRequestInv, Summing, IC!ReceiverVerifies
<1>2. ASSUME EchoRequestInv, [Next]_vars
      PROVE  EchoRequestInv'
  <2>1. [IC!Next]_(IC!vars)
    BY <1>2, OneProgram
  <2>2. CASE IC!Build
    BY <1>2, <2>2, BuildInv
  <2>3. CASE IC!NoSocket
    BY <1>2, <2>3
       DEF IC!NoSocket, EchoRequestInv, Summing, IC!ReceiverVerifies
  <2>4. CASE IC!AddWord
    BY <1>2, <2>4, AddWordInv
  <2>5. CASE IC!AddOddByte
    BY <1>2, <2>5, AddOddByteInv
  <2>6. CASE IC!Fold
    BY <1>2, <2>6, FoldInv
  <2>7. CASE IC!FoldAgain
    BY <1>2, <2>7, FoldAgainInv
  <2>8. CASE IC!Store
    BY <1>2, <2>8, StoreInv
  <2>9. CASE IC!Send
    <3>1. /\ ic_pc = "ready" /\ ic_pc' \in {"sent", "failed"}
          /\ IC!Received' = IC!Received
      BY <2>9 DEF IC!Send, IC!Received
    <3>2. QED
      BY <1>2, <3>1 DEF EchoRequestInv, Summing, IC!ReceiverVerifies
  <2>10. CASE UNCHANGED IC!vars
    <3>1. /\ ic_pc' = ic_pc /\ ic_packet' = ic_packet /\ ic_i' = ic_i
          /\ ic_sum' = ic_sum /\ IC!Received' = IC!Received
      BY <2>10 DEF IC!vars, IC!Received
    <3>2. QED
      BY <1>2, <3>1
         DEF EchoRequestInv, Summing, IC!ReceiverVerifies, Unsummed,
             PartialSum
  <2>11. QED
    BY <2>1, <2>2, <2>3, <2>4, <2>5, <2>6, <2>7, <2>8, <2>9, <2>10
       DEF IC!Next
<1>3. EchoRequestInv => ReceiverVerifies
  BY DEF EchoRequestInv, ReceiverVerifies
<1>4. QED
  BY <1>1, <1>2, <1>3, PTL DEF Spec

-----------------------------------------------------------------------------
(***************************************************************************)
(* The capture samples                                                     *)
(***************************************************************************)
Ls == {"alldevs"}
Ad == {"adapter"}
Df == {"dumpfile"}
LsAd == {"alldevs", "adapter"}
AdDf == {"adapter", "dumpfile"}
LsAdDf == {"alldevs", "adapter", "dumpfile"}

\* Ls step that needs what is held before it, gives back of it what it gives
\* back when it fails, and leaves this held when it succeeds.
TidyStep(before, step, after) ==
    /\ CS!Needs(step.op) \subseteq before
    /\ after = (before \ CS!Releases(step.op)) \cup CS!Gains(step.op)
    /\ step.op \notin CS!CannotFail => step.undo \subseteq before

\* Ls program that goes through what the elements of h say is held, and that
\* closes the file it saves to.
TidyProgram(p, h) ==
    /\ Len(h) = Len(p) + 1
    /\ h[1] = {}
    /\ \A i \in 1 .. Len(p) :
           /\ TidyStep(h[i], p[i], h[i + 1])
           /\ p[i].op \in CS!Loops /\ p \notin {CS!pktdump_ex, CS!smp_1} =>
                  h[i] = CS!Needs(p[i].op)
           /\ p[i].op = "save" /\ p # CS!savedump =>
                  \E j \in i .. Len(p) : p[j].op = "dump_close"

LEMMA TidySteps ==
    /\ TidyStep({}, CS!Do("arguments"), {})
    /\ TidyStep(Ad, CS!Do("arguments"), Ad)
    /\ TidyStep({}, CS!Do("list"), Ls)
    /\ TidyStep({}, CS!Do("open_source"), Ad)
    /\ TidyStep(Ls, CS!Try("choose", Ls), Ls)
    /\ TidyStep(Ls, CS!Try("open", Ls), LsAd)
    /\ TidyStep(Ls, CS!Do("open"), LsAd)
    /\ TidyStep(LsAd, CS!Try("check", Ls), LsAd)
    /\ TidyStep(LsAd, CS!Try("filter", Ls), LsAd)
    /\ TidyStep(Ad, CS!Try("filter", Ad), Ad)
    /\ TidyStep(Ad, CS!Do("filter"), Ad)
    /\ TidyStep(LsAd, CS!Do("freealldevs"), Ad)
    /\ TidyStep(LsAdDf, CS!Do("freealldevs"), AdDf)
    /\ TidyStep(LsAd, CS!Do("dump_open"), LsAdDf)
    /\ TidyStep(Ad, CS!Try("dump_open", Ad), AdDf)
    /\ TidyStep(Ad, CS!Do("loop"), Ad)
    /\ TidyStep(Ad, CS!Do("loop_or_fail"), Ad)
    /\ TidyStep(LsAd, CS!Do("loop_or_fail"), LsAd)
    /\ TidyStep(AdDf, CS!Do("save"), AdDf)
    /\ TidyStep(Ad, CS!Do("close"), {})
    /\ TidyStep(LsAd, CS!Do("close"), Ls)
    /\ TidyStep(AdDf, CS!Do("close"), Df)
    /\ TidyStep(Df, CS!Do("dump_close"), {})
BY DEF TidyStep, CS!Do, CS!Try, CS!Needs, CS!Gains, CS!Releases,
       CS!CannotFail, Ls, Ad, Df, LsAd, AdDf, LsAdDf

LEMMA TidyUdpdump == \E h : TidyProgram(CS!udpdump, h)
<1> DEFINE p == CS!udpdump
           h == <<{}, Ls, Ls, LsAd, LsAd, LsAd, LsAd, Ad, Ad>>
<1>1. Len(p) = 8 /\ Len(h) = 9 /\ h[1] = {}
  BY DEF CS!udpdump
<1>2. \A i \in 1 .. 8 : TidyStep(h[i], p[i], h[i + 1])
  BY TidySteps DEF CS!udpdump, Ls, Ad
<1>3. \A i \in 1 .. 8 :
          p[i].op \in CS!Loops /\ p \notin {CS!pktdump_ex, CS!smp_1} =>
              h[i] = CS!Needs(p[i].op)
  BY DEF CS!udpdump, CS!Do, CS!Try, CS!Loops, CS!Needs, Ad, AdDf
<1>4. \A i \in 1 .. 8 : p[i].op # "save"
  BY DEF CS!udpdump, CS!Do, CS!Try
<1> HIDE DEF p, h
<1>5. TidyProgram(p, h)
  BY <1>1, <1>2, <1>3, <1>4 DEF TidyProgram
<1>6. QED
  BY <1>5 DEF p

LEMMA TidyBasicDump == \E h : TidyProgram(CS!basic_dump, h)
<1> DEFINE p == CS!basic_dump
           h == <<{}, Ls, Ls, LsAd, Ad, Ad, {}>>
<1>1. Len(p) = 6 /\ Len(h) = 7 /\ h[1] = {}
  BY DEF CS!basic_dump
<1>2. \A i \in 1 .. 6 : TidyStep(h[i], p[i], h[i + 1])
  BY TidySteps DEF CS!basic_dump, Ls, Ad
<1>3. \A i \in 1 .. 6 :
          p[i].op \in CS!Loops /\ p \notin {CS!pktdump_ex, CS!smp_1} =>
              h[i] = CS!Needs(p[i].op)
  BY DEF CS!basic_dump, CS!Do, CS!Try, CS!Loops, CS!Needs, Ad, AdDf
<1>4. \A i \in 1 .. 6 : p[i].op # "save"
  BY DEF CS!basic_dump, CS!Do, CS!Try
<1> HIDE DEF p, h
<1>5. TidyProgram(p, h)
  BY <1>1, <1>2, <1>3, <1>4 DEF TidyProgram
<1>6. QED
  BY <1>5 DEF p

LEMMA TidyBasicDumpEx == \E h : TidyProgram(CS!basic_dump_ex, h)
<1> DEFINE p == CS!basic_dump_ex
           h == <<{}, Ls, Ls, LsAd, Ad, Ad, {}>>
<1>1. Len(p) = 6 /\ Len(h) = 7 /\ h[1] = {}
  BY DEF CS!basic_dump_ex
<1>2. \A i \in 1 .. 6 : TidyStep(h[i], p[i], h[i + 1])
  BY TidySteps DEF CS!basic_dump_ex, Ls, Ad
<1>3. \A i \in 1 .. 6 :
          p[i].op \in CS!Loops /\ p \notin {CS!pktdump_ex, CS!smp_1} =>
              h[i] = CS!Needs(p[i].op)
  BY DEF CS!basic_dump_ex, CS!Do, CS!Try, CS!Loops, CS!Needs, Ad, AdDf
<1>4. \A i \in 1 .. 6 : p[i].op # "save"
  BY DEF CS!basic_dump_ex, CS!Do, CS!Try
<1> HIDE DEF p, h
<1>5. TidyProgram(p, h)
  BY <1>1, <1>2, <1>3, <1>4 DEF TidyProgram
<1>6. QED
  BY <1>5 DEF p

LEMMA TidySavedump == \E h : TidyProgram(CS!savedump, h)
<1> DEFINE p == CS!savedump
           h == <<{}, {}, Ls, Ls, LsAd, LsAdDf, AdDf, AdDf, Df>>
<1>1. Len(p) = 8 /\ Len(h) = 9 /\ h[1] = {}
  BY DEF CS!savedump
<1>2. \A i \in 1 .. 8 : TidyStep(h[i], p[i], h[i + 1])
  BY TidySteps DEF CS!savedump, Ls, Ad
<1>3. \A i \in 1 .. 8 :
          p[i].op \in CS!Loops /\ p \notin {CS!pktdump_ex, CS!smp_1} =>
              h[i] = CS!Needs(p[i].op)
  BY DEF CS!savedump, CS!Do, CS!Try, CS!Loops, CS!Needs, Ad, AdDf
<1>4. p = CS!savedump
  OBVIOUS
<1> HIDE DEF p, h
<1>5. TidyProgram(p, h)
  BY <1>1, <1>2, <1>3, <1>4 DEF TidyProgram
<1>6. QED
  BY <1>5 DEF p

LEMMA TidyPcapFilter == \E h : TidyProgram(CS!pcap_filter, h)
<1> DEFINE p == CS!pcap_filter
           h == <<{}, {}, Ad, Ad, Ad, Ad, AdDf, AdDf, Df, {}>>
<1>1. Len(p) = 9 /\ Len(h) = 10 /\ h[1] = {}
  BY DEF CS!pcap_filter
<1>2. \A i \in 1 .. 9 : TidyStep(h[i], p[i], h[i + 1])
  BY TidySteps DEF CS!pcap_filter, Ls, Ad
<1>3. \A i \in 1 .. 9 :
          p[i].op \in CS!Loops /\ p \notin {CS!pktdump_ex, CS!smp_1} =>
              h[i] = CS!Needs(p[i].op)
  BY DEF CS!pcap_filter, CS!Do, CS!Try, CS!Loops, CS!Needs, Ad, AdDf
<1>4. 9 \in 1 .. 9 /\ p[9].op = "dump_close"
  BY DEF CS!pcap_filter, CS!Do
<1> HIDE DEF p, h
<1>5. TidyProgram(p, h)
  BY <1>1, <1>2, <1>3, <1>4 DEF TidyProgram
<1>6. QED
  BY <1>5 DEF p

LEMMA TidyPktdumpExS == \E h : TidyProgram(CS!pktdump_ex_s, h)
<1> DEFINE p == CS!pktdump_ex_s
           h == <<{}, Ad, Ad, {}>>
<1>1. Len(p) = 3 /\ Len(h) = 4 /\ h[1] = {}
  BY DEF CS!pktdump_ex_s
<1>2. \A i \in 1 .. 3 : TidyStep(h[i], p[i], h[i + 1])
  <2>1. /\ p[1] = CS!Do("open_source") /\ p[2] = CS!Do("loop_or_fail")
        /\ p[3] = CS!Do("close")
    BY DEF CS!pktdump_ex_s
  <2>2. h[1] = {} /\ h[2] = Ad /\ h[3] = Ad /\ h[4] = {}
    OBVIOUS
  <2> HIDE DEF p, h
  <2>3. QED
    BY <2>1, <2>2, TidySteps
<1>3. \A i \in 1 .. 3 :
          p[i].op \in CS!Loops /\ p \notin {CS!pktdump_ex, CS!smp_1} =>
              h[i] = CS!Needs(p[i].op)
  BY DEF CS!pktdump_ex_s, CS!Do, CS!Try, CS!Loops, CS!Needs, Ad, AdDf
<1>4. \A i \in 1 .. 3 : p[i].op # "save"
  BY DEF CS!pktdump_ex_s, CS!Do, CS!Try
<1> HIDE DEF p, h
<1>5. TidyProgram(p, h)
  BY <1>1, <1>2, <1>3, <1>4 DEF TidyProgram
<1>6. QED
  BY <1>5 DEF p

LEMMA TidyPktdumpEx == \E h : TidyProgram(CS!pktdump_ex, h)
<1> DEFINE p == CS!pktdump_ex
           h == <<{}, Ls, Ls, LsAd, LsAd, Ls>>
<1>1. Len(p) = 5 /\ Len(h) = 6 /\ h[1] = {}
  BY DEF CS!pktdump_ex
<1>2. \A i \in 1 .. 5 : TidyStep(h[i], p[i], h[i + 1])
  BY TidySteps DEF CS!pktdump_ex, Ls, Ad
<1>3. \A i \in 1 .. 5 :
          p[i].op \in CS!Loops /\ p \notin {CS!pktdump_ex, CS!smp_1} =>
              h[i] = CS!Needs(p[i].op)
  BY DEF CS!pktdump_ex, CS!Do, CS!Try, CS!Loops, CS!Needs, Ad, AdDf
<1>4. \A i \in 1 .. 5 : p[i].op # "save"
  BY DEF CS!pktdump_ex, CS!Do, CS!Try
<1> HIDE DEF p, h
<1>5. TidyProgram(p, h)
  BY <1>1, <1>2, <1>3, <1>4 DEF TidyProgram
<1>6. QED
  BY <1>5 DEF p

LEMMA TidyTcptop == \E h : TidyProgram(CS!tcptop, h)
<1> DEFINE p == CS!tcptop
           h == <<{}, {}, Ad, Ad, Ad, Ad, Ad, {}>>
<1>1. Len(p) = 7 /\ Len(h) = 8 /\ h[1] = {}
  BY DEF CS!tcptop
<1>2. \A i \in 1 .. 7 : TidyStep(h[i], p[i], h[i + 1])
  BY TidySteps DEF CS!tcptop, Ls, Ad
<1>3. \A i \in 1 .. 7 :
          p[i].op \in CS!Loops /\ p \notin {CS!pktdump_ex, CS!smp_1} =>
              h[i] = CS!Needs(p[i].op)
  BY DEF CS!tcptop, CS!Do, CS!Try, CS!Loops, CS!Needs, Ad, AdDf
<1>4. \A i \in 1 .. 7 : p[i].op # "save"
  BY DEF CS!tcptop, CS!Do, CS!Try
<1> HIDE DEF p, h
<1>5. TidyProgram(p, h)
  BY <1>1, <1>2, <1>3, <1>4 DEF TidyProgram
<1>6. QED
  BY <1>5 DEF p

LEMMA TidySmp1 == \E h : TidyProgram(CS!smp_1, h)
<1> DEFINE p == CS!smp_1
           h == <<{}, Ls, Ls, LsAd, LsAd>>
<1>1. Len(p) = 4 /\ Len(h) = 5 /\ h[1] = {}
  BY DEF CS!smp_1
<1>2. \A i \in 1 .. 4 : TidyStep(h[i], p[i], h[i + 1])
  BY TidySteps DEF CS!smp_1, Ls, Ad
<1>3. \A i \in 1 .. 4 :
          p[i].op \in CS!Loops /\ p \notin {CS!pktdump_ex, CS!smp_1} =>
              h[i] = CS!Needs(p[i].op)
  BY DEF CS!smp_1, CS!Do, CS!Try, CS!Loops, CS!Needs, Ad, AdDf
<1>4. \A i \in 1 .. 4 : p[i].op # "save"
  BY DEF CS!smp_1, CS!Do, CS!Try
<1> HIDE DEF p, h
<1>5. TidyProgram(p, h)
  BY <1>1, <1>2, <1>3, <1>4 DEF TidyProgram
<1>6. QED
  BY <1>5 DEF p

LEMMA EveryProgramTidy ==
    ASSUME NEW p \in CS!Programs
    PROVE  \E h : TidyProgram(p, h)
BY TidyUdpdump, TidyBasicDump, TidyBasicDumpEx, TidySavedump,
   TidyPcapFilter, TidyPktdumpExS, TidyPktdumpEx, TidyTcptop, TidySmp1
   DEF CS!Programs

\* Ls program at work holds what it should before its step; what it has not
\* yet got to the disk it will, by closing the file.
CaptureInv ==
    /\ cs_misused = {}
    /\ cs_at \in 1 .. Len(cs_program) + 1 /\ Len(cs_program) \in Nat
    /\ cs_on_disk \in Nat /\ cs_dumped \in Nat /\ cs_on_disk <= cs_dumped
    /\ \E h : /\ TidyProgram(cs_program, h)
              /\ cs_outcome = "running" => cs_held = h[cs_at]
    /\ cs_on_disk < cs_dumped /\ cs_program # CS!savedump =>
           /\ cs_outcome = "running" =>
                  \E j \in cs_at .. Len(cs_program) :
                      cs_program[j].op = "dump_close"
           /\ cs_outcome # "done"

LEMMA CaptureInitInv == CS!Init => CaptureInv
<1> SUFFICES ASSUME CS!Init PROVE CaptureInv
  OBVIOUS
<1>1. Len(cs_program) \in Nat
  BY DEF CS!Init, CS!Programs, CS!udpdump, CS!basic_dump, CS!basic_dump_ex,
         CS!savedump, CS!pcap_filter, CS!pktdump_ex_s, CS!pktdump_ex,
         CS!tcptop, CS!smp_1
<1>2. \E h : TidyProgram(cs_program, h)
  BY EveryProgramTidy DEF CS!Init
<1>3. QED
  BY <1>1, <1>2 DEF CS!Init, CaptureInv, TidyProgram

LEMMA CaptureStepInv ==
    ASSUME CaptureInv, [CS!Next]_(CS!vars)
    PROVE  CaptureInv'
<1> USE DEF CaptureInv
<1>1. PICK h : /\ TidyProgram(cs_program, h)
               /\ cs_outcome = "running" => cs_held = h[cs_at]
  OBVIOUS
<1> DEFINE step == cs_program[cs_at]
<1>2. ASSUME CS!Running
      PROVE  /\ cs_at \in 1 .. Len(cs_program)
             /\ TidyStep(cs_held, step, h[cs_at + 1])
             /\ step.op = "save" /\ cs_program # CS!savedump =>
                    \E j \in cs_at .. Len(cs_program) :
                        cs_program[j].op = "dump_close"
  BY <1>1, <1>2 DEF CS!Running, TidyProgram
<1>3. CASE CS!Succeed
  <2>1. /\ cs_misused' = {} /\ cs_held' = h[cs_at + 1]
        /\ cs_at' = cs_at + 1 /\ cs_program' = cs_program
        /\ cs_outcome' = cs_outcome /\ cs_dumped' = cs_dumped
        /\ cs_on_disk' = IF step.op = "dump_close" THEN cs_dumped
                         ELSE cs_on_disk
        /\ cs_outcome = "running"
    BY <1>2, <1>3 DEF CS!Succeed, CS!Running, TidyStep
  <2>2. cs_at \in 1 .. Len(cs_program)
    BY <1>2, <1>3 DEF CS!Succeed
  <2>3. ASSUME cs_on_disk' < cs_dumped', cs_program # CS!savedump
        PROVE  \E j \in cs_at + 1 .. Len(cs_program) :
                   cs_program[j].op = "dump_close"
    <3>1. step.op # "dump_close" /\ cs_on_disk < cs_dumped
      BY <2>1, <2>3
    <3>2. PICK j \in cs_at .. Len(cs_program) :
              cs_program[j].op = "dump_close"
      BY <2>1, <2>3, <3>1
    <3>3. j # cs_at
      BY <3>1, <3>2
    <3>4. QED
      BY <2>2, <3>2, <3>3
  <2>4. QED
    BY <1>1, <2>1, <2>2, <2>3
<1>4. CASE CS!Fail
  <2>1. cs_misused' = {}
    BY <1>2, <1>4 DEF CS!Fail, TidyStep
  <2>2. QED
    BY <1>1, <1>4, <2>1 DEF CS!Fail
<1>5. CASE CS!Dump
  BY <1>1, <1>2, <1>5 DEF CS!Dump, CS!Running
<1>6. CASE CS!Flush
  BY <1>1, <1>6 DEF CS!Flush
<1>7. CASE CS!Return
  BY <1>1, <1>7 DEF CS!Return
<1>8. CASE CS!Kill
  BY <1>1, <1>8 DEF CS!Kill
<1>9. CASE UNCHANGED CS!vars
  BY <1>1, <1>9 DEF CS!vars
<1>10. QED
  BY <1>3, <1>4, <1>5, <1>6, <1>7, <1>8, <1>9 DEF CS!Next

\* On no way through any of the samples is something used or given back that
\* is not held; a loop holds what it uses; and a capture that returned has
\* every packet on the disk, except for savedump: for any number of packets.
THEOREM Captures == Spec => []TidyCapture
<1>1. Init => CaptureInv
  BY CaptureInitInv DEF Init
<1>2. CaptureInv /\ [Next]_vars => CaptureInv'
  BY OneProgram, CaptureStepInv
<1>3. CaptureInv => TidyCapture
  <2> SUFFICES ASSUME CaptureInv
               PROVE  /\ CS!NothingMisused /\ CS!HoldsWhatItUses
                      /\ CS!DumpWhole
    BY DEF TidyCapture, CS!TidyCapture
  <2>1. PICK h : /\ TidyProgram(cs_program, h)
                 /\ cs_outcome = "running" => cs_held = h[cs_at]
    BY DEF CaptureInv
  <2>2. CS!HoldsWhatItUses
    BY <2>1 DEF CaptureInv, TidyProgram, CS!HoldsWhatItUses, CS!Running
  <2>3. QED
    BY <2>2 DEF CaptureInv, CS!NothingMisused, CS!DumpWhole
<1>4. QED
  BY <1>1, <1>2, <1>3, PTL DEF Spec

-----------------------------------------------------------------------------
(***************************************************************************)
(* sendcap                                                                 *)
(***************************************************************************)
LEMMA CapConstants ==
    Lengths \subseteq Nat /\ RECORD \in Nat
BY ProgramsAssumption DEF ProgramsAssumption, CP!SendCapAssumption

\* The bytes of the first packets of s, for each number of them.
Accumulated(s, g) ==
    g = [n \in 0 .. Len(s) |->
           IF n = 0 THEN 0 ELSE g[n - 1] + RECORD + s[n]]

LEMMA AccumulatedExists ==
    ASSUME NEW s \in Seq(Lengths)
    PROVE  \E g \in [0 .. Len(s) -> Nat] : Accumulated(s, g)
<1> DEFINE n == Len(s)
           next == [x \in (1 .. n) \X Nat |-> x[2] + RECORD + s[x[1]]]
<1>1. n \in Nat /\ \A i \in 1 .. n : s[i] \in Nat
  BY CapConstants, ElementOfSeq, LenProperties
<1>2. Steps(n, next)
  BY <1>1, CapConstants DEF Steps
<1>3. PICK g : Follows(g, n, next)
  BY <1>2, RecursionExists
<1>4. \A i \in 1 .. n : g[i] = g[i - 1] + RECORD + s[i]
  <2>1. ASSUME NEW i \in 1 .. n
        PROVE  <<i, g[i - 1]>> \in (1 .. n) \X Nat
    BY <1>3 DEF Follows
  <2>2. QED
    BY <1>3, <2>1 DEF Follows
<1>5. g = [i \in 0 .. n |-> IF i = 0 THEN 0 ELSE g[i - 1] + RECORD + s[i]]
  BY <1>3, <1>4 DEF Follows
<1>6. QED
  BY <1>3, <1>5 DEF Follows, Accumulated

LEMMA TotalIsAccumulated ==
    ASSUME NEW s \in Seq(Lengths)
    PROVE  \E g \in [0 .. Len(s) -> Nat] :
               /\ CP!TotalBytes(s) = g[Len(s)]
               /\ g[0] = 0
               /\ \A i \in 1 .. Len(s) : g[i] = g[i - 1] + RECORD + s[i]
<1> DEFINE Is(g) == g = [n \in 0 .. Len(s) |->
                           IF n = 0 THEN 0 ELSE g[n - 1] + RECORD + s[n]]
           c == CHOOSE g : Is(g)
<1>1. \E g : Is(g)
  BY AccumulatedExists DEF Accumulated
<1>2. Is(c)
  BY <1>1
<1>3. CP!TotalBytes(s) = c[Len(s)]
  BY DEF CP!TotalBytes
<1> HIDE DEF c
<1>4. PICK e \in [0 .. Len(s) -> Nat] : Is(e)
  BY AccumulatedExists DEF Accumulated
<1> DEFINE T == {k \in Nat : k <= Len(s) => c[k] = e[k]}
<1>5. /\ c[0] = 0 /\ \A i \in 1 .. Len(s) : c[i] = c[i - 1] + RECORD + s[i]
      /\ e[0] = 0 /\ \A i \in 1 .. Len(s) : e[i] = e[i - 1] + RECORD + s[i]
  <2>1. Len(s) \in Nat
    BY LenProperties
  <2>2. /\ 0 \in 0 .. Len(s)
        /\ \A i \in 1 .. Len(s) : i \in 0 .. Len(s) /\ i # 0
    BY <2>1
  <2>3. \A g : Is(g) =>
          \A n \in 0 .. Len(s) :
              g[n] = IF n = 0 THEN 0 ELSE g[n - 1] + RECORD + s[n]
    OBVIOUS
  <2> HIDE DEF Is
  <2>4. QED
    BY <1>2, <1>4, <2>2, <2>3
<1>6. 0 \in T
  BY <1>5
<1>7. ASSUME NEW k \in T
      PROVE  k + 1 \in T
  <2>1. SUFFICES ASSUME k + 1 <= Len(s)
                 PROVE  c[k + 1] = e[k + 1]
    OBVIOUS
  <2>2. k + 1 \in 1 .. Len(s) /\ (k + 1) - 1 = k /\ c[k] = e[k]
    BY <2>1, LenProperties
  <2>3. QED
    BY <1>5, <2>2
<1> HIDE DEF T
<1>8. \A k \in Nat : k \in T
  <2>1. T \in SUBSET Nat
    BY DEF T
  <2>2. QED
    BY <1>6, <1>7, <2>1, Climb
<1>9. c[Len(s)] = e[Len(s)]
  BY <1>8, LenProperties DEF T
<1>10. QED
  BY <1>3, <1>5, <1>9

LEMMA TotalOfNothing == CP!TotalBytes(<<>>) = 0
<1>1. <<>> \in Seq(Lengths) /\ Len(<<>>) = 0
  OBVIOUS
<1>2. QED
  BY <1>1, TotalIsAccumulated

LEMMA TotalOfOneMore ==
    ASSUME NEW s \in Seq(Lengths), NEW l \in Lengths
    PROVE  CP!TotalBytes(Append(s, l)) = CP!TotalBytes(s) + RECORD + l
<1> DEFINE n == Len(s)
           t == Append(s, l)
<1>1. /\ n \in Nat /\ t \in Seq(Lengths) /\ Len(t) = n + 1
      /\ t[n + 1] = l /\ \A i \in 1 .. n : t[i] = s[i]
  BY LenProperties, AppendProperties
<1> HIDE DEF t
<1>2. PICK g \in [0 .. n -> Nat] :
          /\ CP!TotalBytes(s) = g[n]
          /\ g[0] = 0
          /\ \A i \in 1 .. n : g[i] = g[i - 1] + RECORD + s[i]
  BY TotalIsAccumulated
<1>3. PICK h \in [0 .. n + 1 -> Nat] :
          /\ CP!TotalBytes(t) = h[n + 1]
          /\ h[0] = 0
          /\ \A i \in 1 .. n + 1 : h[i] = h[i - 1] + RECORD + t[i]
  BY <1>1, TotalIsAccumulated
<1> DEFINE T == {k \in Nat : k <= n => g[k] = h[k]}
<1>4. 0 \in T
  BY <1>2, <1>3
<1>5. ASSUME NEW k \in T
      PROVE  k + 1 \in T
  <2>1. SUFFICES ASSUME k + 1 <= n
                 PROVE  g[k + 1] = h[k + 1]
    OBVIOUS
  <2>2. /\ k + 1 \in 1 .. n /\ k + 1 \in 1 .. n + 1 /\ (k + 1) - 1 = k
        /\ g[k] = h[k]
    BY <1>1, <2>1
  <2>3. QED
    BY <1>1, <1>2, <1>3, <2>2
<1> HIDE DEF T
<1>6. n \in T
  <2>1. T \in SUBSET Nat
    BY DEF T
  <2>2. QED
    BY <1>1, <1>4, <1>5, <2>1, Climb
<1>7. g[n] = h[n]
  BY <1>1, <1>6 DEF T
<1>8. h[n + 1] = h[n] + RECORD + l
  <2>1. n + 1 \in 1 .. n + 1 /\ (n + 1) - 1 = n
    BY <1>1
  <2>2. QED
    BY <1>1, <1>3, <2>1
<1>9. QED
  BY <1>2, <1>3, <1>7, <1>8 DEF t

\* Some of the packets do not take more than all of them.
LEMMA TotalGrows ==
    ASSUME NEW s \in Seq(Lengths), NEW n \in 0 .. Len(s)
    PROVE  /\ CP!TotalBytes(s) \in Nat
           /\ CP!TotalBytes(SubSeq(s, 1, n)) \in Nat
           /\ CP!TotalBytes(SubSeq(s, 1, n)) <= CP!TotalBytes(s)
<1> DEFINE B(k) == CP!TotalBytes(SubSeq(s, 1, k))
           T == {k \in Nat : n + k <= Len(s) => B(n) <= B(n + k)}
<1>1. Len(s) \in Nat /\ n \in Nat
  BY LenProperties
<1>2. ASSUME NEW t \in Seq(Lengths)
      PROVE  CP!TotalBytes(t) \in Nat
  <2>1. Len(t) \in 0 .. Len(t)
    BY LenProperties
  <2>2. QED
    BY <2>1, TotalIsAccumulated
<1>3. \A k \in 0 .. Len(s) : B(k) \in Nat
  BY <1>1, <1>2, Cut
<1>4. 0 \in T
  BY <1>1, <1>3
<1>5. ASSUME NEW k \in T
      PROVE  k + 1 \in T
  <2>1. SUFFICES ASSUME n + (k + 1) <= Len(s)
                 PROVE  B(n) <= B(n + (k + 1))
    OBVIOUS
  <2>2. /\ n + k \in 0 .. Len(s) /\ n + (k + 1) \in 0 .. Len(s)
        /\ (n + k) + 1 = n + (k + 1) /\ (n + k) + 1 \in 1 .. Len(s)
    BY <1>1, <2>1
  <2> DEFINE t == SubSeq(s, 1, n + k)
             l == s[(n + k) + 1]
  <2>3. t \in Seq(Lengths) /\ l \in Lengths /\ l \in Nat
    BY <2>2, Cut, ElementOfSeq, CapConstants
  <2>4. SubSeq(s, 1, n + (k + 1)) = Append(t, l)
    BY <1>1, <2>2
  <2>5. B(n + (k + 1)) = CP!TotalBytes(t) + RECORD + l
    <3> HIDE DEF t, l
    <3>1. QED
      BY <2>3, <2>4, TotalOfOneMore
  <2>6. B(n) <= CP!TotalBytes(t)
    BY <1>1, <2>1
  <2>7. B(n) \in Nat /\ CP!TotalBytes(t) \in Nat
    BY <1>1, <1>3, <2>2
  <2> HIDE DEF B, t, l
  <2>8. QED
    BY <2>3, <2>5, <2>6, <2>7, CapConstants
<1>6. B(n) <= B(Len(s))
  <2>1. T \in SUBSET Nat /\ Len(s) - n \in Nat /\ n + (Len(s) - n) = Len(s)
    BY <1>1
  <2> HIDE DEF T
  <2>2. Len(s) - n \in T
    BY <1>4, <1>5, <2>1, Climb
  <2>3. QED
    BY <1>1, <2>1, <2>2 DEF T
<1>7. SubSeq(s, 1, Len(s)) = s
  BY SubSeqFull
<1>8. QED
  BY <1>1, <1>2, <1>3, <1>6, <1>7

CapTypes ==
    /\ cp_capfile \in Seq(Lengths)
    /\ cp_squeue \in Seq(Lengths)
    /\ cp_torn \in Nat /\ cp_caplen \in Nat
    /\ cp_sent \in Seq(Lengths)
    /\ cp_warned \subseteq CP!Warnings

\* The stages at which a file that was measured may be sent.
Measured == {"opening", "filling", "transmitting", "done"}

\* The queue is the beginning of the file, and a file that has not grown is as
\* long as it was.
QueueOfFile ==
    /\ IsPrefix(cp_squeue, cp_capfile)
    /\ cp_pc = "starting" => ~cp_grown
    /\ cp_pc \in {"starting", "opening"} => cp_squeue = <<>>
    /\ cp_pc \in Measured /\ ~cp_grown =>
           cp_caplen = CP!TotalBytes(cp_capfile) + cp_torn

\* No message, no packet left out.
ToldOrWhole ==
    /\ "too_small" \in cp_warned => cp_grown
    /\ cp_pc \in {"starting", "opening", "filling"} => cp_warned = {}
    /\ cp_pc = "transmitting" /\ cp_warned = {} =>
           /\ cp_squeue = cp_readable
           /\ ~cp_grown => cp_squeue = cp_capfile /\ cp_torn = 0
    /\ cp_pc = "done" =>
           /\ IsPrefix(cp_sent, cp_capfile)
           /\ cp_warned = {} => cp_sent = cp_readable
           /\ cp_warned = {} /\ ~cp_grown =>
                  cp_sent = cp_capfile /\ cp_torn = 0

CapInv == CapTypes /\ QueueOfFile /\ ToldOrWhole

LEMMA CapInitInv == CP!Init => CapInv
<1>1. IsPrefix(<<>>, <<>>) /\ <<>> \in Seq(Lengths)
  <2>1. <<>> \in Seq(Lengths)
    OBVIOUS
  <2>2. QED
    BY <2>1, PrefixOfItself
<1>2. QED
  BY <1>1 DEF CP!Init, CapInv, CapTypes, QueueOfFile, ToldOrWhole, Measured

LEMMA CapTypesStep ==
    ASSUME CapInv, [CP!Next]_(CP!vars)
    PROVE  CapTypes'
<1> USE CapConstants DEF CapInv, CapTypes
<1>1. CP!TotalBytes(cp_capfile) \in Nat
  <2>1. Len(cp_capfile) \in 0 .. Len(cp_capfile)
    BY LenProperties
  <2>2. QED
    BY <2>1, TotalGrows
<1>2. CASE CP!Measure
  BY <1>1, <1>2 DEF CP!Measure
<1>3. CASE CP!Queue
  <2>1. Len(cp_squeue) + 1 \in 1 .. Len(cp_capfile)
    BY <1>3, LenProperties DEF CP!Queue, CP!More
  <2>2. QED
    BY <1>3, <2>1, ElementOfSeq, AppendProperties DEF CP!Queue
<1>4. CASE CP!Fail \/ CP!Open \/ CP!EndOfFile \/ UNCHANGED CP!vars
  BY <1>4 DEF CP!Fail, CP!Open, CP!EndOfFile, CP!vars
<1>9. CASE CP!Corrupted
  <2>1. <<>> \in Seq(Lengths)
    OBVIOUS
  <2>2. QED
    BY <1>9, <2>1 DEF CP!Corrupted
<1>5. CASE CP!QueueFull
  BY <1>5 DEF CP!QueueFull, CP!Warnings
<1>8. CASE CP!Transmit
  <2>1. PICK n \in 0 .. Len(cp_squeue) : cp_sent' = SubSeq(cp_squeue, 1, n)
    BY <1>8 DEF CP!Transmit
  <2>2. cp_sent' \in Seq(Lengths)
    BY <2>1, Cut
  <2>3. QED
    BY <1>8, <2>2 DEF CP!Transmit, CP!Warnings
<1>6. CASE CP!WritePart
  <2>1. cp_torn' \in Nat
    BY <1>6 DEF CP!WritePart
  <2>2. QED
    BY <1>6, <2>1 DEF CP!WritePart
<1>10. CASE CP!WriteRest
  <2>1. cp_capfile' \in Seq(Lengths)
    BY <1>10, AppendProperties DEF CP!WriteRest
  <2>2. QED
    BY <1>10, <2>1 DEF CP!WriteRest
<1>7. QED
  BY <1>2, <1>3, <1>4, <1>5, <1>6, <1>8, <1>9,
     <1>10 DEF CP!Next

\* The next packet of the file, put behind those in the queue.
LEMMA NextQueued ==
    ASSUME CapInv, CP!More
    PROVE  /\ cp_capfile[Len(cp_squeue) + 1] \in Lengths
           /\ IsPrefix(Append(cp_squeue, cp_capfile[Len(cp_squeue) + 1]),
                       cp_capfile)
           /\ CP!TotalBytes(cp_squeue) + RECORD
                  + cp_capfile[Len(cp_squeue) + 1]
                  <= CP!TotalBytes(cp_capfile)
<1> DEFINE n == Len(cp_squeue)
           l == cp_capfile[n + 1]
           s == Append(cp_squeue, l)
<1>1. /\ cp_squeue \in Seq(Lengths) /\ cp_capfile \in Seq(Lengths)
      /\ IsPrefix(cp_squeue, cp_capfile)
  BY DEF CapInv, CapTypes, QueueOfFile
<1>2. n \in Nat /\ n + 1 \in 1 .. Len(cp_capfile)
  BY <1>1, LenProperties DEF CP!More
<1>3. l \in Lengths
  BY <1>1, <1>2, ElementOfSeq
<1>4. SubSeq(cp_capfile, 1, n) = cp_squeue
  BY <1>1, SubSeqFull DEF IsPrefix
<1>5. SubSeq(cp_capfile, 1, n + 1) = s
  BY <1>1, <1>2, <1>4
<1>6. /\ s \in Seq(Lengths) /\ Len(s) = n + 1
      /\ CP!TotalBytes(s) = CP!TotalBytes(cp_squeue) + RECORD + l
  BY <1>1, <1>3, TotalOfOneMore, AppendProperties
<1>7. CP!TotalBytes(s) <= CP!TotalBytes(cp_capfile)
  <2>1. n + 1 \in 0 .. Len(cp_capfile)
    BY <1>2
  <2>2. QED
    BY <1>1, <1>5, <2>1, TotalGrows
<1>8. IsPrefix(s, cp_capfile)
  <2> HIDE DEF s
  <2>1. SubSeq(s, 1, n + 1) = s
    BY <1>6, SubSeqFull
  <2>2. QED
    BY <1>2, <1>5, <1>6, <2>1 DEF IsPrefix
<1>9. QED
  BY <1>3, <1>6, <1>7, <1>8

LEMMA QueueOfFileStep ==
    ASSUME CapInv, [CP!Next]_(CP!vars)
    PROVE  QueueOfFile'
<1> USE DEF CapInv, CapTypes, QueueOfFile, Measured
<1>1. IsPrefix(<<>>, cp_capfile)
  BY LenProperties, SubSeqEmpty DEF IsPrefix
<1>2. CASE CP!Measure
  BY <1>2 DEF CP!Measure
<1>3. CASE CP!Queue
  BY <1>3, NextQueued DEF CP!Queue
<1>4. CASE CP!Fail \/ CP!Open \/ CP!EndOfFile \/ UNCHANGED CP!vars
  BY <1>4 DEF CP!Fail, CP!Open, CP!EndOfFile, CP!vars
<1>5. CASE CP!QueueFull \/ CP!Transmit
  BY <1>5 DEF CP!QueueFull, CP!Transmit
<1>6. CASE CP!Corrupted
  BY <1>1, <1>6 DEF CP!Corrupted
<1>7. CASE CP!WritePart
  BY <1>7 DEF CP!WritePart, CP!Grown
<1>8. CASE CP!WriteRest
  BY <1>8, PrefixAppend DEF CP!WriteRest, CP!Grown
<1>9. QED
  BY <1>2, <1>3, <1>4, <1>5, <1>6, <1>7, <1>8 DEF CP!Next

LEMMA ToldOrWholeStep ==
    ASSUME CapInv, [CP!Next]_(CP!vars)
    PROVE  ToldOrWhole'
<1> USE DEF CapInv, CapTypes, ToldOrWhole
<1>1. CASE CP!Measure \/ CP!Open \/ CP!Fail \/ CP!Corrupted
           \/ UNCHANGED CP!vars
  BY <1>1 DEF CP!Measure, CP!Open, CP!Fail, CP!Corrupted, CP!vars
<1>2. CASE CP!Queue
  BY <1>2 DEF CP!Queue
<1>3. CASE CP!QueueFull
  <2>1. ASSUME ~cp_grown
        PROVE  FALSE
    <3>1. cp_caplen = CP!TotalBytes(cp_capfile) + cp_torn
      BY <1>3, <2>1 DEF CP!QueueFull, QueueOfFile, Measured
    <3>2. ~ (CP!TotalBytes(cp_squeue) + RECORD
                 + cp_capfile[Len(cp_squeue) + 1] <= cp_caplen)
      BY <1>3 DEF CP!QueueFull, CP!Fits
    <3>3. /\ CP!TotalBytes(cp_squeue) + RECORD
                 + cp_capfile[Len(cp_squeue) + 1]
                 <= CP!TotalBytes(cp_capfile)
          /\ cp_capfile[Len(cp_squeue) + 1] \in Nat
      BY <1>3, NextQueued, CapConstants DEF CP!QueueFull
    <3>4. /\ CP!TotalBytes(cp_squeue) \in Nat
          /\ CP!TotalBytes(cp_capfile) \in Nat
      <4>1. /\ Len(cp_squeue) \in 0 .. Len(cp_squeue)
            /\ Len(cp_capfile) \in 0 .. Len(cp_capfile)
        BY LenProperties
      <4>2. QED
        BY <4>1, TotalGrows
    <3>5. QED
      BY <3>1, <3>2, <3>3, <3>4, CapConstants
  <2>2. QED
    BY <1>3, <2>1 DEF CP!QueueFull
<1>4. CASE CP!EndOfFile
  <2>1. cp_squeue = cp_capfile
    <3>1. Len(cp_squeue) = Len(cp_capfile)
      BY <1>4, LenProperties
         DEF CP!EndOfFile, CP!More, QueueOfFile, IsPrefix
    <3>2. QED
      BY <3>1, SubSeqFull DEF QueueOfFile, IsPrefix
  <2>2. QED
    BY <1>4, <2>1 DEF CP!EndOfFile
<1>5. CASE CP!Transmit
  <2>1. PICK n \in 0 .. Len(cp_squeue) :
            /\ cp_sent' = SubSeq(cp_squeue, 1, n)
            /\ cp_warned' = IF n < Len(cp_squeue)
                            THEN cp_warned \cup {"send_error"}
                            ELSE cp_warned
    BY <1>5 DEF CP!Transmit
  <2>2. IsPrefix(cp_sent', cp_capfile)
    <3>1. \E u \in Seq(Lengths) : cp_capfile = cp_squeue \o u
      <4>1. /\ cp_squeue \in Seq(Lengths) /\ cp_capfile \in Seq(Lengths)
            /\ IsPrefix(cp_squeue, cp_capfile)
        BY DEF QueueOfFile
      <4>2. QED
        BY <4>1, ConcatOfPrefix
    <3>2. /\ SubSeq(cp_squeue, 1, n) \in Seq(Lengths)
          /\ SubSeq(cp_squeue, n + 1, Len(cp_squeue)) \in Seq(Lengths)
          /\ SubSeq(cp_squeue, 1, n)
                 \o SubSeq(cp_squeue, n + 1, Len(cp_squeue)) = cp_squeue
      BY Cut
    <3>3. IsPrefix(SubSeq(cp_squeue, 1, n), cp_squeue)
      BY <3>2, PrefixOfConcat
    <3>4. QED
      BY <2>1, <3>1, <3>2, <3>3, PrefixGrows DEF QueueOfFile
  <2>3. ASSUME cp_warned' = {}
        PROVE  cp_warned = {} /\ cp_sent' = cp_squeue
    <3>1. ~ (n < Len(cp_squeue))
      BY <2>1, <2>3
    <3>2. n = Len(cp_squeue)
      BY <3>1, LenProperties
    <3>3. QED
      BY <2>1, <2>3, <3>1, <3>2, SubSeqFull
  <2>4. "too_small" \in cp_warned' => "too_small" \in cp_warned
    BY <2>1
  <2>5. QED
    BY <1>5, <2>2, <2>3, <2>4 DEF CP!Transmit
<1>6. CASE CP!WritePart \/ CP!WriteRest
  <2>1. cp_grown' = (cp_grown \/ cp_pc # "starting")
    BY <1>6 DEF CP!WritePart, CP!WriteRest, CP!Grown
  <2>2. IsPrefix(cp_sent, cp_capfile) => IsPrefix(cp_sent, cp_capfile')
    BY <1>6, PrefixAppend DEF CP!WritePart, CP!WriteRest
  <2>3. QED
    BY <1>6, <2>1, <2>2 DEF CP!WritePart, CP!WriteRest
<1>7. QED
  BY <1>1, <1>2, <1>3, <1>4, <1>5, <1>6 DEF CP!Next

\* Whatever is written to the file meanwhile, for packets of every length:
\* what could be read when the reading ended is sent whole or with a message,
\* and so is all of an unchanged file; the message that the queue is too small
\* is about a file that has grown, and what is sent is its beginning.
THEOREM Sendcap == Spec => []WholeOrTold
<1>1. Init => CapInv
  BY CapInitInv DEF Init
<1>2. CapInv /\ [Next]_vars => CapInv'
  BY OneProgram, CapTypesStep, QueueOfFileStep, ToldOrWholeStep DEF CapInv
<1>3. CapInv => WholeOrTold
  BY DEF CapInv, ToldOrWhole, WholeOrTold, CP!WholeOrTold, IsPrefix,
         CP!IsPrefix
<1>4. QED
  BY <1>1, <1>2, <1>3, PTL DEF Spec

-----------------------------------------------------------------------------
(***************************************************************************)
(* The packet driver samples: how the driver lays names and packets out,   *)
(* and how far the two walks through that are.                             *)
(***************************************************************************)
LEMMA DriverConstants ==
    /\ NameLists \subseteq Seq(Seq(Nat \ {0}) \ {<<>>})
    /\ ALIGNMENT \in Nat \ {0}
    /\ Max_Num_Adapter \in Nat \ {0} /\ ROW \in Nat \ {0}
    /\ Inputs \subseteq Int
    /\ Blocks \subseteq Seq([bh_hdrlen : Nat \ {0}, bh_caplen : Nat])
BY ProgramsAssumption DEF ProgramsAssumption, PD!PacketDriverAssumption

\* The driver samples have the operators of the library from their own module.
LEMMA SameOperators ==
    /\ \A s : PD!FlattenSeq(s) = FlattenSeq(s)
    /\ \A s, t : PD!IsPrefix(s, t) = IsPrefix(s, t)
BY DEF PD!FlattenSeq, FlattenSeq, PD!IsPrefix, IsPrefix

\* The names of adapters: no character of theirs is zero.
NonEmptyNames == Seq(Nat \ {0}) \ {<<>>}

\* The names with the byte that ends each, and where the ith of them ends.
Ended(s) == [k \in DOMAIN s |-> s[k] \o <<0>>]

EndOf(s, i) == Len(FlattenSeq(SubSeq(Ended(s), 1, i)))

\* One name more takes up its characters and the byte that ends it.
LEMMA NameInMemory ==
    ASSUME NEW s \in Seq(NonEmptyNames), NEW i \in 1 .. Len(s)
    PROVE  /\ EndOf(s, i - 1) \in Nat
           /\ EndOf(s, i) = EndOf(s, i - 1) + Len(s[i]) + 1
           /\ \A j \in 1 .. Len(s[i]) :
                PD!NameBytes(s)[EndOf(s, i - 1) + j] = s[i][j]
           /\ PD!NameBytes(s)[EndOf(s, i)] = 0
           /\ EndOf(s, i) + 2 <= Len(PD!NameBytes(s))
           /\ PD!NameBytes(s) \in Seq(Nat)
<1> DEFINE e == Ended(s)
           a == SubSeq(e, 1, i - 1)
           c == SubSeq(e, i + 1, Len(e))
           x == FlattenSeq(a)
           z == FlattenSeq(c)
<1>1. /\ Len(s) \in Nat /\ DOMAIN s = 1 .. Len(s)
      /\ \A k \in 1 .. Len(s) : s[k] \in Seq(Nat \ {0}) /\ s[k] \in Seq(Nat)
  BY DEF NonEmptyNames
<1>2. <<0>> \in Seq(Nat) /\ <<0, 0>> \in Seq(Nat) /\ Len(<<0, 0>>) = 2
  OBVIOUS
<1>3. \A k \in 1 .. Len(s) : s[k] \o <<0>> \in Seq(Nat)
  BY <1>1, <1>2, ConcatProperties
<1>4. e \in Seq(Seq(Nat)) /\ Len(e) = Len(s) /\ e[i] = s[i] \o <<0>>
  BY <1>1, <1>3 DEF Ended
<1> HIDE DEF e
<1>5. /\ a \in Seq(Seq(Nat)) /\ Len(a) = i - 1 /\ e[i] \in Seq(Nat)
      /\ c \in Seq(Seq(Nat)) /\ e = a \o (<<e[i]>> \o c)
  BY <1>4, AroundAt
<1>6. SubSeq(e, 1, i) = a \o <<e[i]>>
  <2>1. 1 \in 1 .. Len(e) /\ i \in 1 .. Len(e)
    BY <1>4
  <2>2. QED
    BY <1>4, <2>1, SubSeqRecursiveSecond
<1> HIDE DEF a, c
<1>7. x \in Seq(Nat) /\ z \in Seq(Nat)
  BY <1>5, FlattenType
<1>8. /\ <<e[i]>> \in Seq(Seq(Nat)) /\ FlattenSeq(<<e[i]>>) = e[i]
      /\ <<e[i]>> \o c \in Seq(Seq(Nat))
  <2>1. <<e[i]>> \in Seq(Seq(Nat))
    BY <1>5
  <2>2. QED
    BY <1>5, <2>1, FlattenOne, ConcatProperties
<1>9. FlattenSeq(SubSeq(e, 1, i)) = x \o e[i]
  BY <1>5, <1>6, <1>8, FlattenConcat
<1>10. FlattenSeq(e) = x \o (e[i] \o z)
  <2>1. FlattenSeq(<<e[i]>> \o c) = e[i] \o z
    BY <1>5, <1>8, FlattenConcat
  <2>2. FlattenSeq(a \o (<<e[i]>> \o c)) = x \o FlattenSeq(<<e[i]>> \o c)
    BY <1>5, <1>8, FlattenConcat
  <2>3. QED
    BY <1>5, <2>1, <2>2
<1> HIDE DEF x, z
<1> DEFINE t == e[i] \o z
           A == (x \o t) \o <<0, 0>>
<1>11. PD!NameBytes(s) = A
  BY <1>10, SameOperators DEF PD!NameBytes, Ended, e
<1>12. EndOf(s, i - 1) = Len(x) /\ EndOf(s, i) = Len(x \o e[i])
  BY <1>9 DEF EndOf, e, a, x
<1>13. /\ Len(e[i]) = Len(s[i]) + 1 /\ e[i][Len(s[i]) + 1] = 0
       /\ \A j \in 1 .. Len(s[i]) : e[i][j] = s[i][j]
       /\ Len(s[i]) \in Nat
  BY <1>1, <1>2, <1>4, ConcatProperties
<1>14. /\ t \in Seq(Nat) /\ Len(t) = Len(e[i]) + Len(z)
       /\ \A j \in 1 .. Len(e[i]) : t[j] = e[i][j]
       /\ Len(e[i]) \in Nat /\ Len(z) \in Nat /\ Len(x) \in Nat
       /\ Len(x \o e[i]) = Len(x) + Len(e[i])
  BY <1>5, <1>7, ConcatProperties
<1> HIDE DEF t
<1>15. /\ x \o t \in Seq(Nat) /\ Len(x \o t) = Len(x) + Len(t)
       /\ \A j \in 1 .. Len(e[i]) : (x \o t)[Len(x) + j] = t[j]
  <2>1. x \in Seq(Nat) /\ t \in Seq(Nat)
    BY <1>7, <1>14
  <2>2. /\ x \o t \in Seq(Nat) /\ Len(x \o t) = Len(x) + Len(t)
        /\ \A j \in 1 .. Len(t) : (x \o t)[Len(x) + j] = t[j]
    BY <2>1, ConcatAt
  <2>3. QED
    BY <1>14, <2>2
<1>16. /\ A \in Seq(Nat) /\ Len(A) = Len(x \o t) + 2
       /\ \A j \in 1 .. Len(x \o t) : A[j] = (x \o t)[j]
  BY <1>2, <1>15, ConcatProperties
<1>17. \A j \in 1 .. Len(e[i]) : A[Len(x) + j] = e[i][j]
  <2>1. \A j \in 1 .. Len(e[i]) : Len(x) + j \in 1 .. Len(x \o t)
    BY <1>14, <1>15
  <2>2. QED
    BY <2>1, <1>14, <1>15, <1>16
<1> HIDE DEF A
<1>18. \A j \in 1 .. Len(s[i]) : A[Len(x) + j] = s[i][j]
  BY <1>13, <1>17
<1>19. A[Len(x) + Len(e[i])] = 0
  BY <1>13, <1>17
<1>20. /\ EndOf(s, i - 1) \in Nat
       /\ EndOf(s, i) = EndOf(s, i - 1) + Len(s[i]) + 1
       /\ EndOf(s, i) = Len(x) + Len(e[i])
       /\ EndOf(s, i) + 2 <= Len(A)
  <2>1. /\ EndOf(s, i - 1) = Len(x) /\ EndOf(s, i) = Len(x) + Len(e[i])
        /\ Len(e[i]) = Len(s[i]) + 1 /\ Len(s[i]) \in Nat
    BY <1>12, <1>13, <1>14
  <2>2. /\ Len(A) = Len(x) + (Len(e[i]) + Len(z)) + 2
        /\ Len(x) \in Nat /\ Len(z) \in Nat
    BY <1>14, <1>15, <1>16
  <2>3. QED
    BY <2>1, <2>2
<1>21. QED
  BY <1>11, <1>12, <1>16, <1>18, <1>19, <1>20

\* Two bytes more end the list.
LEMMA NamesInMemory ==
    ASSUME NEW s \in Seq(NonEmptyNames)
    PROVE  /\ EndOf(s, 0) = 0
           /\ \A i \in 0 .. Len(s) : EndOf(s, i) \in Nat
           /\ PD!NameBytes(s)[EndOf(s, Len(s)) + 1] = 0
           /\ PD!NameBytes(s)[EndOf(s, Len(s)) + 2] = 0
           /\ PD!NameBytes(s) # <<>>
<1> DEFINE e == Ended(s)
           x == FlattenSeq(e)
<1>1. /\ Len(s) \in Nat /\ DOMAIN s = 1 .. Len(s)
      /\ \A k \in 1 .. Len(s) : s[k] \in Seq(Nat \ {0}) /\ s[k] \in Seq(Nat)
  BY DEF NonEmptyNames
<1>2. <<0>> \in Seq(Nat) /\ <<0, 0>> \in Seq(Nat) /\ Len(<<0, 0>>) = 2
  OBVIOUS
<1>3. \A k \in 1 .. Len(s) : s[k] \o <<0>> \in Seq(Nat)
  BY <1>1, <1>2, ConcatProperties
<1>4. e \in Seq(Seq(Nat)) /\ Len(e) = Len(s)
  BY <1>1, <1>3 DEF Ended
<1> HIDE DEF e
<1>5. PD!NameBytes(s) = x \o <<0, 0>>
  BY SameOperators DEF PD!NameBytes, Ended, e
<1>6. SubSeq(e, 1, Len(s)) = e /\ SubSeq(e, 1, 0) = <<>>
  BY <1>4, SubSeqFull, SubSeqEmpty
<1>7. EndOf(s, Len(s)) = Len(x) /\ EndOf(s, 0) = 0
  <2>1. SubSeq(Ended(s), 1, Len(s)) = e /\ SubSeq(Ended(s), 1, 0) = <<>>
    BY <1>6 DEF e
  <2>2. Len(<<>>) = 0
    OBVIOUS
  <2>3. QED
    BY <2>1, <2>2, FlattenEmpty DEF EndOf
<1>8. x \in Seq(Nat)
  BY <1>4, FlattenType
<1>9. ASSUME NEW i \in 0 .. Len(s)
      PROVE  EndOf(s, i) \in Nat
  <2>1. SubSeq(e, 1, i) \in Seq(Seq(Nat))
    BY <1>4, Cut
  <2>2. FlattenSeq(SubSeq(e, 1, i)) \in Seq(Nat)
    BY <2>1, FlattenType
  <2>3. QED
    BY <2>2, LenProperties DEF EndOf, e
<1> HIDE DEF x
<1>10. /\ Len(x) \in Nat /\ Len(x \o <<0, 0>>) = Len(x) + 2
       /\ (x \o <<0, 0>>)[Len(x) + 1] = <<0, 0>>[1]
       /\ (x \o <<0, 0>>)[Len(x) + 2] = <<0, 0>>[2]
  BY <1>2, <1>8, ConcatProperties
<1>11. x \o <<0, 0>> # <<>>
  BY <1>10
<1>12. QED
  BY <1>5, <1>7, <1>9, <1>10, <1>11

\* No characters are left over between two of them.
Splitting ==
    \E i \in 0 .. Len(pd_installed) :
      \E k \in 0 .. (IF i < Len(pd_installed)
                     THEN Len(pd_installed[i + 1]) ELSE 0) :
        /\ pd_AdapterList = SubSeq(pd_installed, 1, i)
        /\ pd_temp1 = EndOf(pd_installed, i)
        /\ pd_temp = pd_temp1 + k

\* The byte in front of an empty list was taken for the end of a name.
NameMadeUp ==
    /\ pd_installed = <<>> /\ pd_before # 0
    /\ pd_AdapterList = << <<>> >> /\ pd_temp = 1

SplitInv ==
    /\ pd_installed \in Seq(NonEmptyNames)
    /\ pd_before \in {0, 1}
    /\ pd_pc = "listing" =>
         /\ pd_AdapterName = <<>> /\ pd_AdapterList = <<>>
         /\ pd_temp = 0 /\ pd_temp1 = 0
    /\ pd_pc = "splitting" =>
         /\ pd_AdapterName = PD!NameBytes(pd_installed)
         /\ Splitting \/ NameMadeUp
    /\ PD!NamesSplit

LEMMA InitSplit == PD!Init => SplitInv
BY DriverConstants DEF PD!Init, SplitInv, PD!NamesSplit, NonEmptyNames

\* What the walk finds where it is.
LEMMA WhatIsThere ==
    ASSUME pd_installed \in Seq(NonEmptyNames),
           pd_AdapterName = PD!NameBytes(pd_installed),
           NEW i \in 0 .. Len(pd_installed),
           NEW k \in 0 .. (IF i < Len(pd_installed)
                           THEN Len(pd_installed[i + 1]) ELSE 0),
           pd_temp = EndOf(pd_installed, i) + k
    PROVE  /\ i < Len(pd_installed) /\ k < Len(pd_installed[i + 1]) =>
                PD!At(pd_temp) # 0
           /\ i < Len(pd_installed) /\ k = Len(pd_installed[i + 1]) =>
                PD!At(pd_temp) = 0 /\ PD!At(pd_temp - 1) # 0
           /\ i = Len(pd_installed) => PD!At(pd_temp) = 0
           /\ i = Len(pd_installed) /\ i > 0 => PD!At(pd_temp - 1) = 0
<1> DEFINE s == pd_installed
           E == EndOf(s, i)
           A == PD!NameBytes(s)
<1>1. /\ Len(s) \in Nat /\ i \in Nat /\ k \in Nat /\ i <= Len(s)
      /\ E \in Nat
      /\ A[EndOf(s, Len(s)) + 1] = 0
  BY NamesInMemory DEF NonEmptyNames
<1>2. CASE i < Len(s)
  <2>1. i + 1 \in 1 .. Len(s) /\ (i + 1) - 1 = i
    BY <1>1, <1>2
  <2>2. /\ EndOf(s, i + 1) = E + Len(s[i + 1]) + 1
        /\ \A j \in 1 .. Len(s[i + 1]) : A[E + j] = s[i + 1][j]
        /\ A[EndOf(s, i + 1)] = 0
    BY <2>1, NameInMemory
  <2>3. /\ Len(s[i + 1]) \in Nat \ {0}
        /\ \A j \in 1 .. Len(s[i + 1]) : s[i + 1][j] # 0
        /\ k \in 0 .. Len(s[i + 1])
    <3>1. s[i + 1] \in Seq(Nat \ {0}) /\ s[i + 1] # <<>>
      BY <2>1 DEF NonEmptyNames
    <3>2. QED
      BY <3>1, <1>2, EmptySeq, LenProperties, ElementOfSeq
  <2> HIDE DEF E, A, s
  <2>4. CASE k < Len(s[i + 1])
    <3>1. k + 1 \in 1 .. Len(s[i + 1]) /\ E + (k + 1) = (E + k) + 1
          /\ E + k # -1
      BY <1>1, <2>3, <2>4
    <3>2. A[(E + k) + 1] # 0
      BY <2>2, <2>3, <3>1
    <3>3. QED
      BY <1>1, <1>2, <2>4, <3>1, <3>2 DEF PD!At, E, A, s
  <2>5. CASE k = Len(s[i + 1])
    <3>1. /\ k \in 1 .. Len(s[i + 1]) /\ E + k # -1 /\ (E + k) - 1 # -1
          /\ ((E + k) - 1) + 1 = E + k /\ EndOf(s, i + 1) = (E + k) + 1
      BY <1>1, <2>2, <2>3, <2>5
    <3>2. A[(E + k) + 1] = 0 /\ A[E + k] # 0
      BY <2>2, <2>3, <3>1
    <3>3. QED
      BY <1>1, <1>2, <2>5, <3>1, <3>2 DEF PD!At, E, A, s
  <2>6. QED
    BY <1>2, <2>3, <2>4, <2>5 DEF s
<1>3. CASE i = Len(s)
  <2>1. k = 0 /\ pd_temp = E
    BY <1>1, <1>3
  <2>2. PD!At(pd_temp) = 0
    BY <1>1, <1>3, <2>1 DEF PD!At
  <2>3. ASSUME i > 0
        PROVE  PD!At(pd_temp - 1) = 0
    <3>1. i \in 1 .. Len(s) /\ Len(s[i]) \in Nat
      BY <1>1, <1>3, <2>3 DEF NonEmptyNames
    <3>2. E = EndOf(s, i - 1) + Len(s[i]) + 1 /\ A[E] = 0
          /\ EndOf(s, i - 1) \in Nat
      BY <3>1, NameInMemory
    <3> HIDE DEF E, A, s
    <3>3. E - 1 # -1 /\ (E - 1) + 1 = E
      BY <3>1, <3>2
    <3>4. QED
      BY <2>1, <3>2, <3>3 DEF PD!At, A, s
  <2>4. QED
    BY <1>3, <2>2, <2>3
<1>4. QED
  BY <1>1, <1>2, <1>3

\* A list without names has nothing but zeros.
LEMMA NoNamesInMemory ==
    ASSUME NEW s \in Seq(NonEmptyNames), s = <<>>
    PROVE  Len(s) = 0 /\ PD!NameBytes(s)[1] = 0 /\ PD!NameBytes(s)[2] = 0
<1>1. Len(s) = 0
  OBVIOUS
<1>2. EndOf(s, Len(s)) = 0
  BY <1>1, NamesInMemory
<1>3. EndOf(s, Len(s)) + 1 = 1 /\ EndOf(s, Len(s)) + 2 = 2
  BY <1>2
<1>4. /\ PD!NameBytes(s)[EndOf(s, Len(s)) + 1] = 0
      /\ PD!NameBytes(s)[EndOf(s, Len(s)) + 2] = 0
  BY NamesInMemory
<1>5. QED
  BY <1>1, <1>3, <1>4

LEMMA SplitStep ==
    ASSUME SplitInv, [PD!Next]_(PD!vars)
    PROVE  SplitInv'
<1> DEFINE s == pd_installed
           Same == UNCHANGED <<pd_program, pd_installed, pd_AdapterName,
                               pd_before, pd_temp, pd_temp1, pd_AdapterList,
                               pd_Open>>
<1>0. /\ s \in Seq(NonEmptyNames) /\ pd_before \in {0, 1}
      /\ Len(s) \in Nat /\ PD!NameBytes(s) # <<>>
  BY NamesInMemory, LenProperties DEF SplitInv
<1>1. CASE PD!GetAdapterNames
  <2>1. /\ pd_AdapterList = SubSeq(s, 1, 0) /\ pd_temp1 = EndOf(s, 0)
        /\ pd_temp = pd_temp1 + 0
    BY <1>0, <1>1, NamesInMemory, SubSeqEmpty DEF SplitInv, PD!GetAdapterNames
  <2>2. 0 \in 0 .. Len(s)
        /\ 0 \in 0 .. (IF 0 < Len(s) THEN Len(s[0 + 1]) ELSE 0)
    BY <1>0, ElementOfSeq, LenProperties DEF NonEmptyNames
  <2>3. Splitting
    BY <2>1, <2>2 DEF Splitting
  <2>4. QED
    BY <1>0, <1>1, <2>3
       DEF SplitInv, PD!GetAdapterNames, Splitting, PD!NamesSplit
<1>2. CASE PD!InName
  <2>1. /\ PD!At(pd_temp) # 0
        /\ pd_AdapterName = PD!NameBytes(s) /\ (Splitting \/ NameMadeUp)
    BY <1>2 DEF PD!InName, SplitInv
  <2>2. ~ NameMadeUp
    BY <1>0, <2>1, NoNamesInMemory DEF NameMadeUp, PD!At
  <2>3. PICK i \in 0 .. Len(s) :
          \E k \in 0 .. (IF i < Len(s) THEN Len(s[i + 1]) ELSE 0) :
            /\ pd_AdapterList = SubSeq(s, 1, i) /\ pd_temp1 = EndOf(s, i)
            /\ pd_temp = pd_temp1 + k
    BY <2>1, <2>2 DEF Splitting
  <2>4. PICK k \in 0 .. (IF i < Len(s) THEN Len(s[i + 1]) ELSE 0) :
            /\ pd_AdapterList = SubSeq(s, 1, i) /\ pd_temp1 = EndOf(s, i)
            /\ pd_temp = pd_temp1 + k
    BY <2>3
  <2>5. i < Len(s) /\ k < Len(s[i + 1])
    <3>1. i # Len(s) /\ (i < Len(s) => k # Len(s[i + 1]))
      BY <1>0, <2>1, <2>4, WhatIsThere
    <3>2. i < Len(s)
      BY <1>0, <3>1
    <3>3. i + 1 \in 1 .. Len(s)
      BY <1>0, <3>2
    <3>4. s[i + 1] \in Seq(Nat \ {0})
      BY <1>0, <3>3, ElementOfSeq DEF NonEmptyNames
    <3>5. Len(s[i + 1]) \in Nat
      BY <3>4, LenProperties
    <3>6. QED
      BY <3>1, <3>2, <3>5
  <2>6. i + 1 \in 1 .. Len(s)
    BY <1>0, <2>5
  <2>7. Len(s[i + 1]) \in Nat
    BY <1>0, <2>6, ElementOfSeq, LenProperties DEF NonEmptyNames
  <2>8. k + 1 \in 0 .. (IF i < Len(s) THEN Len(s[i + 1]) ELSE 0)
    BY <2>5, <2>7
  <2>9. pd_temp1 \in Nat
    BY <1>0, <2>4, NamesInMemory
  <2>10. pd_temp' = pd_temp1 + (k + 1)
    BY <1>2, <2>4, <2>9 DEF PD!InName
  <2>11. Splitting'
    BY <1>2, <2>4, <2>8, <2>10 DEF Splitting, PD!InName
  <2>12. QED
    BY <1>0, <1>2, <2>1, <2>11 DEF SplitInv, PD!InName, PD!NamesSplit
<1>3. CASE PD!EndOfName
  <2>1. /\ PD!At(pd_temp) = 0 /\ PD!At(pd_temp - 1) # 0
        /\ pd_AdapterName = PD!NameBytes(s) /\ (Splitting \/ NameMadeUp)
    BY <1>3 DEF PD!EndOfName, SplitInv, PD!InList
  <2>2. ~ NameMadeUp
    BY <1>0, <2>1, NoNamesInMemory DEF NameMadeUp, PD!At
  <2>3. PICK i \in 0 .. Len(s) :
          \E k \in 0 .. (IF i < Len(s) THEN Len(s[i + 1]) ELSE 0) :
            /\ pd_AdapterList = SubSeq(s, 1, i) /\ pd_temp1 = EndOf(s, i)
            /\ pd_temp = pd_temp1 + k
    BY <2>1, <2>2 DEF Splitting
  <2>4. PICK k \in 0 .. (IF i < Len(s) THEN Len(s[i + 1]) ELSE 0) :
            /\ pd_AdapterList = SubSeq(s, 1, i) /\ pd_temp1 = EndOf(s, i)
            /\ pd_temp = pd_temp1 + k
    BY <2>3
  <2>5. pd_temp1 \in Nat
    BY <1>0, <2>4, NamesInMemory
  <2>6. CASE i = Len(s)
    <3>1. i = 0
      BY <1>0, <2>1, <2>4, <2>6, WhatIsThere
    <3>2. s = <<>> /\ pd_temp = 0 /\ pd_temp1 = 0
      <4>1. s = <<>>
        BY <1>0, <2>6, <3>1, EmptySeq
      <4>2. pd_temp1 = 0 /\ k = 0
        BY <1>0, <2>4, <2>6, <3>1, NamesInMemory
      <4>3. QED
        BY <2>4, <4>1, <4>2
    <3>3. pd_before # 0
      BY <2>1, <3>2 DEF PD!At
    <3>4. PD!Name = <<>> /\ pd_AdapterList = <<>>
      <4>1. pd_AdapterList = <<>>
        BY <1>0, <2>4, <3>1, SubSeqEmpty
      <4>2. QED
        BY <3>2, <4>1, SubSeqEmpty DEF PD!Name
    <3>5. pd_AdapterList' = << <<>> >> /\ pd_temp' = 1
      BY <1>3, <3>2, <3>4 DEF PD!EndOfName
    <3>6. NameMadeUp'
      BY <1>3, <3>2, <3>3, <3>5 DEF NameMadeUp, PD!EndOfName
    <3>7. pd_pc' = "splitting"
      <4>1. Len(<<>>) = 0 /\ 0 < Max_Num_Adapter /\ 0 < ROW
        BY DriverConstants
      <4>2. QED
        BY <1>3, <3>4, <4>1 DEF PD!EndOfName, PD!FitsRow
    <3>8. QED
      BY <1>0, <1>3, <2>1, <3>6, <3>7
         DEF SplitInv, PD!EndOfName, PD!NamesSplit
  <2>7. CASE i # Len(s)
    <3>1. i < Len(s) /\ i + 1 \in 1 .. Len(s) /\ (i + 1) - 1 = i
      BY <1>0, <2>7
    <3>2. s[i + 1] \in Seq(Nat \ {0}) /\ s[i + 1] # <<>>
      BY <1>0, <3>1, ElementOfSeq DEF NonEmptyNames
    <3>3. Len(s[i + 1]) \in Nat
      BY <3>2, LenProperties
    <3>4. k = Len(s[i + 1])
      <4>1. ~ (k < Len(s[i + 1]))
        BY <1>0, <2>1, <2>4, <3>1, WhatIsThere
      <4>2. QED
        BY <3>1, <3>3, <4>1
    <3>5. /\ EndOf(s, i + 1) = pd_temp1 + Len(s[i + 1]) + 1
          /\ \A j \in 1 .. Len(s[i + 1]) :
               pd_AdapterName[pd_temp1 + j] = s[i + 1][j]
          /\ EndOf(s, i + 1) + 2 <= Len(pd_AdapterName)
          /\ pd_AdapterName \in Seq(Nat) /\ Len(pd_AdapterName) \in Nat
      <4>1. /\ EndOf(s, i + 1) = EndOf(s, i) + Len(s[i + 1]) + 1
            /\ \A j \in 1 .. Len(s[i + 1]) :
                 PD!NameBytes(s)[EndOf(s, i) + j] = s[i + 1][j]
            /\ EndOf(s, i + 1) + 2 <= Len(PD!NameBytes(s))
            /\ PD!NameBytes(s) \in Seq(Nat)
        BY <1>0, <3>1, NameInMemory
      <4>2. QED
        BY <2>1, <2>4, <4>1, LenProperties
    <3>6. PD!Name = s[i + 1]
      <4> DEFINE w == s[i + 1]
                 A == pd_AdapterName
      <4>1. /\ pd_temp = pd_temp1 + Len(w)
            /\ Len(w) \in Nat /\ pd_temp1 \in Nat
            /\ pd_temp1 + Len(w) + 3 <= Len(A) /\ Len(A) \in Nat
        BY <2>4, <2>5, <3>3, <3>4, <3>5
      <4>2. /\ PD!Name \in Seq(Nat)
            /\ Len(PD!Name) = Len(w)
            /\ \A j \in 1 .. Len(w) : PD!Name[j] = A[(pd_temp1 + 1) + j - 1]
        <5>1. \A j \in pd_temp1 + 1 .. pd_temp : A[j] \in Nat
          <6>1. \A j \in pd_temp1 + 1 .. pd_temp : j \in 1 .. Len(A)
            BY <4>1
          <6>2. A \in Seq(Nat)
            BY <3>5
          <6>3. QED
            BY <6>1, <6>2, ElementOfSeq
        <5>2. pd_temp1 + 1 \in Int /\ pd_temp \in Int
              /\ pd_temp - (pd_temp1 + 1) + 1 = Len(w)
              /\ (pd_temp1 + 1 <= pd_temp \/ Len(w) = 0)
          BY <4>1
        <5>3. /\ PD!Name \in Seq(Nat)
              /\ Len(PD!Name) = IF pd_temp1 + 1 <= pd_temp
                                THEN pd_temp - (pd_temp1 + 1) + 1
                                ELSE 0
              /\ \A j \in 1 .. pd_temp - (pd_temp1 + 1) + 1 :
                   PD!Name[j] = A[(pd_temp1 + 1) + j - 1]
          BY <5>1, <5>2, SubSeqProperties DEF PD!Name
        <5>4. QED
          BY <5>2, <5>3
      <4>3. w \in Seq(Nat)
        BY <3>2
      <4> HIDE DEF w, A
      <4>4. \A j \in 1 .. Len(w) : PD!Name[j] = w[j]
        <5>1. \A j \in 1 .. Len(w) : (pd_temp1 + 1) + j - 1 = pd_temp1 + j
          BY <2>5
        <5>2. QED
          BY <3>5, <4>2, <5>1 DEF w, A
      <4>5. QED
        BY <4>2, <4>3, <4>4, SeqEqual DEF w
    <3>7. pd_AdapterList' = SubSeq(s, 1, i + 1)
      <4>1. SubSeq(s, 1, i + 1) = Append(SubSeq(s, 1, i), s[i + 1])
        BY <1>0, <3>1, SubSeqProperties
      <4>2. QED
        BY <1>3, <2>4, <3>6, <4>1 DEF PD!EndOfName
    <3>8. pd_temp' = EndOf(s, i + 1) /\ pd_temp1' = EndOf(s, i + 1)
      BY <1>3, <2>4, <2>5, <3>3, <3>4, <3>5 DEF PD!EndOfName
    <3>9. EndOf(s, i + 1) \in Nat /\ i + 1 \in 0 .. Len(s)
      BY <1>0, <3>1, NamesInMemory
    <3>10. 0 \in 0 .. (IF i + 1 < Len(s) THEN Len(s[(i + 1) + 1]) ELSE 0)
      <4>1. CASE i + 1 < Len(s)
        <5>1. (i + 1) + 1 \in 1 .. Len(s)
          BY <1>0, <3>1, <4>1
        <5>2. Len(s[(i + 1) + 1]) \in Nat
          BY <1>0, <5>1, ElementOfSeq, LenProperties DEF NonEmptyNames
        <5>3. QED
          BY <4>1, <5>2
      <4>2. QED
        BY <4>1
    <3>11. Splitting'
      <4>1. pd_temp' = pd_temp1' + 0 /\ pd_installed' = s
        BY <1>3, <3>8, <3>9 DEF PD!EndOfName
      <4>2. QED
        BY <3>7, <3>8, <3>9, <3>10, <4>1 DEF Splitting
    <3>12. pd_pc' # "splitting" => pd_pc' = "overrun" /\ ~PD!RowsSuffice
      <4>1. Len(pd_AdapterList) = i
        BY <1>0, <2>4, <3>1, SubSeqProperties
      <4>2. ~ (i < Max_Num_Adapter) => ~ (Len(s) <= Max_Num_Adapter)
        BY <1>0, <3>1, DriverConstants
      <4>3. i + 1 \in DOMAIN s
        BY <1>0, <3>1, LenProperties
      <4>4. QED
        BY <1>3, <3>6, <4>1, <4>2, <4>3 DEF PD!EndOfName, PD!RowsSuffice
    <3>13. /\ pd_installed' = s /\ pd_before' = pd_before
           /\ pd_AdapterName' = pd_AdapterName /\ pd_program' = pd_program
      BY <1>3 DEF PD!EndOfName
    <3>14. ~PD!RowsSuffice => ~PD!RowsSuffice'
      BY <3>13 DEF PD!RowsSuffice, PD!FitsRow
    <3>15. CASE pd_pc' = "splitting"
      BY <1>0, <2>1, <3>11, <3>13, <3>15 DEF SplitInv, PD!NamesSplit
    <3>16. CASE pd_pc' # "splitting"
      BY <1>0, <2>1, <3>12, <3>13, <3>14, <3>16 DEF SplitInv, PD!NamesSplit
    <3>17. QED
      BY <3>15, <3>16
  <2>8. QED
    BY <2>6, <2>7
<1>4. CASE PD!EndOfList
  <2>1. /\ PD!At(pd_temp) = 0 /\ PD!At(pd_temp - 1) = 0
        /\ pd_AdapterName = PD!NameBytes(s) /\ (Splitting \/ NameMadeUp)
    BY <1>4 DEF PD!EndOfList, SplitInv, PD!InList
  <2>2. pd_AdapterList = IF s = <<>> /\ pd_before # 0 THEN << <<>> >> ELSE s
    <3>1. CASE NameMadeUp
      BY <3>1 DEF NameMadeUp
    <3>2. CASE Splitting
      <4>1. PICK i \in 0 .. Len(s) :
              \E k \in 0 .. (IF i < Len(s) THEN Len(s[i + 1]) ELSE 0) :
                /\ pd_AdapterList = SubSeq(s, 1, i) /\ pd_temp1 = EndOf(s, i)
                /\ pd_temp = pd_temp1 + k
        BY <3>2 DEF Splitting
      <4>2. PICK k \in 0 .. (IF i < Len(s) THEN Len(s[i + 1]) ELSE 0) :
                /\ pd_AdapterList = SubSeq(s, 1, i) /\ pd_temp1 = EndOf(s, i)
                /\ pd_temp = pd_temp1 + k
        BY <4>1
      <4>3. i = Len(s)
        <5>1. SUFFICES ASSUME i # Len(s) PROVE FALSE
          OBVIOUS
        <5>2. i < Len(s) /\ i + 1 \in 1 .. Len(s)
          BY <1>0, <5>1
        <5>3. Len(s[i + 1]) \in Nat
          BY <1>0, <5>2, ElementOfSeq, LenProperties DEF NonEmptyNames
        <5>4. ~ (k < Len(s[i + 1])) /\ k # Len(s[i + 1])
          BY <1>0, <2>1, <4>2, <5>2, WhatIsThere
        <5>5. QED
          BY <5>2, <5>3, <5>4
      <4>4. pd_AdapterList = s
        BY <1>0, <4>2, <4>3, SubSeqFull
      <4>5. CASE s = <<>> /\ pd_before # 0
        <5>1. i = 0 /\ k = 0 /\ EndOf(s, 0) = 0
          <6>1. Len(s) = 0
            BY <1>0, <4>5, NoNamesInMemory
          <6>2. i = 0 /\ k = 0
            BY <4>3, <6>1
          <6>3. QED
            BY <1>0, <6>2, NamesInMemory
        <5>2. pd_temp = 0
          BY <4>2, <5>1
        <5>3. QED
          BY <2>1, <4>5, <5>2 DEF PD!At
      <4>6. QED
        BY <4>4, <4>5
    <3>3. QED
      BY <2>1, <3>1, <3>2
  <2>3. QED
    BY <1>0, <1>4, <2>2 DEF SplitInv, PD!EndOfList, PD!splitter, PD!NamesSplit
<1>5. ASSUME Same, pd_pc' \notin {"listing", "splitting", "overrun", "lost"},
             pd_pc' \in {"choosing", "opening", "opened"} =>
               \/ pd_pc \in {"opening", "opened"}
               \/ pd_AdapterName = <<>>
      PROVE  SplitInv'
  BY <1>0, <1>5 DEF SplitInv, PD!NamesSplit
<1>6. CASE PD!NamedAdapter
  BY <1>5, <1>6 DEF PD!NamedAdapter, PD!splitter, SplitInv
<1>7. CASE PD!GetFails \/ PD!OpenFails \/ PD!NoMemoryForMac \/ PD!QueryMac
           \/ PD!NoPacketToSend \/ PD!Generate
  BY <1>5, <1>7
     DEF PD!GetFails, PD!OpenFails, PD!NoMemoryForMac, PD!QueryMac,
         PD!NoPacketToSend, PD!Generate, PD!splitter
<1>8. CASE PD!OpenAdapter \/ PD!SetUp \/ PD!SetUpFails
  BY <1>5, <1>8 DEF PD!OpenAdapter, PD!SetUp, PD!SetUpFails, PD!splitter
<1>9. CASE PD!PressKey \/ PD!ReceivePacket \/ PD!ReceiveFails \/ PD!PrintPacket
           \/ PD!Walked \/ PD!Close
  BY <1>5, <1>9
     DEF PD!PressKey, PD!ReceivePacket, PD!ReceiveFails, PD!PrintPacket,
         PD!Walked, PD!Close, PD!splitter
<1>10. CASE UNCHANGED PD!vars
  BY <1>10
     DEF SplitInv, Splitting, NameMadeUp, PD!NamesSplit, PD!RowsSuffice,
         PD!FitsRow, PD!vars
<1>12. CASE PD!Choose
  <2>1. pd_AdapterName # <<>> => DOMAIN pd_AdapterList = 1 .. Len(pd_AdapterList)
    <3>1. pd_AdapterName # <<>> => pd_AdapterList \in {<< <<>> >>, s}
      BY <1>12 DEF SplitInv, PD!NamesSplit, PD!Choose
    <3>2. Len(<< <<>> >>) = 1 /\ DOMAIN << <<>> >> = 1 .. 1
      OBVIOUS
    <3>3. DOMAIN s = 1 .. Len(s)
      BY <1>0, LenProperties
    <3>4. QED
      BY <3>1, <3>2, <3>3
  <2>2. pd_Open' \in Int /\ pd_Open' <= Len(pd_AdapterList)
    BY <1>12, DriverConstants DEF PD!Choose
  <2>3. CASE pd_Open' >= 1
    <3>1. pd_AdapterName # <<>> => pd_Open' \in DOMAIN pd_AdapterList
      BY <2>1, <2>2, <2>3
    <3>2. QED
      BY <1>0, <1>12, <2>3, <3>1 DEF SplitInv, PD!NamesSplit, PD!Choose
  <2>4. CASE ~ (pd_Open' >= 1)
    BY <1>0, <1>12, <2>2, <2>4 DEF SplitInv, PD!NamesSplit, PD!Choose
  <2>5. QED
    BY <2>3, <2>4
<1>11. QED
  BY <1>1, <1>2, <1>3, <1>4, <1>6, <1>7, <1>8, <1>9, <1>10, <1>12 DEF PD!Next

(***************************************************************************)
(* Where the driver puts the packets of a block.                           *)
(***************************************************************************)
\* A packet in memory takes some room for its header at least.
Packets == [bh_hdrlen : Nat \ {0}, bh_caplen : Nat]

\* Rounding up to the next multiple never comes below.
LEMMA RoundedUp ==
    ASSUME NEW n \in Nat
    PROVE  PD!WORDALIGN(n) \in Nat /\ PD!WORDALIGN(n) >= n
<1> DEFINE w == ALIGNMENT
           q == (n + w - 1) \div w
<1>1. w \in Nat \ {0}
  BY DriverConstants
<1>2. n + w - 1 \in Nat
  BY <1>1
<1> DEFINE m == n + w - 1
<1>3. /\ m \div w \in Int /\ (m % w) \in 0 .. w - 1
      /\ m = w * (m \div w) + (m % w)
  <2> HIDE DEF m
  <2>1. m \in Int
    BY <1>2 DEF m
  <2>2. QED
    BY <1>1, <2>1, DivMod
<1>4. q \in Int /\ m - w + 1 <= w * q
  <2>1. w * q \in Int
    BY <1>1, <1>3
  <2> HIDE DEF m
  <2>2. m \in Nat
    BY <1>2 DEF m
  <2>3. QED
    BY <1>1, <1>3, <2>1, <2>2 DEF m
<1> HIDE DEF q
<1>5. q * w = w * q /\ w * q \in Int
  BY <1>1, <1>4
<1>6. m - w + 1 = n
  BY <1>1
<1> HIDE DEF m
<1>7. q * w \in Nat /\ q * w >= n
  BY <1>4, <1>5, <1>6
<1>8. QED
  BY <1>7 DEF PD!WORDALIGN, q

\* The places are numbers that follow from each other, each larger than the
\* one before.
LEMMA PlacesFollow ==
    ASSUME NEW b \in Seq(Packets)
    PROVE  /\ PD!Places(b)[0] = 0
           /\ \A k \in 0 .. Len(b) : PD!Places(b)[k] \in Nat
           /\ \A k \in 1 .. Len(b) :
                /\ PD!Places(b)[k] = PD!WORDALIGN(
                     PD!Places(b)[k - 1] + b[k].bh_hdrlen + b[k].bh_caplen)
                /\ PD!Places(b)[k] > PD!Places(b)[k - 1]
<1> DEFINE n == Len(b)
           Next1(k, p) == PD!WORDALIGN(p + b[k].bh_hdrlen + b[k].bh_caplen)
           F == [x \in (1 .. n) \X Nat |-> Next1(x[1], x[2])]
           Is(f) == f = [k \in 0 .. n |->
                           IF k = 0 THEN 0
                           ELSE PD!WORDALIGN(f[k - 1] + b[k].bh_hdrlen
                                          + b[k].bh_caplen)]
           c == CHOOSE f : Is(f)
<1>1. n \in Nat /\ \A k \in 1 .. n : b[k] \in Packets
  BY LenProperties, ElementOfSeq
<1>2. \A k \in 1 .. n : b[k].bh_hdrlen \in Nat \ {0} /\ b[k].bh_caplen \in Nat
  BY <1>1 DEF Packets
<1> HIDE DEF n
<1>3. ASSUME NEW k \in 1 .. n, NEW p \in Nat
      PROVE  Next1(k, p) \in Nat /\ Next1(k, p) > p
  <2> DEFINE x == p + b[k].bh_hdrlen + b[k].bh_caplen
  <2>1. x \in Nat /\ x > p
    BY <1>2
  <2>2. Next1(k, p) = PD!WORDALIGN(x)
    OBVIOUS
  <2> HIDE DEF x, Next1
  <2>3. PD!WORDALIGN(x) \in Nat /\ PD!WORDALIGN(x) >= x
    BY <2>1, RoundedUp
  <2>4. QED
    BY <2>1, <2>2, <2>3
<1> HIDE DEF Next1
<1>4. F \in [(1 .. n) \X Nat -> Nat]
  BY <1>3
<1>5. \A k \in 1 .. n : \A p \in Nat : F[<<k, p>>] = Next1(k, p)
  OBVIOUS
<1> HIDE DEF F
<1>6. PICK g : Follows(g, n, F)
  BY <1>1, <1>4, RecursionExists DEF Steps
<1>7. /\ g \in [0 .. n -> Nat] /\ g[0] = 0
      /\ \A k \in 1 .. n : g[k] = Next1(k, g[k - 1])
  <2>1. \A k \in 1 .. n : k - 1 \in 0 .. n
    BY <1>1
  <2>2. QED
    BY <1>5, <1>6, <2>1 DEF Follows
<1>8. Is(g)
  <2>1. \A k \in 0 .. n :
          g[k] = IF k = 0 THEN 0
                 ELSE PD!WORDALIGN(g[k - 1] + b[k].bh_hdrlen + b[k].bh_caplen)
    BY <1>7 DEF Next1
  <2>2. QED
    BY <1>7, <2>1
<1>9. Is(c)
  BY <1>8
<1>10. PD!Places(b) = c
  BY DEF PD!Places, n
<1> HIDE DEF c
<1>11. /\ c[0] = 0
       /\ \A k \in 1 .. n : c[k] = Next1(k, c[k - 1])
  BY <1>1, <1>9 DEF Next1
<1> HIDE DEF Is
<1>12. SameSteps(c, g, n)
  BY <1>7, <1>11 DEF SameSteps
<1>13. \A k \in 0 .. n : c[k] = g[k]
  BY <1>1, <1>12, SameNumbers
<1>14. \A k \in 0 .. n : c[k] \in Nat
  BY <1>7, <1>13
<1>15. ASSUME NEW k \in 1 .. n
       PROVE  c[k] > c[k - 1]
  <2>1. k - 1 \in 0 .. n
    BY <1>1
  <2>2. QED
    BY <1>3, <1>11, <1>14, <2>1
<1>16. QED
  BY <1>10, <1>11, <1>14, <1>15 DEF n, Next1

\* So no two packets of a block are at the same place, and only the end of
\* the block is behind them all.
LEMMA PlacesGrow ==
    ASSUME NEW b \in Seq(Packets), NEW m \in 0 .. Len(b)
    PROVE  \A k \in 0 .. Len(b) : k < m => PD!Places(b)[k] < PD!Places(b)[m]
<1> DEFINE c == PD!Places(b)
           n == Len(b)
           T == {d \in Nat : \A k \in 0 .. n : k + d + 1 <= n =>
                               c[k] < c[k + d + 1]}
<1>1. /\ n \in Nat /\ \A k \in 0 .. n : c[k] \in Nat
      /\ \A k \in 1 .. n : c[k] > c[k - 1]
  BY PlacesFollow, LenProperties
<1> HIDE DEF c, n
<1>2. 0 \in T
  <2>1. ASSUME NEW k \in 0 .. n, k + 0 + 1 <= n
        PROVE  c[k] < c[k + 0 + 1]
    <3>1. k + 1 \in 1 .. n /\ (k + 1) - 1 = k /\ k + 0 + 1 = k + 1
          /\ k + 1 \in 0 .. n
      BY <1>1, <2>1
    <3>2. c[k + 1] > c[k] /\ c[k] \in Nat /\ c[k + 1] \in Nat
      BY <1>1, <3>1
    <3>3. QED
      BY <3>1, <3>2
  <2>2. QED
    BY <2>1
<1>3. ASSUME NEW d \in T
      PROVE  d + 1 \in T
  <2>1. ASSUME NEW k \in 0 .. n, k + (d + 1) + 1 <= n
        PROVE  c[k] < c[k + (d + 1) + 1]
    <3> DEFINE e == k + d + 1
    <3>1. /\ e \in 0 .. n /\ e + 1 \in 1 .. n /\ (e + 1) - 1 = e
          /\ e + 1 \in 0 .. n /\ k + (d + 1) + 1 = e + 1
      BY <1>1, <2>1
    <3>2. c[k] < c[e]
      BY <1>1, <3>1
    <3> HIDE DEF e
    <3>3. c[e + 1] > c[e] /\ c[e] \in Nat /\ c[e + 1] \in Nat /\ c[k] \in Nat
      BY <1>1, <3>1
    <3>4. QED
      BY <3>1, <3>2, <3>3
  <2>2. QED
    BY <2>1
<1> HIDE DEF T
<1>4. T \in SUBSET Nat
  BY DEF T
<1>5. \A d \in Nat : d \in T
  BY <1>2, <1>3, <1>4, Climb
<1>6. ASSUME NEW k \in 0 .. n, k < m
      PROVE  c[k] < c[m]
  <2>1. /\ m - k - 1 \in Nat /\ k + (m - k - 1) + 1 = m
        /\ m \in 0 .. n /\ m <= n
    BY <1>1, <1>6 DEF n
  <2>2. m - k - 1 \in T
    BY <1>5, <2>1
  <2>3. QED
    BY <2>1, <2>2 DEF T
<1>7. QED
  BY <1>6 DEF c, n

(***************************************************************************)
(* While a block is walked, u has been printed of the blocks before it.    *)
(***************************************************************************)
Walking ==
    \E u \in Seq(Packets) : \E k \in 0 .. Len(pd_block) :
      /\ pd_received = u \o pd_block
      /\ pd_off = PD!Places(pd_block)[k]
      /\ pd_printed = u \o SubSeq(pd_block, 1, k)

WalkInv ==
    /\ pd_received \in Seq(Packets) /\ pd_printed \in Seq(Packets)
    /\ pd_block \in Seq(Packets)
    /\ pd_pc = "walking" => Walking
    /\ pd_pc \in {"listing", "splitting", "choosing", "opening", "opened"} =>
         pd_printed = pd_received
    /\ PD!PacketsWalked

\* Brackets do not matter between three pieces.
ThreePieces(s, t, u) ==
    s \in Seq(Packets) /\ t \in Seq(Packets) /\ u \in Seq(Packets)

LEMMA Brackets ==
    ASSUME NEW s, NEW t, NEW u, ThreePieces(s, t, u)
    PROVE  (s \o t) \o u = s \o (t \o u)
<1> DEFINE D == Packets
<1>1. s \in Seq(D) /\ t \in Seq(D) /\ u \in Seq(D)
  BY DEF ThreePieces
<1> HIDE DEF D
<1>2. QED
  BY <1>1, ConcatAssociative, SMTT(30)

LEMMA InitWalk == PD!Init => WalkInv
<1>1. <<>> \in Seq(Packets)
  OBVIOUS
<1>2. IsPrefix(<<>>, <<>>)
  BY <1>1, PrefixOfItself
<1>3. QED
  BY <1>1, <1>2, SameOperators DEF PD!Init, WalkInv, PD!PacketsWalked

LEMMA WalkStep ==
    ASSUME WalkInv, [PD!Next]_(PD!vars)
    PROVE  WalkInv'
<1> DEFINE b == pd_block
           n == Len(b)
           Quiet == UNCHANGED <<pd_received, pd_block, pd_printed>>
<1>0. /\ pd_received \in Seq(Packets) /\ pd_printed \in Seq(Packets)
      /\ b \in Seq(Packets) /\ n \in Nat /\ IsPrefix(pd_printed, pd_received)
  BY LenProperties, SameOperators DEF WalkInv, PD!PacketsWalked
<1>1. CASE PD!ReceivePacket
  <2>1. PICK x \in Blocks : pd_block' = x /\ pd_received' = pd_received \o x
    BY <1>1 DEF PD!ReceivePacket
  <2>2. x \in Seq(Packets)
    BY DriverConstants DEF Packets
  <2>3. /\ pd_received' \in Seq(Packets) /\ IsPrefix(pd_printed, pd_received')
        /\ pd_printed' = pd_printed /\ pd_pc' = "walking" /\ pd_off' = 0
        /\ pd_printed = pd_received
    BY <1>0, <1>1, <2>1, <2>2, ConcatProperties, PrefixOfConcat, SameOperators
       DEF PD!ReceivePacket, WalkInv, PD!PacketsWalked
  <2>4. pd_off' = PD!Places(x)[0] /\ 0 \in 0 .. Len(x)
    BY <2>2, <2>3, PlacesFollow, LenProperties
  <2>5. pd_printed' = pd_received \o SubSeq(x, 1, 0)
    BY <1>0, <2>3, SubSeqEmpty, ConcatEmptySeq
  <2>6. Walking'
    BY <1>0, <2>1, <2>4, <2>5 DEF Walking
  <2>7. QED
    BY <1>0, <2>1, <2>2, <2>3, <2>6, SameOperators
       DEF WalkInv, PD!PacketsWalked
<1>2. CASE PD!PrintPacket
  <2>1. PICK u \in Seq(Packets), k \in 0 .. n :
            /\ pd_received = u \o b /\ pd_off = PD!Places(b)[k]
            /\ pd_printed = u \o SubSeq(b, 1, k)
    BY <1>2 DEF PD!PrintPacket, WalkInv, Walking
  <2>2. k + 1 \in 1 .. n /\ k + 1 \in DOMAIN b /\ (k + 1) - 1 = k
    <3>1. PD!Places(b)[k] < PD!Places(b)[n] /\ PD!Places(b)[k] \in Nat
      BY <1>0, <1>2, <2>1, PlacesFollow DEF PD!PrintPacket, PD!ulBytesReceived
    <3>2. k # n
      BY <3>1
    <3>3. DOMAIN b = 1 .. n
      BY <1>0, LenProperties
    <3>4. k \in 0 .. n - 1
      BY <1>0, <3>2
    <3>5. k + 1 \in 1 .. n /\ (k + 1) - 1 = k
      BY <1>0, <3>4
    <3>6. QED
      BY <3>3, <3>5
  <2>3. k + 1 \in PD!Heads
    BY <2>1, <2>2 DEF PD!Heads
  <2>4. ASSUME NEW h \in PD!Heads
        PROVE  h = k + 1
    <3>1. h \in 1 .. n /\ PD!Places(b)[h - 1] = PD!Places(b)[k]
      BY <1>0, <2>1, LenProperties DEF PD!Heads
    <3>2. h - 1 \in 0 .. n /\ PD!Places(b)[k] \in Nat
      BY <1>0, <3>1, PlacesFollow
    <3>3. ~ (h - 1 < k) /\ ~ (k < h - 1)
      BY <1>0, <3>1, <3>2, PlacesGrow
    <3>4. QED
      BY <1>0, <3>1, <3>3
  <2>5. /\ pd_printed' = Append(pd_printed, b[k + 1])
        /\ pd_off' = PD!NextOffset(b[k + 1])
    BY <1>2, <2>3, <2>4 DEF PD!PrintPacket
  <2>6. pd_off' = PD!Places(b)[k + 1]
    BY <1>0, <2>1, <2>2, <2>5, PlacesFollow DEF PD!NextOffset
  <2>7. b[k + 1] \in Packets
    BY <1>0, <2>2, ElementOfSeq
  <2>8. pd_printed' = u \o SubSeq(b, 1, k + 1)
    <3>1. SubSeq(b, 1, k + 1) = SubSeq(b, 1, k) \o <<b[k + 1]>>
      <4>1. /\ 1 \in 1 .. n /\ k + 1 \in 1 .. n /\ (k + 1) - 1 = k
        BY <1>0, <2>2
      <4>2. QED
        BY <1>0, <4>1, SubSeqRecursiveSecond
    <3>2. SubSeq(b, 1, k) \in Seq(Packets) /\ <<b[k + 1]>> \in Seq(Packets)
      BY <1>0, <2>7, Cut
    <3>3. Append(pd_printed, b[k + 1]) = pd_printed \o <<b[k + 1]>>
      BY <1>0, <2>7, AppendIsConcat
    <3>4. (u \o SubSeq(b, 1, k)) \o <<b[k + 1]>>
          = u \o (SubSeq(b, 1, k) \o <<b[k + 1]>>)
      <4> DEFINE v == SubSeq(b, 1, k)
                 w == <<b[k + 1]>>
      <4>1. u \in Seq(Packets) /\ v \in Seq(Packets) /\ w \in Seq(Packets)
        BY <3>2
      <4> HIDE DEF v, w
      <4>2. ThreePieces(u, v, w)
        BY <4>1 DEF ThreePieces
      <4>3. (u \o v) \o w = u \o (v \o w)
        BY <4>2, Brackets
      <4>4. QED
        BY <4>3 DEF v, w
    <3>5. QED
      BY <2>1, <2>5, <3>1, <3>3, <3>4
  <2>9. /\ pd_printed' \in Seq(Packets) /\ IsPrefix(pd_printed', pd_received)
    <3> DEFINE v == SubSeq(b, 1, k + 1)
               w == SubSeq(b, (k + 1) + 1, n)
    <3>1. k + 1 \in 0 .. n
      BY <1>0, <2>2
    <3>2. v \in Seq(Packets) /\ w \in Seq(Packets) /\ v \o w = b
      BY <1>0, <3>1, Cut
    <3> HIDE DEF v, w
    <3>3. pd_received = (u \o v) \o w /\ u \o v \in Seq(Packets)
      <4>1. (u \o v) \o w = u \o (v \o w)
        <5>1. ThreePieces(u, v, w)
          BY <3>2 DEF ThreePieces
        <5>2. QED
          BY <5>1, Brackets
      <4>2. u \o v \in Seq(Packets)
        BY <3>2, ConcatProperties
      <4>3. QED
        BY <2>1, <3>2, <4>1, <4>2
    <3>4. QED
      BY <2>8, <3>2, <3>3, PrefixOfConcat DEF v
  <2>10. pd_pc' = "walking" /\ pd_received' = pd_received /\ pd_block' = b
    BY <1>2 DEF PD!PrintPacket
  <2>11. Walking'
    <3>1. k + 1 \in 0 .. n
      BY <1>0, <2>2
    <3>2. QED
      BY <2>1, <2>6, <2>8, <2>10, <3>1 DEF Walking
  <2>12. QED
    BY <1>0, <2>9, <2>10, <2>11, SameOperators DEF WalkInv, PD!PacketsWalked
<1>3. CASE PD!Walked
  <2>1. Quiet /\ pd_pc' = "reading" /\ pd_kbhit' = pd_kbhit
    BY <1>3 DEF PD!Walked, PD!walker
  <2>2. ASSUME ~ pd_kbhit
        PROVE  pd_printed = pd_received
    <3>1. PICK u \in Seq(Packets), k \in 0 .. n :
              /\ pd_received = u \o b /\ pd_off = PD!Places(b)[k]
              /\ pd_printed = u \o SubSeq(b, 1, k)
      BY <1>3 DEF PD!Walked, WalkInv, Walking
    <3>2. PD!Places(b)[k] >= PD!Places(b)[n]
      BY <1>3, <2>2, <3>1 DEF PD!Walked, PD!ulBytesReceived
    <3>3. /\ n \in 0 .. n /\ PD!Places(b)[k] \in Nat /\ PD!Places(b)[n] \in Nat
      BY <1>0, PlacesFollow
    <3>4. ~ (k < n)
      BY <1>0, <3>2, <3>3, PlacesGrow
    <3>5. k = n
      BY <1>0, <3>4
    <3>6. QED
      BY <1>0, <3>1, <3>5, SubSeqFull
  <2>3. QED
    BY <1>0, <2>1, <2>2, SameOperators DEF WalkInv, PD!PacketsWalked
<1>4. ASSUME Quiet, pd_pc' \notin {"walking", "reading"},
             pd_pc' \in {"splitting", "choosing", "opening", "opened"} =>
               pd_pc \in {"listing", "splitting", "choosing", "opening"},
             pd_pc' # "listing"
      PROVE  WalkInv'
  BY <1>0, <1>4, SameOperators DEF WalkInv, PD!PacketsWalked
<1>5. CASE PD!GetAdapterNames \/ PD!GetFails \/ PD!Choose
           \/ PD!OpenAdapter \/ PD!OpenFails \/ PD!NamedAdapter
  BY <1>4, <1>5
     DEF PD!GetAdapterNames, PD!GetFails, PD!Choose, PD!OpenAdapter,
         PD!OpenFails, PD!NamedAdapter, PD!walker
<1>6. CASE PD!EndOfName \/ PD!EndOfList \/ PD!InName
  BY <1>4, <1>6 DEF PD!EndOfName, PD!EndOfList, PD!InName, PD!walker
<1>7. CASE PD!NoMemoryForMac \/ PD!QueryMac \/ PD!NoPacketToSend \/ PD!Generate
           \/ PD!SetUpFails \/ PD!ReceiveFails \/ PD!Close
  BY <1>4, <1>7
     DEF PD!NoMemoryForMac, PD!QueryMac, PD!NoPacketToSend, PD!Generate,
         PD!SetUpFails, PD!ReceiveFails, PD!Close, PD!walker
<1>8. CASE PD!SetUp
  BY <1>0, <1>8, SameOperators
     DEF PD!SetUp, PD!walker, WalkInv, PD!PacketsWalked
<1>9. CASE PD!PressKey
  <2>1. Quiet /\ pd_off' = pd_off /\ pd_pc' = pd_pc /\ pd_kbhit'
    BY <1>9 DEF PD!PressKey, PD!walker
  <2>2. Walking => Walking'
    BY <2>1 DEF Walking
  <2>3. QED
    BY <1>0, <2>1, <2>2, SameOperators DEF WalkInv, PD!PacketsWalked
<1>10. CASE UNCHANGED PD!vars
  <2>1. Quiet /\ pd_off' = pd_off /\ pd_pc' = pd_pc /\ pd_kbhit' = pd_kbhit
    BY <1>10 DEF PD!vars
  <2>2. Walking => Walking'
    BY <2>1 DEF Walking
  <2>3. QED
    BY <1>0, <2>1, <2>2, SameOperators DEF WalkInv, PD!PacketsWalked
<1>11. QED
  BY <1>1, <1>2, <1>3, <1>5, <1>6, <1>7, <1>8, <1>9, <1>10 DEF PD!Next

\* For every list of adapters, number of rows and length of one, every block
\* and every alignment: both walks find what the driver has put into memory,
\* and the rows are overrun only by names that they have no room for.
THEOREM Reading == Spec => []MemoryReadAsWritten
<1>1. Init => SplitInv /\ WalkInv
  BY InitSplit, InitWalk DEF Init
<1>2. SplitInv /\ WalkInv /\ [Next]_vars => (SplitInv /\ WalkInv)'
  <2> SUFFICES ASSUME SplitInv, WalkInv, [Next]_vars
               PROVE  SplitInv' /\ WalkInv'
    OBVIOUS
  <2>1. [PD!Next]_(PD!vars)
    BY OneProgram
  <2>2. QED
    BY <2>1, SplitStep, WalkStep
<1>3. SplitInv /\ WalkInv => MemoryReadAsWritten
  BY DEF SplitInv, WalkInv, MemoryReadAsWritten, PD!MemoryReadAsWritten
<1>4. QED
  BY <1>1, <1>2, <1>3, PTL DEF Spec

-----------------------------------------------------------------------------
(***************************************************************************)
(* The sender, whose proofs are a module of their own: a behaviour of the  *)
(* whole is one of the sender's.                                           *)
(***************************************************************************)
PSP == INSTANCE PacketSend_proofs WITH
    Bytes <- ps_Bytes, pc <- ps_pc, start_index <- ps_start_index,
    end_index <- ps_end_index, fp <- ps_fp, chunk_index <- ps_chunk_index,
    size_of_packet <- ps_size_of_packet, outcome <- ps_outcome,
    wire <- ps_wire, first <- ps_first, runs <- ps_runs

LEMMA SenderAlone == PSP!PacketSendAssumption /\ (Spec => PSP!Spec)
<1> USE DEF PS!Payload, PSP!Payload, PS!HEADER, PSP!HEADER, PS!INDEX,
        PSP!INDEX, PS!CRC, PSP!CRC
<1>1. PSP!PacketSendAssumption
  BY ProgramsAssumption DEF PS!PacketSendAssumption, PSP!PacketSendAssumption
<1>2. Init => PSP!Init
  BY DEF Init, PS!Init, PSP!Init
<1>3. PS!Next <=> PSP!Next
  BY DEF PS!Next, PSP!Next, PS!Start, PSP!Start, PS!StartFails,
         PSP!StartFails, PS!EndOfFile, PSP!EndOfFile, PS!Skip, PSP!Skip,
         PS!PastEnd, PSP!PastEnd, PS!Transmit, PSP!Transmit, PS!SendFails,
         PSP!SendFails, PS!AtEnd, PSP!AtEnd, PS!Before, PSP!Before,
         PS!Beyond, PSP!Beyond, PS!Read, PSP!Read, PS!Loaded, PSP!Loaded,
         PS!FrameSent, PSP!FrameSent
<1>4. [Next]_vars => [PSP!Next]_(PSP!vars)
  BY <1>3, OneProgram DEF PS!vars, PSP!vars
<1>5. Spec => PSP!Spec
  BY <1>2, <1>4, PTL DEF Spec, PSP!Spec
<1>6. QED
  BY <1>1, <1>5

\* send.cpp, for every file, payload and range: every frame it leaves on the
\* wire has its CRC at its end and the bytes that belong to its index.
THEOREM Frames == Spec => []FramesSound
<1>1. PSP!FramesSound => FramesSound
  BY DEF FramesSound, PS!FramesSound, PSP!FramesSound, PS!FramesExact,
         PSP!FramesExact, PS!FramesGenuine, PSP!FramesGenuine, PS!Payload,
         PSP!Payload, PS!HEADER, PSP!HEADER, PS!INDEX, PSP!INDEX, PS!CRC,
         PSP!CRC, PS!Content, PSP!Content, PS!NumChunks, PSP!NumChunks
<1>2. PSP!Spec => []PSP!FramesSound
  BY SenderAlone, PSP!Sound
<1>3. QED
  BY <1>1, <1>2, SenderAlone, PTL

\* Each of its runs sends its range upwards and without repetition, and all
\* that the file has of it when it returns 0.
THEOREM Ranges == Spec => []RunSendsRange
<1>1. PSP!RunSendsRange => RunSendsRange
  BY DEF RunSendsRange, PS!RunSendsRange, PSP!RunSendsRange,
         PS!RunContiguous, PSP!RunContiguous, PS!RunComplete,
         PSP!RunComplete, PS!ThisRun, PSP!ThisRun, PS!NumChunks,
         PSP!NumChunks, PS!Payload, PSP!Payload, PS!HEADER, PSP!HEADER,
         PS!INDEX, PSP!INDEX, PS!CRC, PSP!CRC
<1>2. PSP!Spec => []PSP!RunSendsRange
  BY SenderAlone, PSP!SendsRange
<1>3. QED
  BY <1>1, <1>2, SenderAlone, PTL
=============================================================================
