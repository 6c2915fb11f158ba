--------------------------- MODULE SequentialScan ---------------------------
(***************************************************************************)
(* The port scanner without threads, port_scanning/1.cpp: a loop whose     *)
(* counter is an unsigned short.                                           *)
(***************************************************************************)
EXTENDS Naturals

CONSTANTS
    USHRT,       \* 65536: the values of an unsigned short
    START_PORT,  \* 1
    END_PORT     \* 65535

SequentialScanAssumption ==
    /\ USHRT \in Nat \ {0}
    /\ {START_PORT, END_PORT} \subseteq 0 .. USHRT - 1

VARIABLES
    main,     \* "scanning", "ended"
    port,
    scanned   \* history: the ports a connect has been tried to

vars == <<main, port, scanned>>

Init == main = "scanning" /\ port = START_PORT /\ scanned = {}

Increment(p) == (p + 1) % USHRT

\* scan_port: connect succeeds or fails; both count as tried.
ScanPort ==
    /\ main = "scanning"
    /\ port <= END_PORT
    /\ scanned' = scanned \cup {port}
    /\ port' = Increment(port)
    /\ UNCHANGED main

\* No socket: the port is passed over.
SkipPort ==
    /\ main = "scanning"
    /\ port <= END_PORT
    /\ port' = Increment(port)
    /\ UNCHANGED <<main, scanned>>

\* The loop ends, WSACleanup is called and main returns.
Finish ==
    /\ main = "scanning"
    /\ port > END_PORT
    /\ main' = "ended"
    /\ UNCHANGED <<port, scanned>>

Next == ScanPort \/ SkipPort \/ Finish

Spec == Init /\ [][Next]_vars /\ WF_vars(Next)

-----------------------------------------------------------------------------
\* port_scanning/1.cpp:11 calls END_PORT the last port of the scan: after it
\* the scan ends.
ScanEnds == <>(main = "ended")
=============================================================================
