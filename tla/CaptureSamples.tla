--------------------------- MODULE CaptureSamples ---------------------------
(***************************************************************************)
(* The sample programs of WpdPack that capture until they are stopped: a   *)
(* device is chosen from a list and opened, filters are set, perhaps a     *)
(* file is opened for the packets, and packets are printed or saved in a   *)
(* loop.  They differ in what they do when a step fails, in what they give *)
(* back at the end, and in the order they do it.                           *)
(*                                                                         *)
(* A program is a sequence of steps; a step says what is given back before *)
(* the program ends because the step has failed.  Packets are saved        *)
(* through a buffer, which a closed file has emptied.                      *)
(*                                                                         *)
(* An operator that stands before its namesake with a longer name          *)
(* (basic_dump and basic_dump_free_first) is a slip of that code which a   *)
(* run must notice.                                                        *)
(***************************************************************************)
EXTENDS Naturals, Sequences

CONSTANT MaxPackets  \* bound: the packets that are saved

CaptureSamplesAssumption == MaxPackets \in Nat

VARIABLES
    program,
    at,       \* the step it has come to
    held,     \* of "alldevs", "adapter", "dumpfile"
    misused,  \* history: used or given back when it was not held
    dumped,   \* packets handed to pcap_dump
    on_disk,  \* of them, those in the file
    outcome   \* "running", "done", "failed", "killed"

vars == <<program, at, held, misused, dumped, on_disk, outcome>>

Try(op, undo) == [op |-> op, undo |-> undo]

Do(op) == [op |-> op, undo |-> {}]

-----------------------------------------------------------------------------
(***************************************************************************)
(* The programs.                                                           *)
(***************************************************************************)
\* "check" is for Ethernet; "filter" is pcap_compile or pcap_setfilter.
udpdump ==
    <<Do("list"), Try("choose", {"alldevs"}), Try("open", {"alldevs"}),
      Try("check", {"alldevs"}), Try("filter", {"alldevs"}),
      Try("filter", {"alldevs"}), Do("freealldevs"), Do("loop")>>

basic_dump_free_first ==
    <<Do("list"), Try("choose", {"alldevs"}), Do("freealldevs"),
      Try("open", {"alldevs"}), Do("loop"), Do("close")>>

basic_dump ==
    <<Do("list"), Try("choose", {"alldevs"}), Try("open", {"alldevs"}),
      Do("freealldevs"), Do("loop"), Do("close")>>

\* An error in the loop is reported, and ends the program then and there.
basic_dump_ex ==
    <<Do("list"), Try("choose", {"alldevs"}), Try("open", {"alldevs"}),
      Do("freealldevs"), Do("loop_or_fail"), Do("close")>>

savedump ==
    <<Do("arguments"), Do("list"), Try("choose", {"alldevs"}),
      Try("open", {"alldevs"}), Do("dump_open"), Do("freealldevs"),
      Do("save"), Do("close")>>

\* -s and -o are missing on the ways that end in usage.
pcap_filter ==
    <<Do("arguments"), Do("open_source"), Try("filter", {"adapter"}),
      Try("filter", {"adapter"}), Do("arguments"),
      Try("dump_open", {"adapter"}), Do("save"), Do("close"),
      Do("dump_close")>>

\* With a source on its command line, and without.
pktdump_ex_s == <<Do("open_source"), Do("loop_or_fail"), Do("close")>>

pktdump_ex ==
    <<Do("list"), Try("choose", {"alldevs"}), Do("open"), Do("loop_or_fail"),
      Do("close")>>

\* The second filter step is pcap_setfilter, the third pcap_setmode.
tcptop ==
    <<Do("arguments"), Do("open_source"), Do("filter"),
      Try("filter", {"adapter"}), Try("filter", {"adapter"}), Do("loop"),
      Do("close")>>

smp_1 ==
    <<Do("list"), Try("choose", {"alldevs"}), Try("open", {"alldevs"}),
      Do("loop_or_fail")>>

Programs ==
    {udpdump, basic_dump, basic_dump_ex, savedump, pcap_filter, pktdump_ex_s,
     pktdump_ex, tcptop, smp_1}

-----------------------------------------------------------------------------
(***************************************************************************)
(* The steps.                                                              *)
(***************************************************************************)
Loops == {"loop", "loop_or_fail", "save"}

CannotFail == {"freealldevs", "loop", "save", "close", "dump_close"}

Needs(op) ==
    CASE op \in {"choose", "open", "freealldevs"} -> {"alldevs"}
      [] op \in {"check", "filter", "dump_open", "loop", "loop_or_fail",
                 "close"} -> {"adapter"}
      [] op = "save" -> {"adapter", "dumpfile"}
      [] op = "dump_close" -> {"dumpfile"}
      [] op \in {"arguments", "list", "open_source"} -> {}

Gains(op) ==
    CASE op = "list" -> {"alldevs"}
      [] op \in {"open", "open_source"} -> {"adapter"}
      [] op = "dump_open" -> {"dumpfile"}
      [] OTHER -> {}

Releases(op) ==
    CASE op = "freealldevs" -> {"alldevs"}
      [] op = "close" -> {"adapter"}
      [] op = "dump_close" -> {"dumpfile"}
      [] OTHER -> {}

Running == outcome = "running" /\ at <= Len(program)

\* The step succeeds; a loop that only ends by itself ends.
Succeed ==
    /\ Running
    /\ LET op == program[at].op
       IN  /\ misused' = misused \cup (Needs(op) \ held)
           /\ held' = (held \ Releases(op)) \cup Gains(op)
           /\ on_disk' = IF op = "dump_close" THEN dumped ELSE on_disk
    /\ at' = at + 1
    /\ UNCHANGED <<program, dumped, outcome>>

\* It fails, or there is nothing to list: the program gives back what it
\* gives back, and ends.
Fail ==
    /\ Running
    /\ program[at].op \notin CannotFail
    /\ misused' = misused \cup (program[at].undo \ held)
    /\ held' = held \ program[at].undo
    /\ outcome' = "failed"
    /\ UNCHANGED <<program, at, dumped, on_disk>>

\* The handler of savedump, the loop of pcap_filter.
Dump ==
    /\ Running
    /\ program[at].op = "save"
    /\ dumped < MaxPackets
    /\ dumped' = dumped + 1
    /\ UNCHANGED <<program, at, held, misused, on_disk, outcome>>

\* The buffer is full and goes to the file, a packet cut in two perhaps.
Flush ==
    /\ outcome = "running"
    /\ on_disk < dumped
    /\ \E n \in on_disk + 1 .. dumped : on_disk' = n
    /\ UNCHANGED <<program, at, held, misused, dumped, outcome>>

Return ==
    /\ outcome = "running"
    /\ at > Len(program)
    /\ outcome' = "done"
    /\ UNCHANGED <<program, at, held, misused, dumped, on_disk>>

\* Ctrl+C: no program handles it.
Kill ==
    /\ outcome = "running"
    /\ outcome' = "killed"
    /\ UNCHANGED <<program, at, held, misused, dumped, on_disk>>

Init ==
    /\ program \in Programs
    /\ at = 1
    /\ held = {}
    /\ misused = {}
    /\ dumped = 0
    /\ on_disk = 0
    /\ outcome = "running"

Next == Succeed \/ Fail \/ Dump \/ Flush \/ Return \/ Kill

Spec == Init /\ [][Next]_vars

-----------------------------------------------------------------------------
(***************************************************************************)
(* Properties.                                                             *)
(***************************************************************************)
\* On no way through any program is something used or given back that is not
\* held: the name of the device outlives pcap_open, the adapter the loop.
NothingMisused == misused = {}

\* While it captures, which may be for days, a program holds what the loop
\* uses and no more, but for the two that never free the list.
HoldsWhatItUses ==
    Running /\ program[at].op \in Loops /\ program \notin {pktdump_ex, smp_1}
        => held = Needs(program[at].op)

\* A capture that returned has every packet on the disk, if the program
\* closes the file; savedump, which says that Ctrl+C stops it, does not.
DumpWhole ==
    on_disk < dumped /\ outcome = "done" => program = savedump

TidyCapture == NothingMisused /\ HoldsWhatItUses /\ DumpWhole
=============================================================================
