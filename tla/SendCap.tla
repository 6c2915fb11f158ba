------------------------------- MODULE SendCap -------------------------------
(***************************************************************************)
(* sendcap.c of WpdPack puts the packets of a capture file into a queue    *)
(* that is as long as the file, and sends the queue to an adapter.  The    *)
(* file may still be growing: a capture program writes record after        *)
(* record, each in two parts as its buffer happens to be emptied.          *)
(*                                                                         *)
(* Abstractions.  A packet is its length.  A record of the file and an     *)
(* entry of the queue are a packet behind a header of RECORD bytes.        *)
(*                                                                         *)
(* An operator that stands before its namesake with a shorter name         *)
(* (QueueFullSilent and QueueFull) is a slip of that code which a run must *)
(* notice.                                                                 *)
(***************************************************************************)
EXTENDS Naturals, Sequences, SequencesExt

CONSTANTS
    Lengths,    \* of the packets
    RECORD,     \* 16: sizeof(struct pcap_pkthdr), in the file and in memory
    MaxPackets  \* bound: the packets that come to be in the file

SendCapAssumption ==
    /\ Lengths \subseteq Nat \ {0}
    /\ RECORD \in Nat \ {0}
    /\ MaxPackets \in Nat

VARIABLES
    pc,       \* see Stages
    capfile,  \* the whole records of the file
    torn,     \* its last record is there in part: so many bytes
    caplen,
    squeue,   \* the packets in the queue
    sent,     \* the packets sent
    readable, \* history: the whole records there when the reading ended
    warned,   \* history: what the user was told, see Warnings
    grown     \* history: the file has changed since it was measured

vars == <<pc, capfile, torn, caplen, squeue, sent, readable, warned, grown>>

\* "failed" has sent nothing: a file or an adapter that cannot be opened.
Stages ==
    {"starting", "opening", "filling", "transmitting", "done", "corrupted",
     "failed"}

Warnings == {"too_small", "send_error"}

-----------------------------------------------------------------------------
\* What the packets take up, each behind its header.
TotalBytes(packets) ==
    LET upto[n \in 0 .. Len(packets)] ==
          IF n = 0 THEN 0 ELSE upto[n - 1] + RECORD + packets[n]
    IN  upto[Len(packets)]

\* ftell - sizeof(struct pcap_file_header): the bytes behind that header.
Measure ==
    /\ pc = "starting"
    /\ caplen' = TotalBytes(capfile) + torn
    /\ pc' = "opening"
    /\ UNCHANGED <<capfile, torn, squeue, sent, readable, warned, grown>>

\* The file or the adapter, the source string in between, is refused; or the
\* arguments are not two or three.
Fail ==
    /\ pc \in {"starting", "opening"}
    /\ pc' = "failed"
    /\ UNCHANGED <<capfile, torn, caplen, squeue, sent, readable, warned,
                   grown>>

\* Both are open and the queue is allocated.  Another datalink is a warning
\* that the user passes with a key.
Open ==
    /\ pc = "opening"
    /\ pc' = "filling"
    /\ UNCHANGED <<capfile, torn, caplen, squeue, sent, readable, warned,
                   grown>>

More == Len(squeue) < Len(capfile)

Fits(l) == TotalBytes(squeue) + RECORD + l <= caplen

\* pcap_next_ex returns 1 and the packet goes into the queue.
Queue ==
    /\ pc = "filling"
    /\ More
    /\ Fits(capfile[Len(squeue) + 1])
    /\ squeue' = Append(squeue, capfile[Len(squeue) + 1])
    /\ UNCHANGED <<pc, capfile, torn, caplen, sent, readable, warned, grown>>

\* "Packet buffer too small": what is in the queue will be sent.  The slip
\* does not say so.
QueueFullSilent ==
    /\ pc = "filling"
    /\ More
    /\ ~Fits(capfile[Len(squeue) + 1])
    /\ readable' = capfile
    /\ pc' = "transmitting"
    /\ UNCHANGED <<capfile, torn, caplen, squeue, sent, warned, grown>>

QueueFull ==
    /\ pc = "filling"
    /\ More
    /\ ~Fits(capfile[Len(squeue) + 1])
    /\ readable' = capfile
    /\ warned' = warned \cup {"too_small"}
    /\ pc' = "transmitting"
    /\ UNCHANGED <<capfile, torn, caplen, squeue, sent, grown>>

\* pcap_next_ex returns -2.
EndOfFile ==
    /\ pc = "filling"
    /\ ~More
    /\ torn = 0
    /\ readable' = capfile
    /\ pc' = "transmitting"
    /\ UNCHANGED <<capfile, torn, caplen, squeue, sent, warned, grown>>

\* It returns -1 on a record that is not all there: nothing is sent.
Corrupted ==
    /\ pc = "filling"
    /\ ~More
    /\ torn > 0
    /\ pc' = "corrupted"
    /\ squeue' = <<>>
    /\ UNCHANGED <<capfile, torn, caplen, sent, readable, warned, grown>>

\* The result is compared with the length of the queue.
Transmit ==
    /\ pc = "transmitting"
    /\ \E n \in 0 .. Len(squeue) :
         /\ sent' = SubSeq(squeue, 1, n)
         /\ warned' = IF n < Len(squeue) THEN warned \cup {"send_error"}
                      ELSE warned
    /\ pc' = "done"
    /\ UNCHANGED <<capfile, torn, caplen, squeue, readable, grown>>

-----------------------------------------------------------------------------
(***************************************************************************)
(* The program that writes the file.                                       *)
(***************************************************************************)
Grown == grown \/ pc # "starting"

\* A part of a record: its header and some of the packet, or less.
WritePart ==
    /\ torn = 0
    /\ Len(capfile) < MaxPackets
    /\ torn' \in {1, RECORD}
    /\ grown' = Grown
    /\ UNCHANGED <<pc, capfile, caplen, squeue, sent, readable, warned>>

WriteRest ==
    /\ torn > 0
    /\ \E l \in Lengths : capfile' = Append(capfile, l)
    /\ torn' = 0
    /\ grown' = Grown
    /\ UNCHANGED <<pc, caplen, squeue, sent, readable, warned>>

Init ==
    /\ pc = "starting"
    /\ capfile = <<>>
    /\ torn = 0
    /\ caplen = 0
    /\ squeue = <<>>
    /\ sent = <<>>
    /\ readable = <<>>
    /\ warned = {}
    /\ grown = FALSE

Next ==
    \/ Measure \/ Fail \/ Open
    \/ Queue \/ QueueFull \/ EndOfFile \/ Corrupted
    \/ Transmit
    \/ WritePart \/ WriteRest

Spec == Init /\ [][Next]_vars

-----------------------------------------------------------------------------
(***************************************************************************)
(* Properties.                                                             *)
(***************************************************************************)
\* The file may grow between the measuring and the end of the reading, and
\* the queue is as long as the file was.  Without a message, all that could be
\* read when the reading ended was sent, and all of a file that did not grow;
\* a message that the queue was too small tells of a file that did.  Nothing
\* is sent that is not at the beginning of the file.
WholeOrTold ==
    pc = "done" =>
        /\ warned = {} => sent = readable
        /\ warned = {} /\ ~grown => sent = capfile /\ torn = 0
        /\ "too_small" \in warned => grown
        /\ IsPrefix(sent, capfile)
=============================================================================
