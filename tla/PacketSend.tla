----------------------------- MODULE PacketSend -----------------------------
(***************************************************************************)
(* The sender of packet_transfer.  send.cpp asks for a first and a last    *)
(* index, reads send_file from its start in chunks of CHUNK_SIZE - 4 bytes *)
(* and puts the chunks of that range on the wire, one frame each; it is    *)
(* run again, with another range, to send what the receiver still needs.   *)
(*                                                                         *)
(* One action is one turn of the loop: the process has one thread and the  *)
(* call to pcap_sendpacket is its only effect.  The length of a frame is   *)
(* kept by the global size_of_packet apart from the frame itself, and is   *)
(* modelled as the code computes it.                                       *)
(*                                                                         *)
(* An operator that stands before its namesake with a longer name (Skip    *)
(* and SkipWithoutReset) is a slip of that code which a run must notice.   *)
(***************************************************************************)
EXTENDS Integers, Sequences

CONSTANTS
    Bytes,        \* the values of a byte
    send_file,    \* the file, a sequence of bytes
    CHUNK_SIZE,   \* 1460: the bytes of a chunk and of its index
    MAX_SIZE,     \* 2048: the buffer that holds a frame
    Own,          \* dest_mac, which is also the receiver's own address
    IndexInputs,  \* the numbers the user may type
    MaxRuns       \* bound: how often the sender is run

HEADER == 14      \* sizeof(struct ethernet_header)
INDEX == 4        \* the chunk's index, in front of its bytes
CRC == 4          \* the CRC, behind them

Payload == CHUNK_SIZE - INDEX

PacketSendAssumption ==
    /\ send_file \in Seq(Bytes)
    /\ CHUNK_SIZE \in Nat /\ CHUNK_SIZE > INDEX
    /\ MAX_SIZE \in Nat /\ HEADER + CHUNK_SIZE + CRC <= MAX_SIZE
    /\ IndexInputs \subseteq Int
    /\ MaxRuns \in Nat

VARIABLES
    pc,              \* "idle" between two runs, "loop" in the while loop
    start_index,
    end_index,
    fp,              \* the bytes of send_file read so far
    chunk_index,
    size_of_packet,  \* the global the frame's length is kept in
    outcome,         \* what main returned: "none", "done" (0), "failed" (-1)
    wire,            \* history: every frame sent, by all runs
    first,           \* history: Len(wire) when this run started
    runs             \* history: how often the sender was started

vars == <<pc, start_index, end_index, fp, chunk_index, size_of_packet,
          outcome, wire, first, runs>>

-----------------------------------------------------------------------------
(***************************************************************************)
(* load_ethernet_data: the bytes it reads from position p on, and the      *)
(* frame that is in the buffer when the header is there too.  A frame is   *)
(* [dst, index, data, crc, pad]; pad counts the bytes of the buffer beyond *)
(* the CRC field that pcap_sendpacket is told to send.                     *)
(***************************************************************************)
ReadTooMuch(p) ==
    SubSeq(send_file, p + 1,
           IF p + CHUNK_SIZE <= Len(send_file) THEN p + CHUNK_SIZE
                                               ELSE Len(send_file))

Read(p) ==
    SubSeq(send_file, p + 1,
           IF p + Payload <= Len(send_file) THEN p + Payload
                                            ELSE Len(send_file))

Loaded(size, data) == size + (INDEX + Len(data)) + CRC

FrameSent(index, data, size) ==
    [dst |-> Own, index |-> index, data |-> data, crc |-> <<index, data>>,
     pad |-> size - (HEADER + INDEX + Len(data) + CRC)]

-----------------------------------------------------------------------------
\* fopen succeeds and the loop is entered.
Start ==
    /\ pc = "idle"
    /\ runs < MaxRuns
    /\ \E s, e \in IndexInputs : start_index' = s /\ end_index' = e
    /\ pc' = "loop"
    /\ fp' = 0
    /\ chunk_index' = 0
    /\ size_of_packet' = 0
    /\ outcome' = "none"
    /\ first' = Len(wire)
    /\ runs' = runs + 1
    /\ UNCHANGED wire

\* send_file cannot be opened.
StartFails ==
    /\ pc = "idle"
    /\ runs < MaxRuns
    /\ outcome' = "failed"
    /\ first' = Len(wire)
    /\ runs' = runs + 1
    /\ UNCHANGED <<pc, start_index, end_index, fp, chunk_index,
                   size_of_packet, wire>>

AtEnd == fp = Len(send_file)

\* load_ethernet_data read no byte and returned -1.
EndOfFile ==
    /\ pc = "loop"
    /\ AtEnd
    /\ pc' = "idle"
    /\ outcome' = "done"
    /\ UNCHANGED <<start_index, end_index, fp, chunk_index, size_of_packet,
                   wire, first, runs>>

BeforeOneLate == chunk_index <= start_index

Before == chunk_index < start_index

\* A chunk before the range: what it added to size_of_packet is taken back.
SkipWithoutReset ==
    /\ pc = "loop"
    /\ ~AtEnd
    /\ Before
    /\ fp' = fp + Len(Read(fp))
    /\ size_of_packet' = Loaded(size_of_packet, Read(fp))
    /\ chunk_index' = chunk_index + 1
    /\ UNCHANGED <<pc, start_index, end_index, outcome, wire, first, runs>>

Skip ==
    /\ pc = "loop"
    /\ ~AtEnd
    /\ Before
    /\ fp' = fp + Len(Read(fp))
    /\ size_of_packet' = 0
    /\ chunk_index' = chunk_index + 1
    /\ UNCHANGED <<pc, start_index, end_index, outcome, wire, first, runs>>

Beyond == chunk_index > end_index

\* The first chunk after the range ends the loop.
PastEnd ==
    /\ pc = "loop"
    /\ ~AtEnd
    /\ ~Before
    /\ Beyond
    /\ fp' = fp + Len(Read(fp))
    /\ size_of_packet' = Loaded(size_of_packet, Read(fp))
    /\ pc' = "idle"
    /\ outcome' = "done"
    /\ UNCHANGED <<start_index, end_index, chunk_index, wire, first, runs>>

\* A chunk of the range goes out.
Transmit ==
    /\ pc = "loop"
    /\ ~AtEnd
    /\ ~Before
    /\ ~Beyond
    /\ LET data == Read(fp)
           size == Loaded(size_of_packet, data) + HEADER
       IN  /\ fp' = fp + Len(data)
           /\ wire' = Append(wire, FrameSent(chunk_index, data, size))
    /\ size_of_packet' = 0
    /\ chunk_index' = chunk_index + 1
    /\ UNCHANGED <<pc, start_index, end_index, outcome, first, runs>>

\* No device, no handle, or pcap_sendpacket fails: main returns -1.
SendFails ==
    /\ pc = "loop"
    /\ ~AtEnd
    /\ ~Before
    /\ ~Beyond
    /\ fp' = fp + Len(Read(fp))
    /\ size_of_packet' = Loaded(size_of_packet, Read(fp)) + HEADER
    /\ pc' = "idle"
    /\ outcome' = "failed"
    /\ UNCHANGED <<start_index, end_index, chunk_index, wire, first, runs>>

Init ==
    /\ pc = "idle"
    /\ start_index = 0
    /\ end_index = 0
    /\ fp = 0
    /\ chunk_index = 0
    /\ size_of_packet = 0
    /\ outcome = "none"
    /\ wire = <<>>
    /\ first = 0
    /\ runs = 0

Next ==
    \/ Start
    \/ StartFails
    \/ EndOfFile
    \/ Skip
    \/ PastEnd
    \/ Transmit
    \/ SendFails

Spec == Init /\ [][Next]_vars

-----------------------------------------------------------------------------
(***************************************************************************)
(* The chunks of the file, as the receiver counts them.                    *)
(***************************************************************************)
NumChunks == (Len(send_file) + Payload - 1) \div Payload

Content ==
    [i \in 1 .. NumChunks |->
        SubSeq(send_file, (i - 1) * Payload + 1,
               IF i * Payload <= Len(send_file) THEN i * Payload
                                                ELSE Len(send_file))]

-----------------------------------------------------------------------------
(***************************************************************************)
(* Properties.                                                             *)
(***************************************************************************)
ThisRun == first + 1 .. Len(wire)

\* Every variable has its type.
TypeOK ==
    /\ pc \in {"idle", "loop"}
    /\ start_index \in Int /\ end_index \in Int
    /\ fp \in 0 .. Len(send_file)
    /\ chunk_index \in 0 .. NumChunks
    /\ size_of_packet \in Nat
    /\ outcome \in {"none", "done", "failed"}
    /\ wire \in Seq([dst : {Own}, index : Nat, data : Seq(Bytes),
                     crc : Nat \X Seq(Bytes), pad : Int])
    /\ first \in 0 .. Len(wire)
    /\ runs \in 0 .. MaxRuns

\* A frame on the wire ends with its CRC field, although its length was
\* added up in a global that skipped chunks and failed turns also change:
\* otherwise the receiver would find the CRC in the wrong place.
FramesExact == \A i \in 1 .. Len(wire) : wire[i].pad = 0

\* A frame carries under its index exactly the bytes of the file that belong
\* there, in whichever run and from whichever start it was sent.
FramesGenuine ==
    \A i \in 1 .. Len(wire) :
        /\ wire[i].index + 1 \in DOMAIN Content
        /\ wire[i].data = Content[wire[i].index + 1]

\* A run sends a contiguous range upwards, without repetition.
RunContiguous ==
    \A i \in ThisRun :
        wire[i].index = (IF start_index > 0 THEN start_index ELSE 0)
                            + i - first - 1

\* A run that returned 0 has sent every chunk of the file in its range; one
\* that is asked for chunks the file does not have still returns 0.
RunComplete ==
    pc = "idle" /\ outcome = "done" =>
        {wire[i].index : i \in ThisRun}
            = {i \in 0 .. NumChunks - 1 : start_index <= i /\ i <= end_index}

\* What a frame says is what the file says: frame by frame...
FramesSound == FramesExact /\ FramesGenuine

\* ...and run by run.
RunSendsRange == RunContiguous /\ RunComplete
=============================================================================
