----------------------------- MODULE MCPrograms ------------------------------
(***************************************************************************)
(* The constants of the run over Programs that a .cfg cannot write down.   *)
(***************************************************************************)
EXTENDS Programs

\* packet_transfer: three full chunks and a short one, sent in two runs.
FileToSend == <<1, 2, 3, 4, 5, 6, 7>>

Indices == -1 .. 4

\* socketlab: a file of two full buffers and a short one.  The last datagram
\* over UDP is as short as the size, which may be misread as too small, too
\* large or negative.
TestAvi == <<1, 2, 3, 4, 5>>

SizeBytes == <<0>>

SizeMisread == {-1, 3, 9}

\* Another program's datagram: empty, as long as the size, or too long for buf.
StrayDatagrams == {<<>>, <<3>>, <<5, 4, 3>>}

\* Three of them are typed, each of a length that recv may or may not cut.
ShortMessages == {<<1>>, <<2, 3>>}

\* ICMP: bytes of four bits; the texts of four bytes make up the largest
\* sums, so that both folds carry.
IcmpIds == {<<0, 0>>, <<15, 15>>, <<7, 14>>}

IcmpTexts ==
    {<<>>, <<1>>} \cup ({8, 15} \X {1, 15}) \cup ({1, 15} \X {15} \X {8, 15})
        \cup ({14, 15} \X {15} \X {7, 15} \X {15})

\* WpdPack: up to three adapters in a list for two; names that leave a byte of
\* their row, fill it and do not fit; blocks of up to three packets.
AdapterNames ==
    {<<>>, << <<1>> >>, << <<1>>, <<2, 2>> >>, << <<2, 2>>, <<1>>, <<3>> >>,
     << <<3, 3, 3>> >>, << <<1>>, <<4, 4, 4, 4>> >>}

Packet(caplen) == [bh_hdrlen |-> 5, bh_caplen |-> caplen]

DriverBlocks ==
    {<<>>, <<Packet(1)>>, <<Packet(2), Packet(3)>>,
     <<Packet(4), Packet(0), Packet(7)>>}
=============================================================================
