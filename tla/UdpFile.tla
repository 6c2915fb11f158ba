------------------------------- MODULE UdpFile -------------------------------
(***************************************************************************)
(* A file over UDP: socketlab_udp/avi_client.cpp sends the size of         *)
(* test.avi and then its pieces, a datagram each, and avi_server.cpp       *)
(* counts bytes until it has that many.  Nothing is numbered, acknowledged *)
(* or sent again.                                                          *)
(*                                                                         *)
(* Abstractions.  `net` is the datagrams on their way, oldest first; one   *)
(* that arrives before the port is bound is lost like any other.  The size *)
(* datagram is SIZE bytes that mean Len(test_avi).  The first recvfrom has *)
(* room for SIZE bytes: it fails on a longer datagram and takes a shorter  *)
(* one, the last piece, for a number that depends on its bytes.  Nobody    *)
(* looks at where a datagram comes from.                                   *)
(*                                                                         *)
(* An operator that stands before its namesake with a longer name (Piece   *)
(* and PieceStandStill) is a slip of that code which a run must notice.    *)
(***************************************************************************)
EXTENDS Integers, Sequences, SequencesExt

CONSTANTS
    Bytes,       \* the values of a byte
    test_avi,    \* the file, a sequence of bytes
    PIECE,       \* 1024: the buffers of both programs
    size_bytes,  \* htonl(Len(test_avi)), sizeof(long) bytes
    Misreadings, \* the numbers that the bytes of a piece may mean
    Strays       \* the datagrams another program may send to the port

SIZE == Len(size_bytes)

UdpFileAssumption ==
    /\ test_avi \in Seq(Bytes)
    /\ size_bytes \in Seq(Bytes) /\ size_bytes # <<>>
    /\ PIECE \in Nat /\ SIZE < PIECE
    /\ Misreadings \subseteq Int
    /\ Strays \subseteq Seq(Bytes)

VARIABLES
    client,          \* "started", "sending", "sent", "failed"
    sent_size,
    net,             \* datagrams on their way
    server,          \* see ServerStates
    total_size,
    received_size,
    received_test_avi,
    trouble          \* history: what has gone wrong, see Troubles

vars == <<client, sent_size, net, server, total_size, received_size,
          received_test_avi, trouble>>

\* "bound" waits for the size, "receiving" for pieces; "received" has printed
\* that the file is received and saved.
ServerStates == {"started", "bound", "receiving", "received", "failed"}

Troubles ==
    {"lost", "doubled", "overtaken", "stray", "misread", "recv_failed",
     "unwritten"}

-----------------------------------------------------------------------------
(***************************************************************************)
(* avi_client.cpp                                                          *)
(***************************************************************************)
\* test.avi is open, its length is known and goes out first.
SendSize ==
    /\ client = "started"
    /\ client' = "sending"
    /\ net' = Append(net, size_bytes)
    /\ UNCHANGED <<sent_size, server, total_size, received_size,
                   received_test_avi, trouble>>

\* No socket, or no test.avi.
ClientFails ==
    /\ client = "started"
    /\ client' = "failed"
    /\ UNCHANGED <<sent_size, net, server, total_size, received_size,
                   received_test_avi, trouble>>

PieceStandStill(p) == SubSeq(test_avi, 1, PIECE)

Piece(p) ==
    SubSeq(test_avi, p + 1,
           IF p + PIECE <= Len(test_avi) THEN p + PIECE ELSE Len(test_avi))

\* A turn of the loop; the result of sendto is not looked at.
SendPiece ==
    /\ client = "sending"
    /\ sent_size < Len(test_avi)
    /\ net' = Append(net, Piece(sent_size))
    /\ sent_size' = sent_size + Len(Piece(sent_size))
    /\ UNCHANGED <<client, server, total_size, received_size,
                   received_test_avi, trouble>>

\* fread returns 0: the client reports success and ends.
ClientDone ==
    /\ client = "sending"
    /\ sent_size = Len(test_avi)
    /\ client' = "sent"
    /\ UNCHANGED <<sent_size, net, server, total_size, received_size,
                   received_test_avi, trouble>>

-----------------------------------------------------------------------------
(***************************************************************************)
(* The link: it hands over the datagram at any place, keeps a copy of it,  *)
(* or drops it.                                                            *)
(***************************************************************************)
Lose ==
    /\ \E i \in 1 .. Len(net) : net' = RemoveAt(net, i)
    /\ trouble' = trouble \cup {"lost"}
    /\ UNCHANGED <<client, sent_size, server, total_size, received_size,
                   received_test_avi>>

\* At most one datagram is doubled.
Double ==
    /\ "doubled" \notin trouble
    /\ \E i \in 1 .. Len(net) : net' = InsertAt(net, i, net[i])
    /\ trouble' = trouble \cup {"doubled"}
    /\ UNCHANGED <<client, sent_size, server, total_size, received_size,
                   received_test_avi>>

\* At most one comes from another program.
Stray ==
    /\ "stray" \notin trouble
    /\ \E d \in Strays : net' = Append(net, d)
    /\ trouble' = trouble \cup {"stray"}
    /\ UNCHANGED <<client, sent_size, server, total_size, received_size,
                   received_test_avi>>

\* The troubles there have been once datagram i has been taken.
Taking(i) == IF i = 1 THEN trouble ELSE trouble \cup {"overtaken"}

-----------------------------------------------------------------------------
(***************************************************************************)
(* avi_server.cpp                                                          *)
(***************************************************************************)
\* The port is bound and received_test.avi is open, and empty.
Bind ==
    /\ server = "started"
    /\ server' = "bound"
    /\ received_test_avi' = <<>>
    /\ UNCHANGED <<client, sent_size, net, total_size, received_size,
                   trouble>>

SetupFails ==
    /\ server = "started"
    /\ server' = "failed"
    /\ UNCHANGED <<client, sent_size, net, total_size, received_size,
                   received_test_avi, trouble>>

ReadSize ==
    /\ server = "bound"
    /\ \E i \in 1 .. Len(net) :
         /\ net[i] = size_bytes
         /\ net' = RemoveAt(net, i)
         /\ trouble' = Taking(i)
    /\ total_size' = Len(test_avi)
    /\ server' = "receiving"
    /\ UNCHANGED <<client, sent_size, received_size, received_test_avi>>

MisreadSize ==
    /\ server = "bound"
    /\ \E i \in 1 .. Len(net) :
         /\ net[i] # size_bytes
         /\ Len(net[i]) \in 1 .. SIZE
         /\ net' = RemoveAt(net, i)
         /\ trouble' = Taking(i) \cup {"misread"}
    /\ total_size' \in Misreadings
    /\ server' = "receiving"
    /\ UNCHANGED <<client, sent_size, received_size, received_test_avi>>

\* A piece does not fit into total_size, or recvfrom fails, or it returns 0
\* for an empty datagram: the server ends.
SizeFails ==
    /\ server = "bound"
    /\ \/ \E i \in 1 .. Len(net) :
            /\ Len(net[i]) \notin 1 .. SIZE
            /\ net' = RemoveAt(net, i)
            /\ trouble' = Taking(i)
       \/ UNCHANGED net /\ trouble' = trouble \cup {"recv_failed"}
    /\ server' = "failed"
    /\ UNCHANGED <<client, sent_size, total_size, received_size,
                   received_test_avi>>

\* Bytes are bytes: a size datagram that comes now goes to the file as well.
\* fwrite, whose result is not looked at, writes the first m of them.
ReceivePiece ==
    /\ server = "receiving"
    /\ received_size < total_size
    /\ \E i \in 1 .. Len(net) : \E m \in 0 .. Len(net[i]) :
         /\ Len(net[i]) <= PIECE
         /\ net' = RemoveAt(net, i)
         /\ received_test_avi' = received_test_avi \o SubSeq(net[i], 1, m)
         /\ received_size' = received_size + Len(net[i])
         /\ trouble' = Taking(i)
              \cup (IF m < Len(net[i]) THEN {"unwritten"} ELSE {})
    /\ UNCHANGED <<client, sent_size, server, total_size>>

\* recvfrom fails, as it does on a datagram longer than buf: the loop ends,
\* and what follows is the message of success.
RecvFails ==
    /\ server = "receiving"
    /\ received_size < total_size
    /\ \/ \E i \in 1 .. Len(net) :
            /\ Len(net[i]) > PIECE
            /\ net' = RemoveAt(net, i)
            /\ trouble' = Taking(i) \cup {"recv_failed"}
       \/ UNCHANGED net /\ trouble' = trouble \cup {"recv_failed"}
    /\ server' = "received"
    /\ UNCHANGED <<client, sent_size, total_size, received_size,
                   received_test_avi>>

Enough == received_size >= total_size

Report ==
    /\ server = "receiving"
    /\ Enough
    /\ server' = "received"
    /\ UNCHANGED <<client, sent_size, net, total_size, received_size,
                   received_test_avi, trouble>>

Init ==
    /\ client = "started"
    /\ sent_size = 0
    /\ net = <<>>
    /\ server = "started"
    /\ total_size = 0
    /\ received_size = 0
    /\ received_test_avi = <<>>
    /\ trouble = {}

Next ==
    \/ SendSize \/ ClientFails \/ SendPiece \/ ClientDone
    \/ Lose \/ Double \/ Stray
    \/ Bind \/ SetupFails \/ ReadSize \/ MisreadSize \/ SizeFails
    \/ ReceivePiece \/ RecvFails \/ Report

Spec == Init /\ [][Next]_vars

-----------------------------------------------------------------------------
(***************************************************************************)
(* Properties.                                                             *)
(***************************************************************************)
\* Losses alone never end in a message of success over a wrong file: the
\* server then waits for ever, or gives up on the size.  It takes a datagram
\* that is doubled, overtaken, another program's, misread or not received by
\* recvfrom, or a write that fails.
LossNeverHidden ==
    server = "received" /\ trouble \subseteq {"lost"} =>
        received_test_avi = test_avi

\* The server waits for ever only for bytes that were lost: duplicates, bytes
\* out of place, another program's and those not written fill the count, and
\* end the wait, like good ones.
StuckOnlyAfterLoss ==
    client = "sent" /\ net = <<>> /\ server = "receiving"
        /\ received_size < total_size =>
            trouble \cap {"lost", "misread"} # {}

\* The loss of a datagram stalls the transfer, and nothing else is lost by it.
LossOnlyStalls == LossNeverHidden /\ StuckOnlyAfterLoss
=============================================================================
