------------------------------- MODULE TcpFile -------------------------------
(***************************************************************************)
(* A file over TCP: socketlab_tcp/avi_client.cpp sends test.avi and        *)
(* avi_server.cpp saves what comes as received_test.avi.  Each serves one  *)
(* connection and ends.  Neither says how long the file is: the end of the *)
(* stream is the end of the file.                                          *)
(*                                                                         *)
(* Abstractions.  The kernel queues a connection as soon as the server     *)
(* listens, so the client may have sent everything and closed before       *)
(* accept returns.  What it has sent and recv has not returned is `stream`;*)
(* recv returns any part of it.  A killed client leaves a connection that  *)
(* is closed in order or reset, as the system pleases.                     *)
(*                                                                         *)
(* An operator that stands before its namesake with a longer name          *)
(* (SaveChunk and SaveChunkWholeBuffer) is a slip of that code which a run *)
(* must notice.                                                            *)
(***************************************************************************)
EXTENDS Naturals, Sequences

CONSTANTS
    Bytes,      \* the values of a byte
    test_avi,   \* the file, a sequence of bytes
    BUF_SIZE    \* 1024

TcpFileAssumption ==
    /\ test_avi \in Seq(Bytes)
    /\ BUF_SIZE \in Nat \ {0}

VARIABLES
    client,             \* see ClientStates
    server,             \* see ServerStates
    link,               \* the connection: "none", "open", "closed", "reset"
    stream,             \* sent and not yet received
    bytes_sent,
    total_received,
    received_test_avi,
    unwritten           \* history: fwrite has written less than it was given

vars == <<client, server, link, stream, bytes_sent, total_received,
          received_test_avi, unwritten>>

\* "completed" has printed that the transfer is completed, "no_file" that it
\* cannot open test.avi; both return 0.
ClientStates ==
    {"started", "connected", "sending", "completed", "no_file", "failed",
     "killed"}

\* "saved" has printed that the file is received and saved.
ServerStates ==
    {"started", "listening", "accepted", "receiving", "saved", "failed"}

-----------------------------------------------------------------------------
(***************************************************************************)
(* avi_client.cpp                                                          *)
(***************************************************************************)
Connect ==
    /\ client = "started"
    /\ server = "listening"
    /\ link = "none"
    /\ client' = "connected"
    /\ link' = "open"
    /\ UNCHANGED <<server, stream, bytes_sent, total_received,
                   received_test_avi, unwritten>>

\* WSAStartup, socket or connect fails: nobody listens, or nobody is there.
ConnectFails ==
    /\ client = "started"
    /\ client' = "failed"
    /\ UNCHANGED <<server, link, stream, bytes_sent, total_received,
                   received_test_avi, unwritten>>

Hangup == IF link = "open" THEN "closed" ELSE link

\* test.avi cannot be opened: send_file returns and main closes the socket.
OpenFails ==
    /\ client = "connected"
    /\ client' = "no_file"
    /\ link' = Hangup
    /\ UNCHANGED <<server, stream, bytes_sent, total_received,
                   received_test_avi, unwritten>>

Open ==
    /\ client = "connected"
    /\ client' = "sending"
    /\ UNCHANGED <<server, link, stream, bytes_sent, total_received,
                   received_test_avi, unwritten>>

UpTo(n) == IF n <= Len(test_avi) THEN n ELSE Len(test_avi)

\* A turn of the loop.  send takes all of the buffer, or nothing when the
\* connection is gone; its result is not looked at.
SendChunk ==
    /\ client = "sending"
    /\ bytes_sent < Len(test_avi)
    /\ bytes_sent' = UpTo(bytes_sent + BUF_SIZE)
    /\ stream' = IF link = "open"
                 THEN stream \o SubSeq(test_avi, bytes_sent + 1, bytes_sent')
                 ELSE stream
    /\ UNCHANGED <<client, server, link, total_received, received_test_avi,
                   unwritten>>

\* fread returns 0: the file is closed, then the socket.
Complete ==
    /\ client = "sending"
    /\ bytes_sent = Len(test_avi)
    /\ client' = "completed"
    /\ link' = Hangup
    /\ UNCHANGED <<server, stream, bytes_sent, total_received,
                   received_test_avi, unwritten>>

-----------------------------------------------------------------------------
(***************************************************************************)
(* avi_server.cpp                                                          *)
(***************************************************************************)
Listen ==
    /\ server = "started"
    /\ server' = "listening"
    /\ UNCHANGED <<client, link, stream, bytes_sent, total_received,
                   received_test_avi, unwritten>>

\* WSAStartup, socket, bind or listen fails.
SetupFails ==
    /\ server = "started"
    /\ server' = "failed"
    /\ UNCHANGED <<client, link, stream, bytes_sent, total_received,
                   received_test_avi, unwritten>>

Accept ==
    /\ server = "listening"
    /\ link # "none"
    /\ server' = "accepted"
    /\ UNCHANGED <<client, link, stream, bytes_sent, total_received,
                   received_test_avi, unwritten>>

\* accept fails, or received_test.avi cannot be opened: both sockets are
\* closed over what the client has sent.
GiveUp ==
    /\ server \in {"listening", "accepted"}
    /\ link # "none"
    /\ server' = "failed"
    /\ link' = "reset"
    /\ stream' = <<>>
    /\ UNCHANGED <<client, bytes_sent, total_received, received_test_avi,
                   unwritten>>

\* fopen with "wb" empties received_test.avi.
Create ==
    /\ server = "accepted"
    /\ server' = "receiving"
    /\ received_test_avi' = <<>>
    /\ UNCHANGED <<client, link, stream, bytes_sent, total_received,
                   unwritten>>

\* recv returned n bytes, and fwrite, whose result is not looked at, writes
\* the first m of them: fewer than n while the disk is full, all when it has
\* room again.  The slip writes sizeof(buffer) bytes; what follows the n is
\* left from before.
SaveChunkWholeBuffer ==
    /\ server = "receiving"
    /\ \E n \in 1 .. Len(stream) :
         /\ n <= BUF_SIZE
         /\ stream' = SubSeq(stream, n + 1, Len(stream))
         /\ total_received' = total_received + n
         /\ received_test_avi' =
              received_test_avi
                \o [k \in 1 .. BUF_SIZE |-> stream[IF k <= n THEN k ELSE n]]
    /\ UNCHANGED <<client, server, link, bytes_sent, unwritten>>

SaveChunk ==
    /\ server = "receiving"
    /\ \E n \in 1 .. Len(stream) : \E m \in 0 .. n :
         /\ n <= BUF_SIZE
         /\ stream' = SubSeq(stream, n + 1, Len(stream))
         /\ total_received' = total_received + n
         /\ received_test_avi' = received_test_avi \o SubSeq(stream, 1, m)
         /\ unwritten' = (unwritten \/ m < n)
    /\ UNCHANGED <<client, server, link, bytes_sent>>

\* recv returned 0 or less: the loop ends and the file counts as saved.  The
\* slip takes a pause of the sender for the end.
AtEndWhenDrained == stream = <<>> /\ link # "none"

AtEnd == stream = <<>> /\ link \in {"closed", "reset"}

Report ==
    /\ server = "receiving"
    /\ AtEnd
    /\ server' = "saved"
    /\ UNCHANGED <<client, link, stream, bytes_sent, total_received,
                   received_test_avi, unwritten>>

-----------------------------------------------------------------------------
(***************************************************************************)
(* What may happen to them.                                                *)
(***************************************************************************)
\* The connection breaks: recv fails, and so does every further send.
Break ==
    /\ link \in {"open", "closed"}
    /\ server \in {"listening", "accepted", "receiving"}
    /\ link' = "reset"
    /\ stream' = <<>>
    /\ UNCHANGED <<client, server, bytes_sent, total_received,
                   received_test_avi, unwritten>>

\* The user stops the client in the middle.
Kill ==
    /\ client \in {"connected", "sending"}
    /\ client' = "killed"
    /\ link' = Hangup
    /\ UNCHANGED <<server, stream, bytes_sent, total_received,
                   received_test_avi, unwritten>>

Init ==
    /\ client = "started"
    /\ server = "started"
    /\ link = "none"
    /\ stream = <<>>
    /\ bytes_sent = 0
    /\ total_received = 0
    /\ received_test_avi = <<>>
    /\ unwritten = FALSE

Next ==
    \/ Connect \/ ConnectFails \/ OpenFails \/ Open \/ SendChunk \/ Complete
    \/ Listen \/ SetupFails \/ Accept \/ GiveUp \/ Create \/ SaveChunk
    \/ Report
    \/ Break \/ Kill

Spec == Init /\ [][Next]_vars

-----------------------------------------------------------------------------
(***************************************************************************)
(* Properties.                                                             *)
(***************************************************************************)
Copy == INSTANCE FileCopy
          WITH file <- test_avi, copy <- received_test_avi,
               reached <- total_received, finished <- server = "saved",
               gaps <- unwritten

\* However recv cuts the stream and whatever breaks: the bytes of test.avi are
\* taken in their order, each once, and written behind the ones before; what a
\* failing fwrite leaves out is a hole, also in the middle of the file, and
\* nothing else is missing before the place that has been reached.  Nothing is
\* added once the file counts as saved.
IsFileCopy == Copy!Spec

\* The server cannot tell the end of the file from a client that was killed,
\* that had no file or that was cut off (the loop ends alike on 0 and on an
\* error), and does not see that fwrite failed: these are the only ways to a
\* message of success over a file that is not test.avi.
ShortOnlyWhenBroken ==
    server = "saved" /\ received_test_avi # test_avi =>
        link = "reset" \/ client \in {"killed", "no_file"} \/ unwritten
=============================================================================
