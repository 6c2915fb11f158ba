------------------------------- MODULE TcpEcho -------------------------------
(***************************************************************************)
(* Messages over TCP: socketlab_tcp/message_client.cpp sends what the user *)
(* types and prints what one recv returns; message_server.cpp sends back   *)
(* what each of its recvs returns.  A message has no length and no end on  *)
(* the wire: each recv returns any part of what has arrived.               *)
(*                                                                         *)
(* An operator that stands before its namesake with a longer name          *)
(* (ServerEcho and ServerEchoLessOne) is a slip of that code which a run   *)
(* must notice.                                                            *)
(***************************************************************************)
EXTENDS Naturals, Sequences, SequencesExt

CONSTANTS
    Messages,    \* what the user may type: sequences of bytes, not empty
    BUF_SIZE,    \* 1024
    MaxMessages  \* bound: how many messages are typed

TcpEchoAssumption ==
    /\ \A m \in Messages : m \in Seq(Nat) /\ m # <<>>
    /\ BUF_SIZE \in Nat /\ BUF_SIZE > 1
    /\ MaxMessages \in Nat

VARIABLES
    client,   \* "started", "typing", "waiting", "exited", "lost", "failed"
    server,   \* "started", "listening", "receiving", "ended", "failed"
    link,     \* the connection: "none", "open", "closed", "reset"
    to_server, to_client,  \* bytes sent and not yet received
    sent,     \* the messages sent
    answers,  \* what was printed after each
    split     \* history: some recv left bytes that were already sent

vars == <<client, server, link, to_server, to_client, sent, answers, split>>

-----------------------------------------------------------------------------
(***************************************************************************)
(* message_client.cpp                                                      *)
(***************************************************************************)
Connect ==
    /\ client = "started"
    /\ server = "listening"
    /\ client' = "typing"
    /\ link' = "open"
    /\ UNCHANGED <<server, to_server, to_client, sent, answers, split>>

ConnectFails ==
    /\ client = "started"
    /\ client' = "failed"
    /\ UNCHANGED <<server, link, to_server, to_client, sent, answers, split>>

\* The result of send is not looked at; on a broken connection it is lost.
Send ==
    /\ client = "typing"
    /\ Len(sent) < MaxMessages
    /\ \E m \in Messages :
         /\ sent' = Append(sent, m)
         /\ to_server' = IF link = "open" THEN to_server \o m ELSE to_server
    /\ client' = "waiting"
    /\ UNCHANGED <<server, link, to_client, answers, split>>

\* Both leave room for the zero byte that makes a string of what came.
Limit == BUF_SIZE - 1

\* recv returns n bytes, which are printed as the answer.
PrintAnswer ==
    /\ client = "waiting"
    /\ \E n \in 1 .. Len(to_client) :
         /\ n <= Limit
         /\ answers' = Append(answers, SubSeq(to_client, 1, n))
         /\ to_client' = SubSeq(to_client, n + 1, Len(to_client))
         /\ split' = (split \/ n < Len(to_client))
    /\ client' = "typing"
    /\ UNCHANGED <<server, link, to_server, sent>>

\* recv returns 0 or less: "Connection lost."
LoseConnection ==
    /\ client = "waiting"
    /\ to_client = <<>>
    /\ link # "open"
    /\ client' = "lost"
    /\ UNCHANGED <<server, link, to_server, to_client, sent, answers, split>>

\* The user types exit: the socket is closed, whatever is still to be read.
Exit ==
    /\ client = "typing"
    /\ client' = "exited"
    /\ link' = IF link = "open" THEN "closed" ELSE link
    /\ UNCHANGED <<server, to_server, to_client, sent, answers, split>>

-----------------------------------------------------------------------------
(***************************************************************************)
(* message_server.cpp                                                      *)
(***************************************************************************)
Listen ==
    /\ server = "started"
    /\ server' = "listening"
    /\ UNCHANGED <<client, link, to_server, to_client, sent, answers, split>>

SetupFails ==
    /\ server = "started"
    /\ server' = "failed"
    /\ UNCHANGED <<client, link, to_server, to_client, sent, answers, split>>

Accept ==
    /\ server = "listening"
    /\ link # "none"
    /\ server' = "receiving"
    /\ UNCHANGED <<client, link, to_server, to_client, sent, answers, split>>

AcceptFails ==
    /\ server = "listening"
    /\ link # "none"
    /\ server' = "failed"
    /\ link' = "reset"
    /\ to_server' = <<>>
    /\ UNCHANGED <<client, to_client, sent, answers, split>>

\* recv returns n bytes, and they are sent back; its result is not looked at.
ServerEchoLessOne ==
    /\ server = "receiving"
    /\ \E n \in 1 .. Len(to_server) :
         /\ n <= Limit
         /\ to_server' = SubSeq(to_server, n + 1, Len(to_server))
         /\ to_client' = IF link = "open"
                         THEN to_client \o SubSeq(to_server, 1, n - 1)
                         ELSE to_client
         /\ split' = (split \/ n < Len(to_server))
    /\ UNCHANGED <<client, server, link, sent, answers>>

ServerEcho ==
    /\ server = "receiving"
    /\ \E n \in 1 .. Len(to_server) :
         /\ n <= Limit
         /\ to_server' = SubSeq(to_server, n + 1, Len(to_server))
         /\ to_client' = IF link = "open"
                         THEN to_client \o SubSeq(to_server, 1, n)
                         ELSE to_client
         /\ split' = (split \/ n < Len(to_server))
    /\ UNCHANGED <<client, server, link, sent, answers>>

\* recv returns 0 or less: the server closes both sockets and ends.
ServerEnds ==
    /\ server = "receiving"
    /\ to_server = <<>>
    /\ link \in {"closed", "reset"}
    /\ server' = "ended"
    /\ UNCHANGED <<client, link, to_server, to_client, sent, answers, split>>

\* The connection breaks.
Break ==
    /\ link = "open"
    /\ link' = "reset"
    /\ to_server' = <<>>
    /\ to_client' = <<>>
    /\ UNCHANGED <<client, server, sent, answers, split>>

Init ==
    /\ client = "started"
    /\ server = "started"
    /\ link = "none"
    /\ to_server = <<>>
    /\ to_client = <<>>
    /\ sent = <<>>
    /\ answers = <<>>
    /\ split = FALSE

Next ==
    \/ Connect \/ ConnectFails \/ Send \/ PrintAnswer \/ LoseConnection
    \/ Exit
    \/ Listen \/ SetupFails \/ Accept \/ AcceptFails \/ ServerEcho
    \/ ServerEnds
    \/ Break

Spec == Init /\ [][Next]_vars

-----------------------------------------------------------------------------
(***************************************************************************)
(* Properties.                                                             *)
(***************************************************************************)
\* As long as every recv returns all that was sent, an answer is the message
\* it is printed under.  After the first that does not, the answers lag
\* behind, each beginning with the rest of the one before; but they never
\* skip, repeat or reorder a byte of what the user has typed.
AnswersInOrder ==
    /\ IsPrefix(FlattenSeq(answers), FlattenSeq(sent))
    /\ ~split => IsPrefix(answers, sent)

\* The client and the server never wait for each other: while the client
\* waits on a sound connection, bytes are on their way, since every answer
\* so far took no more than was echoed.
NeverBothWaiting ==
    client = "waiting" /\ link = "open" => to_server # <<>> \/ to_client # <<>>

\* Each of the two programs can count on the other, whatever recv returns.
EchoInOrder == AnswersInOrder /\ NeverBothWaiting
=============================================================================
