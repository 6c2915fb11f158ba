------------------------------- MODULE UdpEcho -------------------------------
(***************************************************************************)
(* Messages over UDP: socketlab_udp/message_client.cpp sends one message   *)
(* and waits for the answer without a timeout; message_server.cpp answers  *)
(* one datagram after the other from one socket, for all clients.          *)
(*                                                                         *)
(* Abstractions.  A client's message is the client's own name.  A datagram *)
(* that arrives where no socket is bound makes the system answer that the  *)
(* port is unreachable, and Winsock fails the next recvfrom of the sender  *)
(* for it.                                                                 *)
(*                                                                         *)
(* An operator that stands before its namesake with a longer name          *)
(* (ServerReceive and ServerReceiveKeepAddress) is a slip of that code     *)
(* which a run must notice.                                                *)
(***************************************************************************)
EXTENDS Naturals

CONSTANTS
    Clients,  \* the runs of message_client
    None

UdpEchoAssumption == None \notin Clients

VARIABLES
    client,       \* of each: see ClientStates
    answer,       \* of each: what it printed
    requests,     \* senders of the messages on their way
    replies,      \* [to, text] on their way
    server,       \* "started", "receiving", "replying", "ended"
    client_addr,  \* who the last message came from
    recive_buf,   \* and what it said
    unreachable,  \* the server's next recvfrom will fail
    trouble       \* history: "lost", "doubled", "killed", "server_failed"

vars == <<client, answer, requests, replies, server, client_addr,
          recive_buf, unreachable, trouble>>

ClientStates == {"started", "waiting", "answered", "failed", "killed"}

Init ==
    /\ client = [c \in Clients |-> "started"]
    /\ answer = [c \in Clients |-> None]
    /\ requests = {}
    /\ replies = {}
    /\ server = "started"
    /\ client_addr = None
    /\ recive_buf = None
    /\ unreachable = FALSE
    /\ trouble = {}

-----------------------------------------------------------------------------
(***************************************************************************)
(* message_client.cpp                                                      *)
(***************************************************************************)
Ask(c) ==
    /\ client[c] = "started"
    /\ client' = [client EXCEPT ![c] = "waiting"]
    /\ requests' = requests \cup {c}
    /\ UNCHANGED <<answer, replies, server, client_addr, recive_buf,
                   unreachable, trouble>>

\* No socket, or sendto fails.
AskFails(c) ==
    /\ client[c] = "started"
    /\ client' = [client EXCEPT ![c] = "failed"]
    /\ UNCHANGED <<answer, requests, replies, server, client_addr,
                   recive_buf, unreachable, trouble>>

\* Any datagram that comes is the answer; the client prints it and ends.
PrintAnswer(c) ==
    /\ client[c] = "waiting"
    /\ \E r \in replies :
         /\ r.to = c
         /\ answer' = [answer EXCEPT ![c] = r.text]
         /\ replies' = replies \ {r}
    /\ client' = [client EXCEPT ![c] = "answered"]
    /\ UNCHANGED <<requests, server, client_addr, recive_buf, unreachable,
                   trouble>>

\* No server is there to receive the message: recvfrom fails.
Refused(c) ==
    /\ client[c] = "waiting"
    /\ c \in requests
    /\ server \in {"started", "ended"}
    /\ requests' = requests \ {c}
    /\ client' = [client EXCEPT ![c] = "failed"]
    /\ UNCHANGED <<answer, replies, server, client_addr, recive_buf,
                   unreachable, trouble>>

\* The user gives up on a client that waits.
Kill(c) ==
    /\ client[c] = "waiting"
    /\ client' = [client EXCEPT ![c] = "killed"]
    /\ trouble' = trouble \cup {"killed"}
    /\ UNCHANGED <<answer, requests, replies, server, client_addr,
                   recive_buf, unreachable>>

-----------------------------------------------------------------------------
(***************************************************************************)
(* message_server.cpp                                                      *)
(***************************************************************************)
Bind ==
    /\ server = "started"
    /\ server' = "receiving"
    /\ UNCHANGED <<client, answer, requests, replies, client_addr,
                   recive_buf, unreachable, trouble>>

SetupFails ==
    /\ server = "started"
    /\ server' = "ended"
    /\ trouble' = trouble \cup {"server_failed"}
    /\ UNCHANGED <<client, answer, requests, replies, client_addr,
                   recive_buf, unreachable>>

\* The message may be on its way a second time.
ServerReceiveKeepAddress(c) ==
    /\ server = "receiving"
    /\ ~unreachable
    /\ c \in requests
    /\ client_addr' = IF client_addr = None THEN c ELSE client_addr
    /\ recive_buf' = c
    /\ \/ requests' = requests \ {c} /\ UNCHANGED trouble
       \/ UNCHANGED requests /\ trouble' = trouble \cup {"doubled"}
    /\ server' = "replying"
    /\ UNCHANGED <<client, answer, replies, unreachable>>

ServerReceive(c) ==
    /\ server = "receiving"
    /\ ~unreachable
    /\ c \in requests
    /\ client_addr' = c
    /\ recive_buf' = c
    /\ \/ requests' = requests \ {c} /\ UNCHANGED trouble
       \/ UNCHANGED requests /\ trouble' = trouble \cup {"doubled"}
    /\ server' = "replying"
    /\ UNCHANGED <<client, answer, replies, unreachable>>

ServerReply ==
    /\ server = "replying"
    /\ replies' = replies \cup {[to |-> client_addr, text |-> recive_buf]}
    /\ server' = "receiving"
    /\ UNCHANGED <<client, answer, requests, client_addr, recive_buf,
                   unreachable, trouble>>

\* sendto fails, or recvfrom for no fault of a client: the loop ends.
ServerFails ==
    /\ server \in {"receiving", "replying"}
    /\ server' = "ended"
    /\ trouble' = trouble \cup {"server_failed"}
    /\ UNCHANGED <<client, answer, requests, replies, client_addr,
                   recive_buf, unreachable>>

\* recvfrom fails because an answer reached nobody: the loop ends.
ServerReset ==
    /\ server = "receiving"
    /\ unreachable
    /\ server' = "ended"
    /\ UNCHANGED <<client, answer, requests, replies, client_addr,
                   recive_buf, unreachable, trouble>>

-----------------------------------------------------------------------------
(***************************************************************************)
(* The link.                                                               *)
(***************************************************************************)
LoseRequest(c) ==
    /\ c \in requests
    /\ requests' = requests \ {c}
    /\ trouble' = trouble \cup {"lost"}
    /\ UNCHANGED <<client, answer, replies, server, client_addr, recive_buf,
                   unreachable>>

LoseReply(c) ==
    /\ \E r \in replies : r.to = c /\ replies' = replies \ {r}
    /\ trouble' = trouble \cup {"lost"}
    /\ UNCHANGED <<client, answer, requests, server, client_addr,
                   recive_buf, unreachable>>

\* An answer reaches a client that is not there any more.
Bounce(c) ==
    /\ client[c] \in {"answered", "failed", "killed"}
    /\ \E r \in replies : r.to = c /\ replies' = replies \ {r}
    /\ unreachable' = TRUE
    /\ UNCHANGED <<client, answer, requests, server, client_addr, recive_buf,
                   trouble>>

Next ==
    \/ \E c \in Clients :
         \/ Ask(c) \/ AskFails(c) \/ PrintAnswer(c) \/ Refused(c) \/ Kill(c)
         \/ ServerReceive(c)
         \/ LoseRequest(c) \/ LoseReply(c) \/ Bounce(c)
    \/ Bind \/ SetupFails \/ ServerReply \/ ServerFails \/ ServerReset

Spec == Init /\ [][Next]_vars

-----------------------------------------------------------------------------
(***************************************************************************)
(* Properties.                                                             *)
(***************************************************************************)
\* One socket serves all clients in turns, and still nobody prints what
\* another has sent; and a client that waits with nothing on its way waits
\* for something that was lost.
AnswerIsOwn ==
    \A c \in Clients :
        /\ answer[c] \in {c, None}
        /\ client[c] = "waiting" /\ server = "receiving" /\ c \notin requests
             /\ (\A r \in replies : r.to # c) => "lost" \in trouble

\* One client can end the server for all the others: by not being there when
\* its answer arrives, which takes a kill or a doubled datagram.  Nothing
\* else that clients and link do ends it.
ServerEndsOnlyAfterKill ==
    server = "ended" => trouble \cap {"killed", "doubled", "server_failed"} # {}

\* Clients know nothing of each other, but for the one way to end the server.
ClientsApart == AnswerIsOwn /\ ServerEndsOnlyAfterKill
=============================================================================
