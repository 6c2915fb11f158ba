---------------------------- MODULE IcmpChecksum ----------------------------
(***************************************************************************)
(* The echo request of ICMP/message_client.cpp: a header of eight bytes    *)
(* and the text the user types, under a checksum that the program computes *)
(* in the byte order of its own machine and the receiver verifies in the   *)
(* order of the network.                                                   *)
(*                                                                         *)
(* A byte has BYTE values, so the bounded runs can use small bytes; a word *)
(* is two bytes, and sum an unsigned long of two words.                    *)
(*                                                                         *)
(* An operator that stands before its namesake with a longer name          *)
(* (FoldAgain and FoldAgainForgotten) is a slip of that code which a run   *)
(* must notice.                                                            *)
(***************************************************************************)
EXTENDS Naturals, Sequences

CONSTANTS
    BYTE,   \* 256
    Ids,    \* process ids, as pairs of bytes
    Texts   \* what the user may type: bytes that are not zero, and no more
            \* than send_buf has room for

IcmpChecksumAssumption ==
    /\ BYTE \in Nat /\ BYTE > 8
    /\ Ids \subseteq (0 .. BYTE - 1) \X (0 .. BYTE - 1)
    /\ \A text \in Texts :
           text \in Seq(1 .. BYTE - 1) /\ 8 + Len(text) < BYTE * BYTE

WORD == BYTE * BYTE

VARIABLES
    pc,      \* "typing", "adding", "folding", "again", "storing", "ready",
             \* "sent", "failed"
    packet,  \* send_buf up to its length, byte by byte
    i,       \* words added so far
    sum

vars == <<pc, packet, i, sum>>

-----------------------------------------------------------------------------
\* Type 8, code 0, the checksum 0, the process id, sequence number 0.
Header(id) == <<8, 0, 0, 0, id[1], id[2], 0, 0>>

Build ==
    /\ pc = "typing"
    /\ \E id \in Ids, text \in Texts : packet' = Header(id) \o text
    /\ i' = 0
    /\ sum' = 0
    /\ pc' = "adding"

\* WSAStartup or socket fails.
NoSocket ==
    /\ pc = "typing"
    /\ pc' = "failed"
    /\ UNCHANGED <<packet, i, sum>>

(***************************************************************************)
(* calculate_checksum                                                      *)
(***************************************************************************)
\* data[k]: the machine has the low byte first.
Data(k) == packet[2 * k + 1] + BYTE * packet[2 * k + 2]

AddWord ==
    /\ pc = "adding"
    /\ i < Len(packet) \div 2
    /\ sum' = (sum + Data(i)) % (WORD * WORD)
    /\ i' = i + 1
    /\ UNCHANGED <<pc, packet>>

\* The byte that is left over is added as it is: the low half of a word.
OddByte == IF Len(packet) % 2 = 1 THEN packet[Len(packet)] ELSE 0

AddOddByte ==
    /\ pc = "adding"
    /\ i = Len(packet) \div 2
    /\ sum' = (sum + OddByte) % (WORD * WORD)
    /\ pc' = "folding"
    /\ UNCHANGED <<packet, i>>

Fold ==
    /\ pc = "folding"
    /\ sum' = (sum \div WORD) + (sum % WORD)
    /\ pc' = "again"
    /\ UNCHANGED <<packet, i>>

FoldAgainForgotten ==
    /\ pc = "again"
    /\ pc' = "storing"
    /\ UNCHANGED <<packet, i, sum>>

FoldAgain ==
    /\ pc = "again"
    /\ sum' = sum + (sum \div WORD)
    /\ pc' = "storing"
    /\ UNCHANGED <<packet, i>>

\* The cast keeps the low word; its complement goes into the header.
Checksum == (WORD - 1) - (sum % WORD)

Store ==
    /\ pc = "storing"
    /\ packet' = [packet EXCEPT ![3] = Checksum % BYTE,
                                ![4] = Checksum \div BYTE]
    /\ pc' = "ready"
    /\ UNCHANGED <<i, sum>>

Send ==
    /\ pc = "ready"
    /\ pc' \in {"sent", "failed"}
    /\ UNCHANGED <<packet, i, sum>>

Init == pc = "typing" /\ packet = <<>> /\ i = 0 /\ sum = 0

Next ==
    \/ Build \/ NoSocket
    \/ AddWord \/ AddOddByte \/ Fold \/ FoldAgain \/ Store
    \/ Send

Spec == Init /\ [][Next]_vars

-----------------------------------------------------------------------------
(***************************************************************************)
(* Properties.                                                             *)
(***************************************************************************)
\* What the receiver adds up: words with the high byte first, a missing last
\* byte counted as zero.  On one's complement zero and WORD - 1 are the same.
Received ==
    LET upto[k \in 0 .. Len(packet)] ==
          IF k = 0 THEN 0
          ELSE upto[k - 1]
                 + (IF k % 2 = 1 THEN BYTE * packet[k] ELSE packet[k])
    IN  upto[Len(packet)]

\* The receiver, whose byte order is the other one, finds the checksum right
\* for texts of every length: no carry is lost in the folds or in the cast.
ReceiverVerifies ==
    pc \in {"ready", "sent"} =>
        Received % (WORD - 1) = 0
=============================================================================
