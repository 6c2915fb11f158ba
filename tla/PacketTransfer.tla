--------------------------- MODULE PacketTransfer ---------------------------
(***************************************************************************)
(* packet_transfer as a whole: send.cpp, run by hand as often as needed,   *)
(* the link, and recv.cpp.  The sender's frames stay in `wire`; the link   *)
(* keeps the positions it may still deliver in `pending`, so it reorders   *)
(* without limit, loses what it never delivers, delivers a position twice  *)
(* while Duplicates, and may damage a frame on its way.                    *)
(***************************************************************************)
EXTENDS Integers, Sequences, FiniteSets, SequencesExt

CONSTANTS
    Bytes, send_file, CHUNK_SIZE, MAX_SIZE, IndexInputs, MaxRuns,
    Own, Broadcast,
    MaxHeld, MaxOpenFailures, MaxLostWrites, MaxRestarts,
    Duplicates,     \* may the link deliver a frame twice
    Damages,        \* may the link change a frame
    Reruns          \* may a range be asked for that has been sent before

VARIABLES
    pc, start_index, end_index, fp, chunk_index, size_of_packet,
    outcome, wire, first, runs,
    need_index, now_length, chain, recived_file,
    open_failures, lost_writes, restarts, base,
    pending         \* positions of wire that the link may deliver

S == INSTANCE PacketSend

ASSUME PacketTransferAssumption ==
    /\ S!PacketSendAssumption
    /\ MaxHeld \in Nat \ {0}
    /\ {MaxOpenFailures, MaxLostWrites, MaxRestarts} \subseteq Nat
    /\ {Duplicates, Damages, Reruns} \subseteq BOOLEAN

Sound(i) ==
    [dst |-> Own, index |-> i, data |-> S!Content[i + 1],
     crc |-> <<i, S!Content[i + 1]>>, pad |-> 0]

\* A damaged frame: its index, its bytes or its length is not what was sent.
DamagedForms(f) ==
    {[f EXCEPT !.index = f.index + 1],
     [f EXCEPT !.data = <<>>],
     [f EXCEPT !.pad = f.pad + 1]}

SoundFrames == {Sound(i) : i \in 0 .. S!NumChunks - 1}

LinkFrames == SoundFrames \cup UNION {DamagedForms(f) : f \in SoundFrames}

R == INSTANCE PacketRecv
       WITH Chunks <- Seq(Bytes), Content <- S!Content, Frames <- LinkFrames

senderVars ==
    <<pc, start_index, end_index, fp, chunk_index, size_of_packet,
      outcome, wire, first, runs>>

receiverVars ==
    <<need_index, now_length, chain, recived_file,
      open_failures, lost_writes, restarts, base>>

vars == <<senderVars, receiverVars, pending>>

-----------------------------------------------------------------------------
SentIndices == {wire[i].index : i \in 1 .. Len(wire)}

\* A turn of the sender.  What it transmits is pending from then on.
SenderStep ==
    /\ S!Next
    /\ ~Reruns /\ pc' = "loop" /\ pc = "idle" =>
           start_index' .. end_index' \cap SentIndices = {}
    /\ pending' = pending \cup (Len(wire) + 1 .. Len(wire'))
    /\ UNCHANGED receiverVars

\* The link hands a frame to the receiver's callback.
Deliver ==
    /\ \E p \in pending :
         /\ \/ R!Receive(wire[p])
            \/ Damages /\ \E f \in DamagedForms(wire[p]) : R!Receive(f)
         /\ \/ pending' = pending \ {p}
            \/ Duplicates /\ UNCHANGED pending
    /\ UNCHANGED senderVars

ReceiverRestart ==
    /\ R!Restart
    /\ UNCHANGED <<senderVars, pending>>

Init == S!Init /\ R!Init /\ pending = {}

Next == SenderStep \/ Deliver \/ ReceiverRestart

Spec == Init /\ [][Next]_vars

-----------------------------------------------------------------------------
(***************************************************************************)
(* Properties.                                                             *)
(***************************************************************************)
Written == SubSeq(recived_file, base + 1, Len(recived_file))

\* The bytes written by one run of recv are the first bytes of send_file,
\* whatever ranges were sent and whatever the link did; on a full disk what
\* is missing is what fwrite lost, and need_index counts it all the same.
BytesArePrefix ==
    /\ lost_writes = 0 => IsPrefix(FlattenSeq(Written), send_file)
    /\ Len(Written) + lost_writes = need_index

\* What goes over this link is what the receiver is built for: its checks
\* turn every frame of the link into a step of the receiver alone.
ReceiverSpec == R!Spec

\* Nothing sent twice, nothing delivered twice, no failed open: then the
\* receiver is the buffer its documentation describes, and the needed chunk
\* is never among those it holds.
IsIdealBuffer == R!IsIdealBuffer

\* On such a link, once nothing is on its way and nothing was dropped, the
\* receiver has the file up to the first chunk that was not sent.
FirstMissing ==
    CHOOSE i \in 0 .. S!NumChunks :
        i \notin SentIndices /\ \A j \in 0 .. i - 1 : j \in SentIndices

NothingLeftBehind ==
    pending = {} /\ Len(wire) = need_index + Len(chain) =>
        need_index = FirstMissing
=============================================================================
