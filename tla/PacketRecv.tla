----------------------------- MODULE PacketRecv -----------------------------
(***************************************************************************)
(* The receiver of packet_transfer.  recv.cpp captures link-layer frames   *)
(* with pcap_loop and calls one callback per frame, one at a time.  The    *)
(* callback filters on the destination MAC, checks the CRC and hands the   *)
(* chunk to write_data, which appends it to recived_file or keeps it in    *)
(* the list that hangs from the global wbh.                                *)
(*                                                                         *)
(* Abstractions.  The list is the sequence `chain` of its nodes, head      *)
(* first.  A chunk of the file is one value.  The CRC of (index, data) is  *)
(* that pair itself: no change of a frame goes undetected by chance.       *)
(*                                                                         *)
(* An operator that stands before its namesake with a longer name (Full    *)
(* and FullOneLate) is a slip of that code which a run must notice.        *)
(***************************************************************************)
EXTENDS Naturals, Sequences, SequencesExt

CONSTANTS
    Chunks,          \* the values a chunk of the file may have
    Content,         \* the file being sent: chunk i is Content[i + 1]
    Frames,          \* the frames that may be on the wire
    Own, Broadcast,  \* the two rows of accept_dest_mac
    MaxHeld,         \* the literal 10 of write_data
    MaxOpenFailures, \* bound: how often fopen may fail
    MaxLostWrites,   \* bound: how many chunks fwrite and fclose may lose
    MaxRestarts      \* bound: how often the process is killed and started

Indices == 0 .. Len(Content) - 1

Chunk(index) == Content[index + 1]

-----------------------------------------------------------------------------
(***************************************************************************)
(* Frames.  A frame is [dst, index, data, crc, pad]; pad is the number of  *)
(* bytes between the CRC field and the end of the captured frame.          *)
(***************************************************************************)
Crc(index, data) == <<index, data>>

Accepts(f) == f.dst \in {Broadcast, Own}

\* The callback takes the last four bytes of the frame for the CRC field, so
\* a frame with anything after that field does not verify.
VerifiesAlways(f) == TRUE

Verifies(f) == f.pad = 0 /\ f.crc = Crc(f.index, f.data)

(***************************************************************************)
(* A frame that passes both tests was made by send.cpp from the file: what *)
(* other programs broadcast, and what the link damages, fails the CRC.     *)
(***************************************************************************)
ASSUME PacketRecvAssumption ==
    /\ Content \in Seq(Chunks)
    /\ \A f \in Frames : Accepts(f) /\ Verifies(f) =>
           f.index \in Indices /\ f.data = Chunk(f.index)
    /\ MaxHeld \in Nat \ {0}
    /\ {MaxOpenFailures, MaxLostWrites, MaxRestarts} \subseteq Nat

-----------------------------------------------------------------------------
VARIABLES
    need_index,     \* wbh.need_index
    now_length,     \* wbh.now_length
    chain,          \* the nodes from wbh.next on: [index, data]
    recived_file,   \* the chunks on disk; it survives the process
    open_failures,  \* history: fopen calls that failed in this process
    lost_writes,    \* history: chunks counted as saved and not on disk
    restarts,       \* history: how often the process was started again
    base            \* history: chunks on disk when this process started

vars == <<need_index, now_length, chain, recived_file,
          open_failures, lost_writes, restarts, base>>

Nodes == [index : Indices, data : Chunks]

Node(f) == [index |-> f.index, data |-> f.data]

-----------------------------------------------------------------------------
(***************************************************************************)
(* The two loops over the list.                                            *)
(***************************************************************************)
\* The bubble loop: the new node moves behind the first k nodes and stops
\* before the first node whose index is strictly greater.
IsSlotAtHead(ch, index, k) == k = 0

IsSlot(ch, index, k) ==
    /\ \A j \in 1 .. k : ch[j].index <= index
    /\ k < Len(ch) => index < ch[k + 1].index

\* The drain loop: the first k nodes carry need, need + 1, ... and node
\* k + 1, if there is one, does not carry on.
IsRunOfOne(ch, need, k) == k = 1

IsRunToEnd(ch, need, k) == k = Len(ch)

IsRun(ch, need, k) ==
    /\ \A j \in 1 .. k : ch[j].index = need + j - 1
    /\ k < Len(ch) => ch[k + 1].index # need + k

-----------------------------------------------------------------------------
(***************************************************************************)
(* The callback, one action per way through it.                            *)
(***************************************************************************)
ReceiveOther(f) ==
    /\ ~Accepts(f)
    /\ UNCHANGED vars

ReceiveDamaged(f) ==
    /\ Accepts(f)
    /\ ~Verifies(f)
    /\ UNCHANGED vars

Handed(f) == Accepts(f) /\ Verifies(f)

\* The list is full and the chunk is not the needed one: it is dropped.
FullOneLate == now_length > MaxHeld

Full == now_length >= MaxHeld

DropWhenFull(f) ==
    /\ Handed(f)
    /\ Full
    /\ f.index # need_index
    /\ UNCHANGED vars

\* A chunk already saved: the early return leaves its node at the head.
KeepStale(f) ==
    /\ Handed(f)
    /\ ~Full
    /\ f.index < need_index
    /\ chain' = <<Node(f)>> \o chain
    /\ now_length' = now_length + 1
    /\ UNCHANGED <<need_index, recived_file,
                   open_failures, lost_writes, restarts, base>>

\* A chunk ahead of the needed one takes its place in the list.
Hold(f) ==
    /\ Handed(f)
    /\ ~Full
    /\ f.index > need_index
    /\ \E k \in 0 .. Len(chain) :
         /\ IsSlot(chain, f.index, k)
         /\ chain' = InsertAt(chain, k + 1, Node(f))
    /\ now_length' = now_length + 1
    /\ UNCHANGED <<need_index, recived_file,
                   open_failures, lost_writes, restarts, base>>

\* The needed chunk, but recived_file cannot be opened: its node stays.
OpenFails(f) ==
    /\ Handed(f)
    /\ f.index = need_index
    /\ open_failures < MaxOpenFailures
    /\ chain' = <<Node(f)>> \o chain
    /\ now_length' = now_length + 1
    /\ open_failures' = open_failures + 1
    /\ UNCHANGED <<need_index, recived_file, lost_writes, restarts, base>>

\* The needed chunk: it and the run of nodes behind it go to the file.  The
\* results of fwrite and fclose are not looked at, so when the disk is full
\* only the first w of the k chunks get there.
SaveUnlessFull(f) ==
    /\ Handed(f)
    /\ f.index = need_index
    /\ ~Full
    /\ recived_file' = Append(recived_file, f.data)
    /\ need_index' = need_index + 1
    /\ UNCHANGED <<now_length, chain,
                   open_failures, lost_writes, restarts, base>>

Save(f) ==
    /\ Handed(f)
    /\ f.index = need_index
    /\ LET pushed == <<Node(f)>> \o chain
       IN  \E k \in 1 .. Len(pushed) :
             /\ IsRun(pushed, need_index, k)
             /\ \E w \in 0 .. k :
                  /\ lost_writes + k - w <= MaxLostWrites \/ w = k
                  /\ recived_file' =
                       recived_file \o [j \in 1 .. w |-> pushed[j].data]
                  /\ lost_writes' = lost_writes + (k - w)
             /\ need_index' = need_index + k
             /\ now_length' = now_length + 1 - k
             /\ chain' = SubSeq(pushed, k + 1, Len(pushed))
    /\ UNCHANGED <<open_failures, restarts, base>>

Receive(f) ==
    \/ ReceiveOther(f)
    \/ ReceiveDamaged(f)
    \/ DropWhenFull(f)
    \/ KeepStale(f)
    \/ Hold(f)
    \/ OpenFails(f)
    \/ Save(f)

\* pcap_loop never returns: the user kills recv and may start it again.  The
\* globals are back at their initial values, the file is as it was left.
Restart ==
    /\ restarts < MaxRestarts
    /\ restarts' = restarts + 1
    /\ need_index' = 0
    /\ now_length' = 0
    /\ chain' = <<>>
    /\ open_failures' = 0
    /\ lost_writes' = 0
    /\ base' = Len(recived_file)
    /\ UNCHANGED recived_file

Init ==
    /\ need_index = 0
    /\ now_length = 0
    /\ chain = <<>>
    /\ recived_file = <<>>
    /\ open_failures = 0
    /\ lost_writes = 0
    /\ restarts = 0
    /\ base = 0

Next == (\E f \in Frames : Receive(f)) \/ Restart

Spec == Init /\ [][Next]_vars

-----------------------------------------------------------------------------
(***************************************************************************)
(* Properties.                                                             *)
(***************************************************************************)

\* Every variable has its type; need_index stays within the file.
TypeOK ==
    /\ need_index \in 0 .. Len(Content)
    /\ now_length \in Nat
    /\ chain \in Seq(Nodes)
    /\ recived_file \in Seq(Chunks)
    /\ open_failures \in 0 .. MaxOpenFailures
    /\ lost_writes \in Nat
    /\ restarts \in 0 .. MaxRestarts
    /\ base \in 0 .. Len(recived_file)

\* The counter that decides whether a chunk is dropped agrees with the list
\* on every path of write_data, the early returns included.
LengthMatches == now_length = Len(chain)

\* The list outgrows its limit only by the nodes that a failed fopen left
\* behind: the needed chunk passes the full test and is pushed first.
BufferBound == Len(chain) <= MaxHeld + open_failures

\* What this process has written is exactly the chunks before need_index,
\* once each and in order, whatever order, duplicates and drops it has seen.
FileIsPrefix ==
    lost_writes = 0 =>
        SubSeq(recived_file, base + 1, Len(recived_file))
            = SubSeq(Content, 1, need_index)

\* The bubble loop compares neighbours only and starts from a head that may
\* be a node left behind; the chunks still to come are sorted nevertheless,
\* which is what lets the drain loop stop at the first mismatch.
AheadIsSorted ==
    \A i, j \in 1 .. Len(chain) :
        i < j /\ chain[i].index > need_index =>
            chain[i].index <= chain[j].index

\* A held chunk that has become the needed one is stuck (it is saved only
\* when it arrives again), and that happens only behind a node of a chunk
\* already saved, or after a failed fopen.
StuckOnlyBehindStale ==
    (\E i \in 1 .. Len(chain) : chain[i].index = need_index) =>
        open_failures > 0 \/ chain[1].index < need_index

\* No step takes back or rewrites what is on disk, and only the arrival of
\* the needed chunk extends it.
FileOnlyGrows ==
    [][/\ IsPrefix(recived_file, recived_file')
       /\ recived_file' # recived_file => need_index' > need_index]_vars

-----------------------------------------------------------------------------
(***************************************************************************)
(* The abstract buffer: the indices held are those of the nodes that are   *)
(* not of chunks already saved, the output is what this process wrote.     *)
(***************************************************************************)
HeldIndices ==
    {i \in Indices : i >= need_index
                     /\ \E j \in 1 .. Len(chain) : chain[j].index = i}

Output == SubSeq(recived_file, base + 1, Len(recived_file))

Buffer == INSTANCE ReorderBuffer
            WITH need <- need_index, held <- HeldIndices, output <- Output,
                 Eager <- FALSE

Ideal == INSTANCE ReorderBuffer
            WITH need <- need_index, held <- HeldIndices, output <- Output,
                 Eager <- TRUE

\* Every step of write_data is a step of a reordering buffer that holds
\* chunks ahead, lets go a run that starts with the needed one, and loses
\* none of the chunks it has taken.
IsReorderBuffer == Buffer!Spec

(***************************************************************************)
(* Progress.  The sender is run again for what the receiver prints as      *)
(* needed, so every frame of the file arrives again and again; the kernel  *)
(* hands each captured frame to the callback.                              *)
(***************************************************************************)
LiveSpec == Spec /\ \A f \in Frames : WF_vars(Receive(f))

\* However full the list is of chunks that came twice or too early, the file
\* is completed: the needed chunk always gets through.
EventuallyWhole == <>[](need_index = Len(Content))

-----------------------------------------------------------------------------
(***************************************************************************)
(* What the documentation says, and the code does not do.                  *)
(***************************************************************************)

\* readme.md:19: the needed chunk and the held ones that follow it are saved
\* up to the next missing chunk, whose index need_index becomes.
IsIdealBuffer == Ideal!Spec
=============================================================================
