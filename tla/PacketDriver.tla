---------------------------- MODULE PacketDriver ----------------------------
(***************************************************************************)
(* The programs of WpdPack that use packet.dll without the capture library *)
(* (Examples-remote/PacketDriver): TestPacketCapture prints what it        *)
(* captures, TestPacketSend sends one packet npacks times, GetMacAddress   *)
(* asks for an address.  All of them take the names of the adapters apart, *)
(* and TestPacketCapture the blocks of packets, that the driver hands over *)
(* as one piece of memory.                                                 *)
(*                                                                         *)
(* Abstractions.  The text of a name is one character several times; 0 is  *)
(* the character that ends a name.  A process that has gone beyond the     *)
(* rows of AdapterList is not followed any further.  A packet is its       *)
(* bh_hdrlen and bh_caplen: where a header is read that the driver has put *)
(* elsewhere, what is read is Garbage.                                     *)
(*                                                                         *)
(* An operator that stands before its namesake with a longer name          *)
(* (NextOffset and NextOffsetUnaligned) is a slip of that code which a run *)
(* must notice.                                                            *)
(***************************************************************************)
EXTENDS Integers, Sequences, SequencesExt

CONSTANTS
    NameLists,        \* the installed adapters: sequences of names
    Max_Num_Adapter,  \* 10: the rows of AdapterList
    ROW,              \* 1024: the bytes of a row, but for "send"
    Inputs,           \* the numbers the user may type
    Blocks,           \* what one read may return: sequences of packets
    ALIGNMENT,        \* Packet_ALIGNMENT
    Garbage,
    MaxBlocks         \* bound: how many blocks are read

PacketDriverAssumption ==
    /\ NameLists \subseteq Seq(Seq(Nat \ {0}) \ {<<>>})
    /\ {Max_Num_Adapter, ROW, ALIGNMENT} \subseteq Nat \ {0}
    /\ Inputs \subseteq Int
    /\ Blocks \subseteq Seq([bh_hdrlen : Nat \ {0}, bh_caplen : Nat])
    /\ MaxBlocks \in Nat

VARIABLES
    program,      \* "capture", "send", "mac"
    pc,           \* see Stages
    installed,    \* the adapters there are
    AdapterName,  \* the names as the driver wrote them
    before,       \* the byte in front of AdapterName
    temp, temp1,  \* positions in AdapterName, from 0 on
    AdapterList,
    Open,         \* the number typed, 0 until then
    held,         \* of "adapter", "memory": what is open or allocated
    received,     \* history: the packets of all the blocks read
    block,        \* the block in the buffer
    off,          \* the place in it
    printed,      \* the packets printed, or Garbage
    blocks,       \* history: how many were read
    kbhit         \* a key has been pressed

vars == <<program, pc, installed, AdapterName, before, temp, temp1,
          AdapterList, Open, held, received, block, off, printed, blocks,
          kbhit>>

\* "done" has returned 0, "failed" -1; "overrun" has put a name where there is
\* no room for it, "lost" takes the memory before AdapterList for a name.
Stages ==
    {"listing", "splitting", "choosing", "opening", "opened", "reading",
     "walking", "closing", "done", "failed", "overrun", "lost"}

splitter == <<installed, AdapterName, before, temp, temp1, AdapterList, Open>>
walker == <<received, block, off, printed, blocks>>

-----------------------------------------------------------------------------
(***************************************************************************)
(* The names: each ends with a zero byte, and the last with two.           *)
(***************************************************************************)
NameBytes(names) ==
    FlattenSeq([k \in DOMAIN names |-> names[k] \o <<0>>]) \o <<0, 0>>

GetAdapterNames ==
    /\ pc = "listing"
    /\ AdapterName' = NameBytes(installed)
    /\ pc' = "splitting"
    /\ UNCHANGED <<program, installed, before, temp, temp1, AdapterList, Open,
                   held, walker, kbhit>>

GetFails ==
    /\ pc = "listing"
    /\ pc' = "failed"
    /\ UNCHANGED <<program, splitter, held, walker, kbhit>>

\* *temp and *(temp - 1).
At(p) == IF p = -1 THEN before ELSE AdapterName[p + 1]

InList == At(temp) # 0 \/ At(temp - 1) # 0

\* The byte at temp belongs to a name.
InName ==
    /\ pc = "splitting"
    /\ At(temp) # 0
    /\ temp' = temp + 1
    /\ UNCHANGED <<program, pc, installed, AdapterName, before, temp1,
                   AdapterList, Open, held, walker, kbhit>>

Name == SubSeq(AdapterName, temp1 + 1, temp)

\* memcpy copies as many bytes as the name has, and not the zero behind them:
\* the row has that from the start, if the name leaves one over.  A row of
\* TestPacketSend is as long as AdapterName.
FitsRow(name) == program = "send" \/ Len(name) < ROW

\* A name ends, and is put into the next row, whether there is one and the name
\* fits or not; a name that fills its row is read on beyond it, in the listing
\* at the latest.  In an empty list the byte before the list's ends a name,
\* when that is not zero: the list has an adapter without a name then.
EndOfName ==
    /\ pc = "splitting"
    /\ InList /\ At(temp) = 0
    /\ AdapterList' = Append(AdapterList, Name)
    /\ temp' = temp + 1
    /\ temp1' = temp + 1
    /\ pc' = IF Len(AdapterList) < Max_Num_Adapter /\ FitsRow(Name) THEN pc
             ELSE "overrun"
    /\ UNCHANGED <<program, installed, AdapterName, before, Open, held, walker,
                   kbhit>>

EndOfList ==
    /\ pc = "splitting"
    /\ ~InList
    /\ pc' = "choosing"
    /\ UNCHANGED <<program, splitter, held, walker, kbhit>>

\* Too large a number is asked for again; one that is not positive is not,
\* and means memory in front of AdapterList.
Choose ==
    /\ pc = "choosing"
    /\ Open' \in Inputs
    /\ Open' <= Len(AdapterList)
    /\ pc' = IF Open' >= 1 THEN "opening" ELSE "lost"
    /\ UNCHANGED <<program, installed, AdapterName, before, temp, temp1,
                   AdapterList, held, walker, kbhit>>

OpenAdapter ==
    /\ pc = "opening"
    /\ held' = held \cup {"adapter"}
    /\ pc' = "opened"
    /\ UNCHANGED <<program, splitter, walker, kbhit>>

OpenFails ==
    /\ pc = "opening"
    /\ pc' = "failed"
    /\ UNCHANGED <<program, splitter, held, walker, kbhit>>

-----------------------------------------------------------------------------
(***************************************************************************)
(* GetMacAddress: an address is asked for; memory and adapter are given    *)
(* back on every way out.                                                  *)
(***************************************************************************)
NoMemoryForMac ==
    /\ program = "mac" /\ pc = "opened"
    /\ held' = held \ {"adapter"}
    /\ pc' = "failed"
    /\ UNCHANGED <<program, splitter, walker, kbhit>>

\* PacketRequest succeeds or fails; the program returns 0.
QueryMac ==
    /\ program = "mac" /\ pc = "opened"
    /\ held' = held \ {"adapter"}
    /\ pc' = "done"
    /\ UNCHANGED <<program, splitter, walker, kbhit>>

(***************************************************************************)
(* TestPacketSend: an adapter named with -i is opened as it is.            *)
(***************************************************************************)
NamedAdapter ==
    /\ program = "send" /\ pc = "listing"
    /\ pc' = "opening"
    /\ UNCHANGED <<program, splitter, held, walker, kbhit>>

\* No structure: the adapter stays open.
NoPacketToSend ==
    /\ program = "send" /\ pc = "opened"
    /\ pc' = "failed"
    /\ UNCHANGED <<program, splitter, held, walker, kbhit>>

Generate ==
    /\ program = "send" /\ pc = "opened"
    /\ \/ pc' = "failed" /\ held' = held \cup {"memory"}
       \/ pc' = "done" /\ held' = held \ {"adapter"}
    /\ UNCHANGED <<program, splitter, walker, kbhit>>

(***************************************************************************)
(* TestPacketCapture                                                       *)
(***************************************************************************)
\* The buffer of the driver is set and the structure allocated.
SetUp ==
    /\ program = "capture" /\ pc = "opened"
    /\ held' = held \cup {"memory"}
    /\ pc' = "reading"
    /\ UNCHANGED <<program, splitter, walker, kbhit>>

\* One of them is not: the adapter stays open.
SetUpFails ==
    /\ program = "capture" /\ pc = "opened"
    /\ pc' = "failed"
    /\ UNCHANGED <<program, splitter, held, walker, kbhit>>

PressKey ==
    /\ pc \in {"reading", "walking"}
    /\ ~kbhit
    /\ kbhit' = TRUE
    /\ UNCHANGED <<program, pc, splitter, held, walker>>

WORDALIGN(n) == ((n + ALIGNMENT - 1) \div ALIGNMENT) * ALIGNMENT

\* Where the driver puts the packets of a block: each at the next multiple of
\* ALIGNMENT behind the one before.
Places(b) ==
    LET at[k \in 0 .. Len(b)] ==
          IF k = 0 THEN 0
          ELSE WORDALIGN(at[k - 1] + b[k].bh_hdrlen + b[k].bh_caplen)
    IN  at

ulBytesReceived == Places(block)[Len(block)]

ReceivePacket ==
    /\ pc = "reading"
    /\ ~kbhit
    /\ blocks < MaxBlocks
    /\ \E b \in Blocks :
         /\ block' = b
         /\ received' = received \o b
    /\ blocks' = blocks + 1
    /\ off' = 0
    /\ pc' = "walking"
    /\ UNCHANGED <<program, splitter, held, printed, kbhit>>

\* The adapter stays open.
ReceiveFails ==
    /\ pc = "reading"
    /\ ~kbhit
    /\ pc' = "failed"
    /\ UNCHANGED <<program, splitter, held, walker, kbhit>>

Heads == {k \in DOMAIN block : Places(block)[k - 1] = off}

NextOffsetUnaligned(p) == off + p.bh_hdrlen + p.bh_caplen

NextOffset(p) == WORDALIGN(off + p.bh_hdrlen + p.bh_caplen)

\* PrintPackets: a packet is printed, and the next header is behind it.
PrintPacket ==
    /\ pc = "walking"
    /\ off < ulBytesReceived
    /\ ~kbhit
    /\ \/ \E k \in Heads :
            /\ printed' = Append(printed, block[k])
            /\ off' = NextOffset(block[k])
       \/ /\ Heads = {}
          /\ printed' = Append(printed, Garbage)
          /\ off' = ulBytesReceived
    /\ UNCHANGED <<program, pc, splitter, held, received, block, blocks, kbhit>>

\* The block is at its end, or a key was pressed.
Walked ==
    /\ pc = "walking"
    /\ off >= ulBytesReceived \/ kbhit
    /\ pc' = "reading"
    /\ UNCHANGED <<program, splitter, held, walker, kbhit>>

Close ==
    /\ pc = "reading"
    /\ kbhit
    /\ held' = {}
    /\ pc' = "done"
    /\ UNCHANGED <<program, splitter, walker, kbhit>>

Init ==
    /\ program \in {"capture", "send", "mac"}
    /\ pc = "listing"
    /\ installed \in NameLists
    /\ AdapterName = <<>>
    /\ before \in {0, 1}
    /\ temp = 0 /\ temp1 = 0
    /\ AdapterList = <<>>
    /\ Open = 0
    /\ held = {}
    /\ received = <<>> /\ block = <<>> /\ off = 0 /\ printed = <<>>
    /\ blocks = 0
    /\ kbhit = FALSE

Next ==
    \/ GetAdapterNames \/ GetFails \/ InName \/ EndOfName \/ EndOfList
    \/ Choose \/ OpenAdapter \/ OpenFails
    \/ NoMemoryForMac \/ QueryMac
    \/ NamedAdapter \/ NoPacketToSend \/ Generate
    \/ SetUp \/ SetUpFails \/ PressKey \/ ReceivePacket \/ ReceiveFails
    \/ PrintPacket \/ Walked \/ Close

Spec == Init /\ [][Next]_vars

-----------------------------------------------------------------------------
(***************************************************************************)
(* Properties.                                                             *)
(***************************************************************************)
RowsSuffice ==
    /\ Len(installed) <= Max_Num_Adapter
    /\ \A k \in DOMAIN installed : FitsRow(installed[k])

\* The list shows the adapters there are; only for a machine without any may
\* it show one without a name, if the byte in front of the names says so.  The
\* rows are overrun only by more adapters than there are rows, or a name that
\* does not fit one; and the adapter that is opened is one of the list, unless
\* the number typed was none.
NamesSplit ==
    /\ pc \in {"choosing", "opening", "opened", "lost"} /\ AdapterName # <<>> =>
         AdapterList = IF installed = <<>> /\ before # 0 THEN << <<>> >>
                       ELSE installed
    /\ pc = "overrun" => ~RowsSuffice
    /\ pc \in {"opening", "opened"} /\ AdapterName # <<>> =>
         Open \in DOMAIN AdapterList
    /\ pc = "lost" => Open < 1

\* The packets printed are those received, in their order; when a block has
\* been walked to its end and no key was pressed, they are all of them.
PacketsWalked ==
    /\ IsPrefix(printed, received)
    /\ pc = "reading" /\ ~kbhit => printed = received

\* Both walks find what the driver has put into memory: all adapters that the
\* rows have room for, and packets of every length.
MemoryReadAsWritten == NamesSplit /\ PacketsWalked
=============================================================================
