# ComputerNet: TLA+ specifications, model checking and proofs

ComputerNet is a set of small network programs for Windows.  This directory
holds TLA+ models of them, the TLC configurations that check the models on small
instances, and proofs about them for every instance.

Paths below are relative to the repository (`src/...`); a line number after a
colon is a line of that file.

## 1. The system

| Part | Source | State | Operations |
|---|---|---|---|
| packet sender | `packet_transfer/send/send.cpp` | position in `send_file`, `chunk_index`, the global `size_of_packet` | read a chunk, skip it, send it as a frame, stop |
| packet receiver | `packet_transfer/recv/recv.cpp` | the list at `wbh`, `need_index`, `now_length`, `recived_file` | the capture callback, `write_data` |
| FTP client: queue of replies | `FTP/client/ftp_client.cpp:21-70` | `msgQueue`, `mtx`, `cv` | push the lines of a recv, wait and take |
| FTP client: commands and transfers | `FTP/client/ftp_client.cpp` | `SocketControl`, `InOutMtx`, one data socket and thread per transfer | log in, `list stor retr pwd cwd quit help`, download, upload |
| files over TCP | `socketlab/socketlab_tcp/avi_*.cpp` | the connection, bytes sent and received, the file saved | send a buffer, save what recv returns, report |
| messages over TCP | `socketlab/socketlab_tcp/message_*.cpp` | the connection, one buffer each | send a line, echo it, print the answer |
| files over UDP | `socketlab/socketlab_udp/avi_*.cpp` | size announced, bytes received | send the size, send a piece, count pieces |
| messages over UDP | `socketlab/socketlab_udp/message_*.cpp` | one `client_addr` and one buffer for all clients | ask, answer |
| port scanner, one thread | `port_scanning/1.cpp` | a 16-bit port | connect to a port |
| port scanner, sixteen threads | `port_scanning/2.cpp` | an array of ranges on the stack, a port per thread | start the threads, scan a range, wait |
| ICMP echo request | `ICMP/message_client.cpp` | one buffer | checksum, send |
| user level bridge | `WpdPack/Examples-remote/UserLevelBridge/UserBridge.c` | device list, two adapters, `print_cs`, `kill_forwaders` | set up, forward in both directions, Ctrl+C |
| capture samples | nine ways through programs of `WpdPack/Examples-*` | device list, adapter, dump file | open, filter, capture, close |
| sendcap | `WpdPack/Examples-remote/sendcap` | the queue and its size | measure, fill, transmit |
| packet driver samples | `WpdPack/Examples-remote/PacketDriver` | the names and the block the driver wrote | take the names apart, walk a block, send |
| FTP server (xlight), headers of WpdPack | `FTP/server`, `WpdPack/Include` | third-party | the environment of the above |

### How the parts interact

*packet_transfer.*  `send` is run by hand with a first and a last index; it cuts
`send_file` into chunks of 1456 bytes and puts those of the range on the link,
each in an Ethernet frame with its index in front and a CRC behind. `recv`
captures all frames of an adapter, filters them on the MAC address, checks the
CRC and hands each chunk to `write_data`, which appends it to `recived_file` or
keeps it in a linked list of at most ten nodes.  There is no way back from
`recv` to `send`: the user reads which packet is needed and runs `send` again.

*FTP client.*  `RecvReplyThread` reads the control connection and pushes every
line into `msgQueue`; whoever waits in `GetReplyFromQueue` takes the front.
`Command_Thread` reads commands, sends them and waits for their replies; for
`list`, `retr` and `stor` it starts a detached thread which moves the data and
then waits in the same queue for the last reply.  `InOutMtx` orders the console
and is held across waits for replies; `mtx` and `cv` belong to the queue.

*socketlab.*  Four pairs of a client and a server that share nothing but a
connection or a port.  The TCP servers serve one client and end; the UDP message
server serves all clients from one socket.  Over TCP the end of the connection
is the end of the file, over UDP a count of bytes is.

*Scanners.*  `2.cpp` gives each thread its range through an array on `main`'s
stack; a thread that gets no socket ends the whole process.

*WpdPack.*  The bridge runs a thread for each direction and a handler thread for
Ctrl+C; they share a flag, a critical section and the adapters.  `sendcap`
shares its file with whoever still captures into it.  The driver samples and the
driver share one piece of memory whose layout both must know.

### What is hard

- Frames come late, twice, damaged or never, and the list keeps nodes nobody
  frees; one counter and one sort decide whether the file gets complete.
- The length of a frame is added up in a global by two functions.
- The replies of an FTP session are matched to commands only by their place in
  one queue, two threads may wait in that queue at once, and TCP may deliver a
  reply in pieces that the client takes for replies.
- Threads wait for a reply with `InOutMtx` held; the mutex is locked and
  unlocked by hand on every way out of a command.
- One `notify_one` is called for all the lines of a recv.
- Failures half-way: `fopen`, `fwrite`, `send`, a refused PASV, a server that
  hangs up; a write that fails between two that do not; `recv` killed and started again; a thread that cannot be created
  when others already run.
- A recv that returns less than was sent; a stream that ends for several reasons
  which the code does not tell apart; datagrams without numbers.
- Counters at the end of their type, folds that may carry, and a walk that looks
  at the byte before the current one.

`PROJECT.json` lists these hazards at their lines, with the properties that
cover them; those without a property say why.

### What makes each part correct

- *Receiver*: the file written is a prefix of the file sent, each chunk once; a
  held chunk is written as soon as it can be; the list is bounded and its
  counter exact; a full list never stops the transfer.
- *Sender*: the frames of a run are the chunks of the range, complete, in order,
  each with its own bytes and ending with its CRC.
- *Queue*: no line lost, doubled or overtaken; no thread asleep beside a line.
- *FTP client*: a reply reaches the thread it is for; the mutex is held exactly
  where it should be; each command and each transfer ends; nothing is left in
  the queue for the next command.
- *Files over TCP and UDP*: what is saved is a beginning of the file, less what
  could not be written, and a message of success stands over the whole file
  unless something broke that the program does not see.
- *Messages*: answers come in the order of the messages and to who asked; two
  programs do not wait for each other for ever; clients do not disturb clients.
- *Scanners*: each port from `START_PORT` to `END_PORT`, then the scan ends; no
  thread uses what the starting function has left behind.
- *Checksum*: the receiver, whose byte order is the other one, accepts it.
- *Bridge*: the order to end is obeyed by both threads, soon, and the adapters
  stay open as long as somebody uses them.
- *Samples*: nothing used or given back that is not held; what is saved is on
  the disk; a file is sent whole or the user is told; memory is read as it was
  written.

## 2. Modules

| Module | What it is | Lines of code it stands for |
|---|---|---|
| `PacketRecv` | the receiver: one action per way through the callback | `recv.cpp` |
| `ReorderBuffer` | abstract: what a reordering buffer promises, without a list | |
| `PacketRecv_proofs` | proofs about `PacketRecv`, that it implements `ReorderBuffer` among them | |
| `PacketSend`, `PacketSend_proofs` | the sender: one action per kind of turn of its loop | `send.cpp` |
| `PacketTransfer`, `PacketTransfer_proofs` | sender, link and receiver composed | both |
| `ReplyQueue`, `ReplyQueue_proofs` | `msgQueue` with `mtx` and `cv` | `ftp_client.cpp:21-70` |
| `FtpClient`, `FtpClient_proofs` | the FTP client; uses `ReplyQueue` for its queue | `ftp_client.cpp` |
| `FileCopy` | abstract: a copy that grows along a file until it is declared finished | |
| `TcpFile` | the file programs over TCP, shown to implement `FileCopy` | `socketlab_tcp/avi_*` |
| `UdpFile` | the file programs over UDP | `socketlab_udp/avi_*` |
| `TcpEcho`, `UdpEcho` | the message programs | `socketlab_*/message_*` |
| `SequentialScan` | the scanner with one thread | `port_scanning/1.cpp` |
| `PortScan` | the scanner with threads | `port_scanning/2.cpp` |
| `IcmpChecksum` | the echo request and its checksum, step by step | `ICMP/message_client.cpp` |
| `UserBridge` | the bridge with its threads and its handler | `UserBridge.c` |
| `CaptureSamples` | programs that capture until they are stopped | eight files of samples |
| `SendCap` | a capture file sent while it may grow | `sendcap.c` |
| `PacketDriver` | names and blocks from the driver | the three `PacketDriver` samples |
| `Programs` | the programs that need no other model next to each other, one of them run | |
| `SocketLab_proofs` | proofs about the socketlab pairs | |
| `Programs_proofs` | proofs about the other programs, and that the sender's hold of the whole | |
| `SequenceLemmas` | what the proofs need to know of sequences, sums and remainders | |
| `MC...` | the constants of the runs | |

In several modules an operator stands directly before one with a similar name
(`Full` and `FullOneLate`, `LockToEnd` and `EndUnlocked`, `SaveChunk` and
`SaveChunkWholeBuffer`): it is a plausible slip of that piece of code, used to
see that a run notices it.  No specification uses it.

### PacketRecv

`chain` is the list from `wbh.next` on, head first; `need_index`, `now_length`
and `recived_file` are the variables of the code, the file as the sequence of
chunks on disk.  `write_data` (79-137) is split by its exits:

| Action | Code |
|---|---|
| `ReceiveOther`, `ReceiveDamaged` | the two early returns of the callback, 174-177 and 194-199 |
| `DropWhenFull` | 80-83 |
| `KeepStale` | 96-99: the node was linked and counted before the return, and stays |
| `Hold` | 101-112: the bubble loop (`IsSlot` says where it stops) |
| `OpenFails` | 117-120: the node of the needed chunk stays |
| `Save` | 122-136: the drain loop (`IsRun` says where it stops), also when some of the writes are lost |
| `Restart` | the process is killed and started again: globals fresh, file kept |

`IsSlot` and `IsRun` describe the two loops by the condition at which they stop;
both determine `k`.  A chunk is one value and the CRC is the pair it is computed
from, so a damaged frame never passes by chance: the strength of CRC-32 is not a
subject here.  A frame that passes both tests is assumed to come from `send`
(`PacketRecvAssumption`); `PacketTransfer` shows that this is so for the frames
the sender makes.

### PacketSend

One action is one turn of the `while` of `main` (146-193).  The bytes of the
file are single values and `CHUNK_SIZE`, `MAX_SIZE` are parameters.
`size_of_packet` is computed as in the code and apart from the frame, so that
the CRC may miss the end of the frame.  Files that cannot be opened and devices
that cannot be found or written end the run with -1.

### PacketTransfer

The link keeps the positions of `wire` it may still deliver; constants say
whether it may double and damage frames, and whether the user may ask for a
range twice. The receiver is `PacketRecv` on exactly the frames the link may
carry, so its assumption is not supposed: `ReceiverSpec` checks it on the
instances, and the theorem `ReceiverAlone` proves it. `PacketTransferAssumption`
is what is left to assume: that of the sender, a list with room for a node, and
bounds that are numbers.

### ReplyQueue

Each critical section of `mtx` is one action: `Push` (44-57), `Block` and `Take`
(64-70), and the spurious wake-up that `std::condition_variable` allows. `woken`
are the threads between notification and re-locking of `mtx`: a thread that
comes new may be faster, which is what the C++ code permits.

### FtpClient

`pc` says where each thread is.  A place is a point where threads can
interleave: before a lock, in a wait, between two sends.  Nine places are also
the kind of reply that is expected there (`Kinds`).

| Places of the command thread | Code |
|---|---|
| `greet user pass` | `connect_to_server`, 708-777 |
| `idle typing` | the prompt and the line read under `InOutMtx`, 617-635 |
| `lock path` | `InOutMtx.lock()` and the questions at the start of `list`, `stor`, `retr`, `cwd` |
| `ask_pasv pasv connect` | `Data_Connect`, 85-149 |
| `ask_start start` | LIST, STOR, RETR and its reply, e.g. 294-327 |
| `ask pwd cwd quit` | the commands that wait without the mutex, 329-368 and 484-539 |
| `report shout bye exited` | what is printed at the end, with and without the mutex; `exit(0)` |

| Places of a data thread | Code |
|---|---|
| `saving` or `lock_print printing` | `Download_Data_Thread`, 152-211, to a file or to the console |
| `begin sending progress failed` | `Upload_Data_Thread`, 213-252 |
| `lock_end end` | the last reply, awaited with `InOutMtx` held, 180-190 and 254-260 |

The server is the environment: it answers the lines it gets in order with any
code of `Codes`, opens and ends data connections, and - if `ServerFails` -
breaks an upload off or closes everything.  `Codes` has the replies that the
client's own branches tell apart, one or two for each; a server may send others
(a 125 for a 150: the client would take that for a refusal, and the 226 that
follows would be a stray reply).  A reply carries, beside its code,
what it answers; the code of the client never looks at that, the properties do.

The client pushes what recv returns, line by line, and knows nothing of a line
that is not all there.  `ReceivePart` ends a recv inside a reply, so that two
lines are pushed for it; the second begins with no code, and what `sscanf`
leaves in the unset `nReplyCode` is a member of `Leftovers`.  `AnswerOn` is a
server that answers in several lines.  Both are bounded by `MaxSplits`.

*What a client may wait for.*  A thread is `Stranded` when the server has closed
the control connection, every reply has been taken and the thread waits for
another.  It takes no server that hangs up for that: an upload that is broken
off leaves a 426, a `quit` takes it and leaves its 221, the server closes, one
command takes the 221 and the next waits for ever.  `PromptReturns` says that a
patient user gets the prompt back otherwise, and `AtPrompt` that `InOutMtx`,
which `Command_Thread` locks there to read a line (623), is free then.

### TcpFile and FileCopy

`stream` is what the client has sent and recv has not returned; recv returns any
part of it that fits the buffer.  The connection may break, the client be killed
or have no file.  `fwrite` (`avi_server.cpp:24`) is not checked: each call may
write only the beginning of what it is given, or nothing, and the next one all
of it, as a disk fills up and gets room again (`unwritten`).  The server's loop
(`avi_server.cpp:23`) ends alike on the end of the stream and on an error:
`AtEnd`.  `FileCopy` is what is left of that for a reader of the copy: it goes
through the file from the first byte on, appends what it comes by, but for
`gaps`, and stops when it counts as saved (`IsFileCopy`).  What is *not*
promised is said by `ShortOnlyWhenBroken`: the ways to a message of success over
a file that is not the one sent, all of them.

### UdpFile

`net` is the datagrams on their way; any of them may be lost, come twice or
before its predecessor, and one may come from another program (`Stray`), as the
server compares no address.  The first recvfrom has room for `sizeof(long)`
bytes and takes what comes first for the size: a longer piece makes it fail, as
an empty datagram does (`SizeFails`); a short last piece is misread
(`MisreadSize`).  A piece is written by an `fwrite` that is not checked either,
while `received_size` goes on by its whole length.  `LossOnlyStalls`: loss alone
never ends in success over a wrong file - it takes one of the other `Troubles`
for that - and nothing but loss or a misread size keeps the server waiting for
ever.

### TcpEcho and UdpEcho

In `TcpEcho` recv cuts the two streams anywhere, as both programs do one recv
per message.  `EchoInOrder`: as long as no recv cuts, an answer is the message
it is printed under; after that the display lags behind, but no byte is skipped,
repeated or reordered, and the two programs never wait for each other.

In `UdpEcho` the server keeps one `client_addr` and one buffer.  A reply to a
client that has gone makes the system fail the server's *next* recvfrom, which
ends the server for all clients (`Bounce`, `ServerReset`).  `ClientsApart`:
nobody prints what another has sent, a client waits without end only after a
loss, and it takes a kill or a doubled datagram to end the server this way.

### PortScan and SequentialScan

`PortScan` has `main` (create, wait, `WSACleanup`, return), the threads, and the
frame of `scan_ports_multithreaded` from which they read their ranges:
`FrameAlive` ends with that function.  `ReadDeadFrame` takes any numbers.  A
turn of a thread is "socket opened" and then "tried", with `exit(0)` instead
when there is no socket.  `START_PORT` and `END_PORT` are what lines 11 and 12
of `2.cpp` call the start and the end of the scan; the code uses neither.
`ScanComplete` holds the scan to them, and says how often a port is tried: twice
where two ranges meet.  It does not say that the scan starts at `START_PORT`,
because it does not: port 0 is scanned as well.  `SequentialScan` is the loop of `1.cpp` over a counter
with `USHRT` values.

### IcmpChecksum

Each step of `calculate_checksum` is an action: add a word, add the odd byte,
fold, fold again, cast and complement.  The machine adds words with the low byte
first, the receiver with the high byte first (`Received`), so that
`ReceiverVerifies` is not the sender's computation a second time.

### UserBridge

`main` with every way out (`MainStates`), the two threads of
`CaptureAndForwardThread` with their library calls and critical sections, and
the Ctrl+C handler.  `TerminateThread` returns before the thread has ended
(`doomed`, `Die`); a call on a closed adapter may end the process (`Crash`).
`late` counts what a thread forwards after the order.

### CaptureSamples

The samples that capture in a loop differ only in the order of their steps and
in what they give back when one fails.  Each is a sequence of steps, a step with
what is given back before the program ends because it failed; the actions
interpret any of them.  Packets are saved through a buffer of the C library that
only closing the file is sure to empty.

### SendCap and PacketDriver

`SendCap` measures the file, allocates a queue of that size and fills it, beside
a program that writes records in two parts at any moment.  `readable` is what
the file had when the reading ended: `WholeOrTold` compares it with what was
sent.

`PacketDriver` walks the two pieces of memory the driver hands over: names that
end with a zero byte and a list that ends with two, and packets at aligned
places.  Where a header is read at a place the driver put none, what is read is
`Garbage`.  The names go to `AdapterList`, which has `Max_Num_Adapter` rows of
`ROW` bytes (1024, but in `TestPacketSend` as many as the list the names come
from), by a `memcpy` that asks for neither.  `overrun` is a process that has
gone beyond a row - also by a name of `ROW` bytes, which has no zero behind it -
and is not followed further; `lost` is one that takes the memory before the
first row for a name.  `MemoryReadAsWritten` says when that can be: too many
names, one too long, a number below one.

### Programs

`lab` picks one of the eleven programs or pairs above that need no other model,
and only that one steps; the variables and constants of each carry a prefix.
They all ask the same question, whether the program does what it promises on an
instance of its own, and a run of its own for each would only repeat the set-up.
`ProgramsAssumption` collects the assumptions of the modules; TLC evaluates it
on the instance of `MCPrograms`, the proofs hold wherever it holds.

## 3. Runs

| Run | Instance | What it shows |
|---|---|---|
| `recv_core` | 5 chunks, list of 3, one failed open, one restart, fair arrivals | counter, bound, order and content of the receiver under any arrival of its nine frames, among them a broadcast, a foreign, a damaged and a padded one; every step is a step of `ReorderBuffer`; the file gets complete even with a list full of useless nodes |
| `transfer_faulty` | 3 chunks, list of 2, 2 runs, one lost write, one restart, link that doubles, loses, damages, reorders | the bytes on disk are the first bytes of `send_file`, less what `fwrite` lost; the frames on the link are what the receiver was assumed to get |
| `transfer_clean` | 4 chunks, 3 runs over disjoint ranges, link that loses and reorders | the receiver is the ideal buffer of its documentation and leaves nothing behind |
| `queue_one` | 3 threads, 3 lines, at most one per recv | nothing lost, no wake-up lost, no sleeper forgotten |
| `ftp_free` | 2 commands at any time, up to 2 lines per recv, one reply in two pieces or lines, a server that refuses, breaks off and hangs up | types, mutex discipline, who can sleep; a reply reaches the wrong thread, or costs the session, only after a command typed beside a transfer, a broken one or a split reply |
| `ftp_patient` | 4 commands, two of them transfers, each after the last transfer; a server that breaks off and hangs up | a broken upload leaves one stray reply and not more with each command; the prompt returns, with the console free, and transfers end, unless the thread waits on a connection that the server has closed, with nothing left to take |
| `programs` | eleven small instances, see below | the properties of the modules in `Programs` |

Five runs look for a statement of the documentation or a comment and find it
violated:

| Run | Statement | What happens |
|---|---|---|
| `recv_readme_drain` | `packet_transfer/readme.md:19`: the consecutive held packets are saved up to the next missing one | chunk 0 twice leaves a node of chunk 0 at the head; chunk 2 is held behind it, and when chunk 1 comes it is saved alone: chunk 2 is in the list and stays there until it is sent again |
| `queue_notify` | `FTP/client/Readme.md:327`: after each message added to the queue a waiting thread is notified | two lines in one recv notify once; a second sleeper stays asleep beside its line |
| `ftp_readme_order` | `FTP/client/Readme.md:346`: no races, messages in order | `pwd` during a `retr` takes the 226 of the file, the data thread takes the 257 |
| `ftp_readme_blocked` | `FTP/client/Readme.md:258`: data threads do not block the user | `retr` during a `retr` takes the 226 for the answer to PASV, closes the session, and the data thread waits for ever with `InOutMtx` held |
| `scan_endless` | `port_scanning/1.cpp:11`: `END_PORT` is where the scan ends | `port` is an unsigned short and `END_PORT` its largest value: after it comes 0, and `port <= END_PORT` (67) never becomes false |

### Bounds and why they are enough

- A list of 3 (2 in the composition) instead of 10: the code compares the length
  with the limit only; three nodes let a node be inserted in front of, between
  and behind others with useless nodes at the head.  Five chunks fill the list
  and still leave one that is dropped.
- The counts of failed opens, lost writes, restarts and runs are bounds of the
  checking; the proofs hold for all of them.  The run with liveness loses no
  write, the composition loses one.
- Two FTP commands are enough for one to run beside the transfer of the other.
  A patient user has four, of which two may be transfers: a transfer that is
  broken, a command that takes its stray reply, one that takes the reply of that
  and one that finds none, which is the longest way to a stranded thread by one
  stray reply, and there is never a second (`PromptIsClean`, proved).  His
  commands are `stor retr pwd cwd quit` (`FewVerbs`) and the empty line: `list`
  is a `retr` that prints, `help` and an unknown command ask the server nothing.
  An upload has zero or one full buffer: the loop has no state
  but the count.  One split reply shifts every reply after it; the leftover 150
  is the reading that does most harm, since a line without a code then looks
  like the start of a transfer.
- *Sender*: 7 bytes in payloads of 2 (frames with an index, `CHUNK_SIZE` 6), so
  full chunks, a short last one and the boundary after it; ranges from -1 to 4
  start below zero and end beyond the file; two runs.
- *Files over TCP and UDP*: 5 bytes in buffers of 2.  The UDP size is one byte,
  as long as the last piece, so that it can be misread, as too small, too large
  or negative; a datagram is doubled once, and one comes from another program:
  empty, as long as the size, or longer than the buffer.
- *Messages*: three messages of one or two bytes with room for two, so a recv
  may join, cut or match them; two UDP clients, as the server has one place for
  an address.
- *Scanner*: three threads of three ports and a seam each: a thread with two
  neighbours.  `1.cpp` on a counter of three bits: the comparison does not
  depend on the width.
- *Checksum*: bytes of four bits, texts of every length up to four bytes chosen
  so that both folds carry; a sum that needs a third fold would need more words
  than a buffer of 1024 holds at the real width, and more than the texts have at
  this one.
- *Samples*: two packets fill and split a buffer; three packets for `sendcap`
  come before, between and after the measure; lists of up to three adapters in
  room for two overflow it, and names of 1 to 4 characters leave room in a row
  of 3, fill it and overflow it; blocks of up to three packets of different
  remainders for an alignment of 4, two blocks in a row.
- Deadlock checking is off where the system really may stop: the transfer when
  everything is delivered, the client after `exit(0)` or when nobody types,
  programs that have ended.  It is on for the receiver and the queue.

### Fairness

- `recv_core`: weak fairness of the arrival of each frame.  The user runs `send`
  again for what `recv` prints as needed, so each frame arrives again and again;
  the callback itself always returns.
- `queue_one`: a notified thread gets `mtx` in the end.  `mtx` is held for a few
  instructions only; nobody is obliged to call and nothing to arrive.
- `FtpClient`: each client thread that can step does; a line once begun is typed
  to its end; the server answers what it was asked and ends what it started,
  unless it hangs up.  Nobody is obliged to press a key and no failure has to
  happen. `InOutMtx` is not assumed to be fair between waiters: weak fairness is
  enough, as a patient user's client has at most one contender at a time.
- `PortScan`: `main` and each thread run when they can; `connect` and `select`
  return (the system gives a connect up after a while, and `select` has a
  timeout).
- `UserBridge`: `pcap_next_ex` returns within its read timeout, the threads and
  the handler run. Nothing is assumed of the five seconds the handler waits:
  `TimeOut` may come at once or never, and `OrderObeyed` does not need it.
- `SequentialScan`: the loop goes on.

The other programs promise nothing that needs fairness: they wait for a user, a
peer or a packet that may never come.

## 4. Proofs

All are for every value of the constants under the assumption of the module.
Every safety property that a run checks is stated by a theorem.
`SequenceLemmas` has what several proofs need to know of sequences, of numbers
that follow from each other, and of quotients and remainders.
`PacketSend`, `TcpFile` and the other modules that `Programs` instantiates with
parameters of its own define their assumption (`PacketSendAssumption`, ...) as
an operator.  `ProgramsAssumption` is the conjunction of them, so what
`SocketLab_proofs` and `Programs_proofs` prove has no further hypothesis.  Both
begin with the lemma `OneProgram`: a step of `Programs` is a step of one program
and leaves the others alone, so each section below has an invariant of its own.

**PacketRecv.**  The inductive invariant `IInv` consists of the type,
`LengthMatches`, `BufferBound`, `FileIsPrefix`, `AheadIsSorted` and two facts
none of which a property states: each node carries the chunk its index names
(`Genuine`, without which the drain loop could write a wrong chunk under a right
index), and while no open has failed the head is not the needed chunk
(`HeadNotNeeded`, without which a held chunk could be stuck behind itself).
From it: `TypeCorrect`, `Reassembly`, `Bounded`, `Sorted`, `Stuck`,
`Append_only`.

*Refinement.*  If no write is lost (`MaxLostWrites = 0`, an assumption of the
theorem: with a full disk the code does leave holes), every behaviour of
`PacketRecv` is one of `ReorderBuffer` under the mapping `need <- need_index`,
`held <-` the indices in the list that are not yet saved, `output <-` what this
process wrote.  `Save` is `Deliver`, `Hold` and `OpenFails` are `Keep`, the rest
stutters or restarts.

**PacketSend.**  `TypeCorrect`, `Sound` (`FramesSound`) and `SendsRange`
(`RunSendsRange`), for every file, payload and range.  The strengthening is that
`size_of_packet` is zero at each turn of the loop - it is added to by two
functions and reset on each path - and that `fp` is always `chunk_index`
payloads into the file (`InLoop`); the lemma `ChunkExists` is the arithmetic of
the last, short chunk.

**PacketTransfer.**  The proofs of the two parts are put together over the link.
`WireSound` follows from the sender's `Sound`: every frame on the wire is the
sound frame of its index.  What the link delivers, damaged or not, is therefore
a frame that the receiver's assumption speaks of, and the receiver's theorems
hold of it: `ReceiverAlone` (`ReceiverSpec`), with the invariant `TInv`.
`EndToEnd` (`BytesArePrefix`) turns `FileIsPrefix`, which speaks of chunks, into
bytes: the first n chunks flattened are the first bytes of the file, by
induction over n (`Climb`).  It holds with restarts, repeated ranges, doubled,
lost, reordered and damaged frames and a full disk.

Two further properties hold only of a quieter link, and the hypotheses say so.
If no range is sent twice and no frame delivered twice (`~Reruns`,
`~Duplicates`), the indices on the wire are all different (`WireOnce`, for which
`RangeIsNew` looks ahead to the rest of the running range), an index still on
its way is neither saved nor held (`StillToCome`), and the list has no useless
node (`HeldAhead`, `HeldOnce`, `CameOverWire`); together `OInv`.  From it, with
no failed `fopen`: `IdealBuffer` (`IsIdealBuffer`, with no full disk either) and
`NothingLeft` (`NothingLeftBehind`).  The latter counts: what is saved and held
are as many different indices as there are frames on the wire, so they are all
of them, and the needed index, which is none of them, was never sent.

**ReplyQueue.**  `TypeCorrect` and `Conservation` for any threads and batches;
`NoWakeupLost` if each recv brings at most one line, where one notification per
recv is one per line, as the documentation describes it.  Without that
assumption it is false: `queue_notify`.

**FtpClient.**  `IInv` is the conjunction of: each thread is at a place of its
own code (`Places`); where a command is under way, which command it is
(`CommandPath`, needed because `StartAnswered` starts a thread whose first place
depends on it, and because the thread it starts must be one that holds nothing);
`InOutMtx` is held exactly at the places between lock and unlock (`Mutex`); who
sleeps or was woken is at a place where it waits (`Sleepers`).  From it
`LockHeld` and `TwoSleepers`, for any number of commands and split replies.
`TypeCorrect` is proved beside it from `Types`, with a lemma for each thread and
for the server; `UsesQueue` says that each step of the client is a step of
`ReplyQueue` or leaves the queue alone, so that `Conservation` holds of the
client's queue too.

*Which reply reaches whom.*  `Dialogue` is what is in `msgQueue`, behind it what
is on the stream, behind it what the server has not read, all without the codes.
Neither the thread that receives nor the server's answer changes it: a reply
takes the place of its request.  A command appends to it what it asks, and
whoever takes a reply removes its head.  While nothing has disturbed the session
(`Clean`) the dialogue is exactly what the threads at places of waiting wait
for, one after the other, so the head is for the one that takes it.  An upload
that was broken off leaves one line more, and not one for each.  From it
`CrossedOnly` (`CrossedOnlyBeside`), `Kept` (`SessionKept`) and `Prompt`
(`PromptIsClean`), for any number of commands, threads and recvs that cut the
stream anywhere.

**TcpFile.**  The invariant says that what is under way follows in the file what
recv has taken, and that what recv has taken is what is saved as long as every
write took all (`Adjacent`), and which states of client, server and link go
together (`FileControl`).  From it `Whole`
(`ShortOnlyWhenBroken`), and with it `Copies` (`IsFileCopy`): the pair
implements `FileCopy`, `SaveChunk` being `Extend` and `Report` being `Finish`.
Nothing is assumed of the disk: each write may fail, whatever the last one did.

**UdpFile.**  `Stalls` (`LossOnlyStalls`), with two invariants.  `OnlyLosses`:
while nothing worse than a loss has happened, each datagram under way has a
place lo..hi in the file, they lie in the order of the file, and all of them
lie behind a horizon h (`Behind`) that the bytes counted do not exceed; they
reach it only if the bytes saved are the first h of the file.  A loss leaves the
horizon or moves it past a gap, after which the count stays below it for good:
that is why a wrong file is never called whole.  A write that fails, a stray
datagram and the like are among the troubles that end `OnlyLosses`.  `EnoughUnderWay`: while nothing
was lost, the bytes under way and those counted come up to what was sent.

**TcpEcho.**  `InOrder` (`EchoInOrder`) rests on `Conserved`: what was printed,
what is on its way back and what is on its way there, one behind the other, is
what was typed; and, while no recv has cut a message, on `Unsplit`: one message
at most is under way, whole.

**UdpEcho.**  `Apart` (`ClientsApart`): what the server holds and sends belongs
to one client (`OwnAnswers`); what a client waits for exists somewhere unless it
was lost (`Awaited`) and, while nothing was doubled, exists once (`Single`); and
`Blame` says what must have happened before the server can end.

**UserBridge.**  `Clean` (`CleanWithThreads`) rests on how far `main` has come
(`BridgeStage`): the list is held, the adapters are open and the threads exist
exactly at the stages that say so.  `Obedient` (`OneMoreAtMost`) rests on
`Obeying`: a thread that has forwarded its one packet under the order is on its
way to the test, where it reads the flag.

**PortScan.**  `Scanned` (`ScanComplete`) and `Outlived`
(`NothingOutlivesTheCall`) for any number of threads and length of ranges: the
ranges the threads hold are their own (`ScanRanges`), and the count of each port
is the number of threads that have passed it (`Counted`), of which there are two
at a seam and one elsewhere.

**IcmpChecksum.**  `EchoVerified` (`ReceiverVerifies`) for texts of any length
that a buffer of 64 kB holds, and bytes of any size from four bits on.  To give
each byte its other place in its word multiplies a sum by `BYTE`, modulo the
largest word (`ByteOrder`); that is why the sum may be made in the order of the
machine and checked in the other.  The loop has the sum of the words it has
passed (`PartialSum`), which fits in two words (`SumFits`); the first fold
leaves a carry of one at most, the second leaves none (`FoldTwice`), so the cast
drops nothing.  Without the bound on the length the sum overflows: it is part of
`IcmpChecksumAssumption`, and the buffer of the code is far below it.

**CaptureSamples.**  `Captures` (`TidyCapture`).  For each of the nine ways
there is a list of what is held before each of its steps, and each step and each
of its exits fits the list (`TidyProgram`); `CaptureInv` says that the program
is where its list says.  The number of packets is not bounded.

**SendCap.**  `Sendcap` (`WholeOrTold`).  What is in the queue and what was sent
is a beginning of the file (`QueueOfFile`), and a file that has not grown is as
long as when it was measured, so that its queue has room for the rest; without
a warning the reading ended at the end of the file, so that the queue is all
that was readable (`ToldOrWhole`).  `TotalGrows` is the sum of the lengths of a longer beginning.

**PacketDriver.**  `Reading` (`MemoryReadAsWritten`), two walks with an
invariant each.  `SplitInv`: the names found so far are the first of those
installed, and the two positions are where the last of them ends and as many
characters further as have been looked at; `NameInMemory` says where the bytes
of a name are.  A list without names is the exception (`NameMadeUp`).  A name
that has no row or does not fit it is one of those installed, which is why
`RowsSuffice` is false when the rows are overrun.
`WalkInv`: of the block in memory as many packets were printed as lie in front
of `off`; as the places grow strictly (`PlacesGrow`) there is one packet at
`off`, and none is left when the end is reached.

*The sender in `Programs`.*  Every behaviour of `Programs` is one of
`PacketSend` (`SenderAlone`), whose theorems therefore hold there: `Frames`,
`Ranges`.

**Only model-checked.**  Liveness (`EventuallyWhole`, `SleeperServed`,
`PromptReturns`, `TransfersEnd`, `ScanEnds`, `OrderObeyed`) is out of reach of
these tools, and so are the five runs that find a violation.

The library's induction theorems take an operator, which the provers here cannot
instantiate; where a recursive definition had to be followed through (a sum over
a text, the layout of a block, a flattened sequence), the proofs use `Climb`
instead, which is an induction over a set of numbers, and `RecursionExists`.

## 5. Not modelled

- The text printed and the order of console output outside `InOutMtx`; the
  choice of the adapter in `send` and `recv`; the parsing of `227 (...)`; the
  bytes of the files an FTP transfer moves; handles that stay open.
- The strength of CRC-32, and whether `generate_crc32_table` and `calculate_crc`
  compute it.
- The FTP server: a third-party binary with its configuration, present as the
  environment of `FtpClient`.
- The headers of WpdPack: declarations.  Its remaining samples are one or two
  library calls with their result printed, and so is everything the modelled
  samples print of a packet.

Seen while reading, and not the subject of a run that fails:

- a chunk that arrives again is kept in the list, although
  `packet_transfer/readme.md:18` says it is skipped; `KeepStale` models what the
  code does;
- `recived_file` is opened for appending and a second run of `recv` starts at
  chunk 0 again, so the file then holds the first run's bytes too (`base` in
  `PacketRecv`); the documentation calls the file `recv_file`;
- chunks are reported as saved whether or not `fwrite` and `fclose` succeeded
  (`recv.cpp:123-134`);
- `ftp_client.cpp:39`, `505` and `668` print without `InOutMtx`, although
  `FTP/client/Readme.md:262` says that all console output is under it;
- sockets and files stay open on several ways out of the FTP commands, and a
  server that hangs up makes `RecvReplyThread` spin (`recv` returns 0) while a
  thread that waits for a reply waits for ever (`Stranded`);
- `quit` ends the process while data threads run, and with it their files;
- `avi_server.cpp` of TCP reports success after a reset, a killed client and
  writes that failed, which leave a hole in the file when later ones succeed;
  that of UDP takes the first datagram for the size, whatever it is and whoever
  sent it, counts bytes that `fwrite` did not take, and calls the file received
  when recvfrom fails;
- `2.cpp:11` and `12` define `START_PORT` and `END_PORT`, the start and the end
  of the scan, and nothing uses them: the scan starts at port 0, not 1, and ends
  at 1024 because sixteen times 64 is 1024;
- `2.cpp:90` ends the scan of all threads with the success code, and `2.cpp:143`
  returns while threads still read its frame;
- `UserBridge.c:323` and `346` free the device list that line 290 has freed, and
  `342` closes the adapters under a thread that `TerminateThread` may not have
  ended yet (`CleanWithThreads` leaves this way out alone);
- `savedump` says that Ctrl+C stops it and has no handler: what is buffered is
  lost (`TidyCapture` asserts nothing of a killed sample, and excuses this one);
- the driver samples put names into rows of fixed length and number without
  asking for either (`TestPacketCapture.c:96`, `GetMacAddress.c:76`,
  `TestPacketSend.c:132`), and take a number below one.

## 6. Plan

Done: the receiver with its abstract buffer, the sender, their composition, the
FTP client and its queue, the socketlab pairs with the abstract copy, both
scanners, the checksum, the bridge and the samples of WpdPack; proofs of all of
them as section 4 says.  Left, in this order:

1. `WriteList`: the list of `write_data` with its pointers, shown to implement
   `IsSlot` and `IsRun`.
2. `Crc32`: the table-driven computation in `send.cpp` and `recv.cpp` against
   the polynomial division.
