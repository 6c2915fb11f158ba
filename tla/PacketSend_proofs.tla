-------------------------- MODULE PacketSend_proofs --------------------------
(***************************************************************************)
(* The sender, for every file, every size of the chunks and every number   *)
(* of runs with whatever ranges the user types.                            *)
(*                                                                         *)
(* What a run sends is decided by three counters that must not drift       *)
(* apart: the position in the file, chunk_index and size_of_packet.        *)
(* InLoop says that they do not; it also counts what the run has sent.     *)
(* The only arithmetic is that of NumChunks (ChunkExists).                 *)
(***************************************************************************)
EXTENDS PacketSend, SequenceTheorems, TLAPS

Frame == [dst : {Own}, index : Nat, data : Seq(Bytes),
          crc : Nat \X Seq(Bytes), pad : Int]

\* Where chunk c begins, if the file were long enough; and where fp is.
Pos(c) == c * Payload

At(c) == IF Pos(c) <= Len(send_file) THEN Pos(c) ELSE Len(send_file)

\* The first index of the range that a chunk can have.
Base == IF start_index > 0 THEN start_index ELSE 0

InLoop ==
    pc = "loop" =>
        /\ size_of_packet = 0
        /\ fp = At(chunk_index)
        /\ Len(wire) - first =
               IF chunk_index > Base THEN chunk_index - Base ELSE 0
        /\ Len(wire) > first => chunk_index - 1 <= end_index

IInv == TypeOK /\ FramesSound /\ RunSendsRange /\ InLoop

-----------------------------------------------------------------------------
(***************************************************************************)
(* Arithmetic of the chunks.                                               *)
(***************************************************************************)
\* The constants.
LEMMA Constants ==
    ASSUME PacketSendAssumption
    PROVE  /\ Len(send_file) \in Nat
           /\ Payload \in Nat /\ Payload > 0
           /\ HEADER = 14 /\ INDEX = 4 /\ CRC = 4
           /\ MaxRuns \in Nat /\ IndexInputs \subseteq Int
           /\ \A k \in 1 .. Len(send_file) : send_file[k] \in Bytes
<1>1. Len(send_file) \in Nat /\ \A k \in 1 .. Len(send_file) : send_file[k] \in Bytes
  BY LenProperties, ElementOfSeq DEF PacketSendAssumption
<1>2. Payload \in Nat /\ Payload > 0
  BY DEF PacketSendAssumption, Payload, INDEX
<1>3. QED
  BY <1>1, <1>2 DEF PacketSendAssumption, HEADER, INDEX, CRC

\* Chunks are adjacent.
LEMMA Positions ==
    ASSUME PacketSendAssumption, NEW c \in Nat
    PROVE  Pos(0) = 0 /\ Pos(c) \in Nat /\ Pos(c + 1) = Pos(c) + Payload
<1>1. Payload \in Nat
  BY Constants
<1> DEFINE P == Payload
<1>2. 0 * P = 0 /\ c * P \in Nat /\ (c + 1) * P = c * P + P
  <2> HIDE DEF P
  <2>1. P \in Nat
    BY <1>1 DEF P
  <2>2. QED
    BY <2>1
<1>3. QED
  BY <1>2 DEF Pos

\* What rounding down means.
LEMMA Division ==
    ASSUME NEW a \in Nat, NEW b \in Nat, b > 0
    PROVE  (a \div b) * b <= a /\ a < (a \div b) * b + b
OBVIOUS

\* The chunks that exist are those that begin before the end of the file.
LEMMA ChunkExists ==
    ASSUME PacketSendAssumption
    PROVE  /\ NumChunks \in Nat
           /\ \A c \in Nat : c < NumChunks <=> Pos(c) < Len(send_file)
<1> DEFINE P == Payload
           L == Len(send_file)
           Q == (L + P - 1) \div P
<1>1. P \in Nat /\ P > 0 /\ L \in Nat
  BY Constants
<1> HIDE DEF P, L
<1>2. Q \in Nat
  BY <1>1
<1>3. Q * P <= L + P - 1 /\ L + P - 1 < Q * P + P
  <2>1. L + P - 1 \in Nat
    BY <1>1
  <2>2. QED
    BY <1>1, <2>1, Division
<1>4. ASSUME NEW c \in Nat
      PROVE  c < Q <=> c * P < L
  <2> HIDE DEF Q
  <2>1. CASE c < Q
    <3>1. Q - (c + 1) \in Nat
      BY <1>2, <2>1
    <3>2. Q * P = (Q - (c + 1)) * P + c * P + P
      BY <1>1, <1>2
    <3>3. (Q - (c + 1)) * P >= 0
      BY <1>1, <3>1
    <3>4. c * P \in Nat /\ Q * P \in Nat /\ (Q - (c + 1)) * P \in Nat
      BY <1>1, <1>2, <3>1
    <3>5. QED
      BY <1>1, <1>3, <2>1, <3>2, <3>3, <3>4
  <2>2. CASE c >= Q
    <3>1. c - Q \in Nat
      BY <1>2, <2>2
    <3>2. c * P = (c - Q) * P + Q * P
      BY <1>1, <1>2
    <3>3. (c - Q) * P \in Nat /\ c * P \in Nat /\ Q * P \in Nat
      BY <1>1, <1>2, <3>1
    <3>4. QED
      BY <1>1, <1>2, <1>3, <2>2, <3>2, <3>3
  <2>3. QED
    BY <1>2, <2>1, <2>2
<1>5. NumChunks = Q
  BY DEF NumChunks, Q, P, L
<1>6. QED
  BY <1>2, <1>4, <1>5 DEF Pos, P, L

\* The turn of the loop in which chunk c is read.
LEMMA ReadChunk ==
    ASSUME PacketSendAssumption, NEW c \in Nat, At(c) # Len(send_file)
    PROVE  /\ c \in 0 .. NumChunks - 1
           /\ Read(At(c)) = Content[c + 1]
           /\ Read(At(c)) \in Seq(Bytes)
           /\ At(c) + Len(Read(At(c))) = At(c + 1)
<1> DEFINE L == Len(send_file)
<1>1. /\ L \in Nat /\ Payload \in Nat /\ Payload > 0
      /\ \A k \in 1 .. L : send_file[k] \in Bytes
  BY Constants
<1>2. Pos(c) \in Nat /\ Pos(c + 1) = Pos(c) + Payload
  BY Positions
<1>3. At(c) = Pos(c) /\ Pos(c) < L
  BY <1>1, <1>2 DEF At
<1>4. c \in 0 .. NumChunks - 1 /\ c + 1 \in 1 .. NumChunks
  BY <1>3, ChunkExists
<1>5. At(c + 1) \in Nat /\ Pos(c) < At(c + 1) /\ At(c + 1) <= L
  BY <1>1, <1>2, <1>3 DEF At
<1>6. Read(At(c)) = SubSeq(send_file, Pos(c) + 1, At(c + 1))
  BY <1>2, <1>3 DEF Read, At
<1>7. Content[c + 1] = SubSeq(send_file, Pos(c) + 1, At(c + 1))
  <2>1. (c + 1) - 1 = c
    OBVIOUS
  <2>2. QED
    BY <1>4, <2>1 DEF Content, Pos, At
<1>8. /\ SubSeq(send_file, Pos(c) + 1, At(c + 1)) \in Seq(Bytes)
      /\ Len(SubSeq(send_file, Pos(c) + 1, At(c + 1))) = At(c + 1) - Pos(c)
  <2>1. \A k \in Pos(c) + 1 .. At(c + 1) : send_file[k] \in Bytes
    BY <1>1, <1>2, <1>5
  <2>2. Pos(c) + 1 \in Int /\ At(c + 1) \in Int
    BY <1>2, <1>5
  <2> DEFINE m == Pos(c) + 1
             n == At(c + 1)
  <2> HIDE DEF m, n
  <2>3. /\ SubSeq(send_file, m, n) \in Seq(Bytes)
        /\ Len(SubSeq(send_file, m, n)) = IF m <= n THEN n - m + 1 ELSE 0
    BY <2>1, <2>2, SubSeqProperties DEF m, n
  <2>4. m <= n /\ n - m + 1 = At(c + 1) - Pos(c)
    BY <1>2, <1>5 DEF m, n
  <2>5. QED
    BY <2>3, <2>4 DEF m, n
<1>9. QED
  BY <1>2, <1>3, <1>4, <1>5, <1>6, <1>7, <1>8

-----------------------------------------------------------------------------
LEMMA InitInv ==
    ASSUME PacketSendAssumption, Init
    PROVE  IInv
<1>1. Len(send_file) \in Nat /\ MaxRuns \in Nat /\ NumChunks \in Nat
  BY Constants, ChunkExists
<1>2. wire \in Seq(Frame) /\ Len(wire) = 0
  BY EmptySeq DEF Init
<1>3. TypeOK
  BY <1>1, <1>2 DEF Init, TypeOK, Frame
<1>4. FramesSound
  BY <1>2 DEF FramesSound, FramesExact, FramesGenuine
<1>5. RunSendsRange
  BY <1>2 DEF Init, RunSendsRange, RunContiguous, RunComplete, ThisRun
<1>6. InLoop
  BY DEF Init, InLoop
<1>7. QED
  BY <1>3, <1>4, <1>5, <1>6 DEF IInv

\* A run starts, or fails to: nothing is sent of it yet.
LEMMA StartInv ==
    ASSUME PacketSendAssumption, IInv, Start \/ StartFails
    PROVE  IInv'
<1>1. /\ wire' = wire /\ first' = Len(wire) /\ runs < MaxRuns /\ runs' = runs + 1
      /\ Len(wire) \in Nat /\ MaxRuns \in Nat /\ runs \in 0 .. MaxRuns
  BY Constants, LenProperties DEF Start, StartFails, IInv, TypeOK
<1>2. first' \in 0 .. Len(wire') /\ runs' \in 0 .. MaxRuns
  BY <1>1
<1>3. \A i : i \notin ThisRun'
  BY <1>1 DEF ThisRun
<1>4. FramesSound'
  BY <1>1 DEF IInv, FramesSound, FramesExact, FramesGenuine, Content
<1>5. RunSendsRange'
  BY <1>3 DEF RunSendsRange, RunContiguous, RunComplete, Start, StartFails
<1>6. CASE Start
  <2>1. start_index' \in Int /\ end_index' \in Int
    BY <1>6, Constants DEF Start
  <2>2. 0 \in 0 .. Len(send_file) /\ 0 \in 0 .. NumChunks
    BY Constants, ChunkExists
  <2>3. TypeOK'
    BY <1>1, <1>2, <1>6, <2>1, <2>2 DEF IInv, TypeOK, Start
  <2>4. At(0) = 0
    BY Constants, Positions DEF At
  <2>5. InLoop'
    <3>1. /\ size_of_packet' = 0 /\ fp' = 0 /\ chunk_index' = 0
      BY <1>6 DEF Start
    <3>2. fp' = At(chunk_index')
      BY <2>4, <3>1
    <3>3. Len(wire') - first' =
             IF chunk_index' > Base' THEN chunk_index' - Base' ELSE 0
      <4>1. Len(wire') - first' = 0
        BY <1>1
      <4>2. ~(chunk_index' > Base')
        BY <2>1, <3>1 DEF Base
      <4>3. QED
        BY <4>1, <4>2
    <3>4. ~(Len(wire') > first')
      BY <1>1
    <3>5. QED
      BY <3>1, <3>2, <3>3, <3>4 DEF InLoop, At, Pos
  <2>6. QED
    BY <1>4, <1>5, <2>3, <2>5 DEF IInv
<1>7. CASE StartFails
  <2>1. TypeOK'
    BY <1>1, <1>2, <1>7 DEF IInv, TypeOK, StartFails
  <2>2. InLoop'
    BY <1>7 DEF InLoop, StartFails
  <2>3. QED
    BY <1>4, <1>5, <2>1, <2>2 DEF IInv
<1>8. QED
  BY <1>6, <1>7

\* What every turn of the loop that reads a chunk knows.
LEMMA Turn ==
    ASSUME PacketSendAssumption, IInv, pc = "loop", ~AtEnd
    PROVE  /\ chunk_index \in 0 .. NumChunks - 1
           /\ Read(fp) = Content[chunk_index + 1]
           /\ Read(fp) \in Seq(Bytes) /\ Len(Read(fp)) \in Nat
           /\ fp + Len(Read(fp)) = At(chunk_index + 1)
           /\ At(chunk_index + 1) \in 0 .. Len(send_file)
           /\ chunk_index + 1 \in 0 .. NumChunks
<1>1. chunk_index \in Nat /\ fp = At(chunk_index) /\ NumChunks \in Nat
  BY ChunkExists DEF IInv, TypeOK, InLoop
<1>2. fp # Len(send_file)
  BY DEF AtEnd
<1>3. /\ chunk_index \in 0 .. NumChunks - 1
      /\ Read(fp) = Content[chunk_index + 1]
      /\ Read(fp) \in Seq(Bytes)
      /\ fp + Len(Read(fp)) = At(chunk_index + 1)
  BY <1>1, <1>2, ReadChunk
<1>4. At(chunk_index + 1) \in 0 .. Len(send_file)
  <2>1. Pos(chunk_index + 1) \in Nat /\ Len(send_file) \in Nat
    BY <1>1, Constants, Positions
  <2>2. QED
    BY <2>1 DEF At
<1>5. QED
  BY <1>1, <1>3, <1>4, LenProperties

\* Steps that send nothing leave the frames as they are, and what this run
\* has sent.
LEMMA NothingSent ==
    ASSUME IInv, UNCHANGED <<wire, first, start_index, end_index>>
    PROVE  FramesSound' /\ RunContiguous' /\ ThisRun' = ThisRun /\ Base' = Base
BY DEF IInv, FramesSound, FramesExact, FramesGenuine, Content, RunSendsRange,
   RunContiguous, ThisRun, Base

LEMMA SkipInv ==
    ASSUME PacketSendAssumption, IInv, Skip
    PROVE  IInv'
<1>1. /\ pc = "loop" /\ ~AtEnd /\ Before
      /\ fp' = fp + Len(Read(fp)) /\ size_of_packet' = 0
      /\ chunk_index' = chunk_index + 1
      /\ UNCHANGED <<pc, start_index, end_index, outcome, wire, first, runs>>
  BY DEF Skip
<1>2. /\ chunk_index \in 0 .. NumChunks - 1
      /\ fp' = At(chunk_index') /\ fp' \in 0 .. Len(send_file)
      /\ chunk_index' \in 0 .. NumChunks
  BY <1>1, Turn
<1>3. FramesSound' /\ RunContiguous' /\ Base' = Base
  BY <1>1, NothingSent
<1>4. RunComplete'
  BY <1>1 DEF RunComplete
<1>5. TypeOK'
  BY <1>1, <1>2 DEF IInv, TypeOK
<1>6. InLoop'
  <2>1. /\ chunk_index \in Int /\ start_index \in Int /\ chunk_index < start_index
        /\ Len(wire) \in Nat /\ first \in Nat
    BY <1>1, LenProperties DEF IInv, TypeOK, Before
  <2>2. Len(wire) - first = 0
    BY <1>1, <2>1 DEF IInv, InLoop, Base
  <2>3. ~(Len(wire) > first)
    BY <2>1, <2>2
  <2>4. ~(chunk_index' > Base)
    BY <1>1, <1>2, <2>1 DEF Base
  <2>5. QED
    BY <1>1, <1>2, <1>3, <2>2, <2>3, <2>4 DEF InLoop, At, Pos
<1>7. QED
  BY <1>3, <1>4, <1>5, <1>6 DEF IInv, RunSendsRange

\* A chunk goes out: it is the next of its run, and what the file says.
LEMMA TransmitInv ==
    ASSUME PacketSendAssumption, IInv, Transmit
    PROVE  IInv'
<1> DEFINE d == Read(fp)
           f == FrameSent(chunk_index, d, Loaded(size_of_packet, d) + HEADER)
<1>1. /\ pc = "loop" /\ ~AtEnd /\ ~Before /\ ~Beyond
      /\ fp' = fp + Len(d) /\ size_of_packet' = 0
      /\ wire' = Append(wire, f)
      /\ chunk_index' = chunk_index + 1
      /\ UNCHANGED <<pc, start_index, end_index, outcome, first, runs>>
  BY DEF Transmit
<1>2. /\ chunk_index \in 0 .. NumChunks - 1
      /\ d = Content[chunk_index + 1]
      /\ d \in Seq(Bytes) /\ Len(d) \in Nat
      /\ fp' = At(chunk_index') /\ fp' \in 0 .. Len(send_file)
      /\ chunk_index' \in 0 .. NumChunks
  BY <1>1, Turn
<1>3. chunk_index \in Nat
  BY <1>2
<1>4. /\ f \in Frame /\ f.index = chunk_index /\ f.data = d /\ f.pad = 0
  <2>1. size_of_packet = 0
    BY <1>1 DEF IInv, InLoop
  <2>2. (Loaded(size_of_packet, d) + HEADER) - (HEADER + INDEX + Len(d) + CRC) = 0
    BY <1>2, <2>1, Constants DEF Loaded
  <2>3. f = [dst |-> Own, index |-> chunk_index, data |-> d,
             crc |-> <<chunk_index, d>>, pad |-> 0]
    BY <2>2 DEF FrameSent
  <2> HIDE DEF f, d
  <2>4. QED
    BY <1>2, <1>3, <2>3 DEF Frame
<1> HIDE DEF f, d
<1>5. wire \in Seq(Frame) /\ Len(wire) \in Nat /\ first \in 0 .. Len(wire)
  BY LenProperties DEF IInv, TypeOK, Frame
<1>6. /\ wire' \in Seq(Frame) /\ Len(wire') = Len(wire) + 1
      /\ \A i \in 1 .. Len(wire) : wire'[i] = wire[i]
      /\ wire'[Len(wire) + 1] = f
  BY <1>1, <1>4, <1>5, AppendProperties
<1>7. TypeOK'
  <2>1. first' \in 0 .. Len(wire')
    BY <1>1, <1>5, <1>6
  <2>2. QED
    BY <1>1, <1>2, <1>6, <2>1 DEF IInv, TypeOK, Frame
<1>8. \A i \in 1 .. Len(wire') : i \in 1 .. Len(wire) \/ i = Len(wire) + 1
  BY <1>5, <1>6
<1>9. FramesSound'
  <2>1. FramesExact'
    BY <1>4, <1>6, <1>8 DEF IInv, FramesSound, FramesExact
  <2>2. chunk_index + 1 \in DOMAIN Content
    BY <1>2, ChunkExists DEF Content
  <2>3. FramesGenuine'
    <3>1. \A i \in 1 .. Len(wire') :
            /\ wire'[i].index + 1 \in DOMAIN Content
            /\ wire'[i].data = Content[wire'[i].index + 1]
      BY <1>2, <1>4, <1>6, <1>8, <2>2 DEF IInv, FramesSound, FramesGenuine
    <3>2. QED
      BY <3>1 DEF FramesGenuine, Content
  <2>4. QED
    BY <2>1, <2>3 DEF FramesSound
<1>10. /\ Base' = Base /\ Base \in Nat
       /\ chunk_index >= Base /\ Len(wire) - first = chunk_index - Base
       /\ chunk_index <= end_index
  <2>1. start_index \in Int /\ end_index \in Int
    BY DEF IInv, TypeOK
  <2>2. chunk_index >= start_index /\ chunk_index <= end_index
    BY <1>1, <1>3, <2>1 DEF Before, Beyond
  <2>3. Base' = Base /\ Base \in Nat /\ chunk_index >= Base
    BY <1>1, <1>3, <2>1, <2>2 DEF Base
  <2>4. Len(wire) - first =
            IF chunk_index > Base THEN chunk_index - Base ELSE 0
    BY <1>1 DEF IInv, InLoop
  <2>5. QED
    BY <1>3, <2>2, <2>3, <2>4
<1>11. RunContiguous'
  <2>1. ASSUME NEW i \in ThisRun'
        PROVE  wire'[i].index = Base + i - first - 1
    <3>1. i \in first + 1 .. Len(wire) \/ i = Len(wire) + 1
      BY <1>1, <1>5, <1>6 DEF ThisRun
    <3>2. CASE i \in first + 1 .. Len(wire)
      <4>1. i \in ThisRun /\ i \in 1 .. Len(wire)
        BY <1>5, <3>2 DEF ThisRun
      <4>2. QED
        BY <1>6, <4>1 DEF IInv, RunSendsRange, RunContiguous, Base
    <3>3. CASE i = Len(wire) + 1
      <4>1. wire'[i].index = chunk_index
        BY <1>4, <1>6, <3>3
      <4>2. QED
        BY <1>3, <1>5, <1>10, <3>3, <4>1
    <3>4. QED
      BY <3>1, <3>2, <3>3
  <2>2. QED
    BY <1>1, <2>1 DEF RunContiguous, Base
<1>12. RunComplete'
  BY <1>1 DEF RunComplete
<1>13. InLoop'
  <2>1. Len(wire') - first' = chunk_index' - Base' /\ chunk_index' > Base'
    BY <1>1, <1>3, <1>5, <1>6, <1>10, SMTT(30)
  <2>2. chunk_index' - 1 <= end_index'
    <3>1. chunk_index' - 1 = chunk_index
      BY <1>1, <1>3
    <3>2. QED
      BY <1>1, <1>10, <3>1
  <2>3. QED
    BY <1>1, <1>2, <2>1, <2>2 DEF InLoop, At, Pos
<1>14. QED
  BY <1>7, <1>9, <1>11, <1>12, <1>13 DEF IInv, RunSendsRange

\* A run that returns 0 has sent the indices from Base up to chunk_index - 1.
LEMMA SentOnReturn ==
    ASSUME PacketSendAssumption, IInv, pc = "loop"
    PROVE  {wire[i].index : i \in ThisRun} = Base .. chunk_index - 1
<1>1. /\ chunk_index \in Nat /\ Base \in Nat /\ Len(wire) \in Nat
      /\ first \in Nat /\ first <= Len(wire)
  BY LenProperties, ChunkExists DEF IInv, TypeOK, Base
<1>2. Len(wire) - first = IF chunk_index > Base THEN chunk_index - Base ELSE 0
  BY DEF IInv, InLoop
<1>3. \A i \in ThisRun : wire[i].index = Base + i - first - 1
  BY DEF IInv, RunSendsRange, RunContiguous, Base
<1>4. ASSUME NEW i \in ThisRun
      PROVE  wire[i].index \in Base .. chunk_index - 1
  <2>1. i \in first + 1 .. Len(wire) /\ wire[i].index = Base + i - first - 1
    BY <1>3 DEF ThisRun
  <2>2. Len(wire) > first
    BY <1>1, <2>1
  <2>3. Len(wire) - first = chunk_index - Base
    BY <1>1, <1>2, <2>2
  <2>4. QED
    BY <1>1, <2>1, <2>3
<1>5. ASSUME NEW k \in Base .. chunk_index - 1
      PROVE  \E i \in ThisRun : wire[i].index = k
  <2> DEFINE i == k - Base + first + 1
  <2>1. chunk_index > Base
    BY <1>1
  <2>2. Len(wire) - first = chunk_index - Base
    BY <1>2, <2>1
  <2>3. i \in first + 1 .. Len(wire) /\ Base + i - first - 1 = k
    BY <1>1, <2>2
  <2>4. i \in ThisRun /\ wire[i].index = k
    BY <1>3, <2>3 DEF ThisRun
  <2>5. QED
    BY <2>4
<1>6. QED
  BY <1>4, <1>5

\* The loop ends: by its end of file, past the range, or by a failure.
LEMMA ReturnInv ==
    ASSUME PacketSendAssumption, IInv, EndOfFile \/ PastEnd \/ SendFails
    PROVE  IInv'
<1>1. /\ pc = "loop" /\ pc' = "idle"
      /\ UNCHANGED <<start_index, end_index, chunk_index, wire, first, runs>>
  BY DEF EndOfFile, PastEnd, SendFails
<1>2. FramesSound' /\ RunContiguous' /\ ThisRun' = ThisRun
  BY <1>1, NothingSent
<1>3. InLoop'
  BY <1>1 DEF InLoop
<1>4. TypeOK'
  <2>1. CASE EndOfFile
    BY <1>1, <2>1 DEF IInv, TypeOK, EndOfFile
  <2>2. CASE PastEnd \/ SendFails
    <3>1. fp' \in 0 .. Len(send_file) /\ Len(Read(fp)) \in Nat
      BY <2>2, Turn DEF PastEnd, SendFails
    <3>2. size_of_packet' \in Nat
      BY <2>2, <3>1, Constants, SMTT(30) DEF PastEnd, SendFails, IInv, TypeOK, Loaded
    <3>3. outcome' \in {"none", "done", "failed"}
      BY <2>2 DEF PastEnd, SendFails
    <3>4. QED
      BY <1>1, <3>1, <3>2, <3>3 DEF IInv, TypeOK
  <2>3. QED
    BY <2>1, <2>2
<1>5. /\ chunk_index \in 0 .. NumChunks /\ NumChunks \in Nat
      /\ start_index \in Int /\ end_index \in Int /\ Base \in Nat
  BY ChunkExists DEF IInv, TypeOK, Base
<1>6. Base .. chunk_index - 1 =
          {i \in 0 .. NumChunks - 1 : start_index <= i /\ i <= end_index}
        \/ SendFails
  <2>1. /\ Len(wire) - first =
               IF chunk_index > Base THEN chunk_index - Base ELSE 0
        /\ Len(wire) > first => chunk_index - 1 <= end_index
    BY <1>1 DEF IInv, InLoop
  <2>2. chunk_index > Base => chunk_index - 1 <= end_index
    <3>1. Len(wire) \in Nat /\ first \in Nat
      BY LenProperties DEF IInv, TypeOK
    <3>2. QED
      BY <1>5, <2>1, <3>1
  <2>3. CASE EndOfFile
    <3>1. ~(Pos(chunk_index) < Len(send_file))
      <4>1. At(chunk_index) = Len(send_file)
        BY <1>1, <2>3 DEF IInv, InLoop, EndOfFile, AtEnd
      <4>2. chunk_index \in Nat
        BY <1>5
      <4>3. Pos(chunk_index) \in Nat /\ Len(send_file) \in Nat
        BY <4>2, Constants, Positions
      <4>4. QED
        BY <4>1, <4>3 DEF At
    <3>2. chunk_index = NumChunks
      BY <1>5, <3>1, ChunkExists
    <3>3. QED
      BY <1>5, <2>2, <3>2 DEF Base
  <2>4. CASE PastEnd
    <3>1. chunk_index \in 0 .. NumChunks - 1
      BY <1>1, <2>4, Turn DEF PastEnd
    <3>2. chunk_index >= start_index /\ chunk_index > end_index
      BY <1>5, <2>4 DEF PastEnd, Before, Beyond
    <3>3. QED
      BY <1>5, <2>2, <3>1, <3>2 DEF Base
  <2>5. QED
    BY <2>3, <2>4
<1>7. RunComplete'
  <2>1. CASE SendFails
    BY <2>1 DEF RunComplete, SendFails
  <2>2. CASE ~SendFails
    <3>1. {wire[i].index : i \in ThisRun} =
              {i \in 0 .. NumChunks - 1 : start_index <= i /\ i <= end_index}
      BY <1>1, <1>6, <2>2, SentOnReturn
    <3>2. QED
      BY <1>1, <1>2, <3>1 DEF RunComplete, NumChunks, Payload
  <2>3. QED
    BY <2>1, <2>2
<1>8. QED
  BY <1>2, <1>3, <1>4, <1>7 DEF IInv, RunSendsRange

LEMMA StepInv ==
    ASSUME PacketSendAssumption, IInv, [Next]_vars
    PROVE  IInv'
<1>1. CASE UNCHANGED vars
  <2>1. TypeOK' /\ InLoop'
    BY <1>1 DEF vars, IInv, TypeOK, InLoop, At, Pos, Base
  <2>2. FramesSound' /\ RunContiguous' /\ ThisRun' = ThisRun
    BY <1>1, NothingSent DEF vars
  <2>3. RunComplete'
    BY <1>1, <2>2 DEF vars, IInv, RunSendsRange, RunComplete
  <2>4. QED
    BY <2>1, <2>2, <2>3 DEF IInv, RunSendsRange
<1>2. QED
  BY <1>1, StartInv, SkipInv, TransmitInv, ReturnInv DEF Next

LEMMA Invariance == PacketSendAssumption => (Spec => []IInv)
<1> SUFFICES ASSUME PacketSendAssumption
             PROVE  Spec => []IInv
  OBVIOUS
<1>1. Init => IInv
  BY InitInv
<1>2. IInv /\ [Next]_vars => IInv'
  BY StepInv
<1>3. QED
  BY <1>1, <1>2, PTL DEF Spec

-----------------------------------------------------------------------------
\* Every variable of the sender has its type, fp never passes the end of the
\* file and chunk_index never the number of its chunks.
THEOREM TypeCorrect == PacketSendAssumption => (Spec => []TypeOK)
<1> SUFFICES ASSUME PacketSendAssumption
             PROVE  Spec => []TypeOK
  OBVIOUS
<1>1. IInv => TypeOK
  BY DEF IInv
<1>2. QED
  BY <1>1, Invariance, PTL

\* Whatever is skipped, sent or fails, in any number of runs: every frame on
\* the wire has its CRC at its end and the bytes of the file that belong to
\* its index.
THEOREM Sound == PacketSendAssumption => (Spec => []FramesSound)
<1> SUFFICES ASSUME PacketSendAssumption
             PROVE  Spec => []FramesSound
  OBVIOUS
<1>1. IInv => FramesSound
  BY DEF IInv
<1>2. QED
  BY <1>1, Invariance, PTL

\* A run sends its range upwards and without repetition, and all of what the
\* file has of it when it returns 0.
THEOREM SendsRange == PacketSendAssumption => (Spec => []RunSendsRange)
<1> SUFFICES ASSUME PacketSendAssumption
             PROVE  Spec => []RunSendsRange
  OBVIOUS
<1>1. IInv => RunSendsRange
  BY DEF IInv
<1>2. QED
  BY <1>1, Invariance, PTL
=============================================================================
