----------------------- MODULE PacketTransfer_proofs ------------------------
(***************************************************************************)
(* The transfer as a whole: the invariants of the sender and the receiver, *)
(* each proved in its own module, put together over the link.              *)
(*                                                                         *)
(* Every frame the sender leaves on the wire is the sound frame of its     *)
(* index (WireSound), so what the link delivers, damaged or not, is a      *)
(* frame the receiver's assumption speaks of, and the receiver's theorems  *)
(* apply.  FlattenContent turns chunks into bytes, by induction over the   *)
(* number of chunks.                                                       *)
(***************************************************************************)
EXTENDS PacketTransfer, SequenceLemmas, FiniteSetTheorems

SP == INSTANCE PacketSend_proofs

RP == INSTANCE PacketRecv_proofs
        WITH Chunks <- Seq(Bytes), Content <- S!Content, Frames <- LinkFrames

-----------------------------------------------------------------------------
(***************************************************************************)
(* The two parts, as this module and as their proofs name them.            *)
(***************************************************************************)
LEMMA SenderConstants ==
    /\ SP!PacketSendAssumption
    /\ S!Content = SP!Content /\ S!NumChunks = SP!NumChunks
BY PacketTransferAssumption
   DEF S!PacketSendAssumption, SP!PacketSendAssumption, S!HEADER, SP!HEADER,
       S!INDEX, SP!INDEX, S!CRC, SP!CRC, S!Content, SP!Content,
       S!NumChunks, SP!NumChunks, S!Payload, SP!Payload

LEMMA SenderSteps ==
    /\ S!Init <=> SP!Init
    /\ S!Next <=> SP!Next
    /\ S!Transmit <=> SP!Transmit
    /\ S!Start <=> SP!Start
BY DEF S!Init, SP!Init, S!Next, SP!Next, S!Start, SP!Start,
       S!StartFails, SP!StartFails, S!EndOfFile, SP!EndOfFile,
       S!Skip, SP!Skip, S!PastEnd, SP!PastEnd, S!Transmit, SP!Transmit,
       S!SendFails, SP!SendFails, S!AtEnd, SP!AtEnd, S!Before, SP!Before,
       S!Beyond, SP!Beyond, S!Read, SP!Read, S!Loaded, SP!Loaded,
       S!FrameSent, SP!FrameSent, S!Payload, SP!Payload,
       S!HEADER, SP!HEADER, S!INDEX, SP!INDEX, S!CRC, SP!CRC

LEMMA ReceiverSteps ==
    /\ R!Init <=> RP!Init
    /\ R!Restart <=> RP!Restart
    /\ \A f : R!Receive(f) <=> RP!Receive(f)
<1>1. (R!Init <=> RP!Init) /\ (R!Restart <=> RP!Restart)
  BY DEF R!Init, RP!Init, R!Restart, RP!Restart
<1>2. ASSUME NEW f
      PROVE  R!Receive(f) <=> RP!Receive(f)
  <2>1. /\ R!Accepts(f) <=> RP!Accepts(f)
        /\ R!Verifies(f) <=> RP!Verifies(f)
        /\ R!Handed(f) <=> RP!Handed(f)
        /\ R!Full <=> RP!Full
        /\ R!Node(f) = RP!Node(f)
        /\ R!vars = RP!vars
    BY DEF R!Accepts, RP!Accepts, R!Verifies, RP!Verifies, R!Crc, RP!Crc,
           R!Handed, RP!Handed, R!Full, RP!Full, R!Node, RP!Node,
           R!vars, RP!vars
  <2>2. \A k : R!IsSlot(chain, f.index, k) <=> RP!IsSlot(chain, f.index, k)
    BY DEF R!IsSlot, RP!IsSlot
  <2>3. \A p, k : R!IsRun(p, need_index, k) <=> RP!IsRun(p, need_index, k)
    BY DEF R!IsRun, RP!IsRun
  <2>4. /\ R!ReceiveOther(f) <=> RP!ReceiveOther(f)
        /\ R!ReceiveDamaged(f) <=> RP!ReceiveDamaged(f)
        /\ R!DropWhenFull(f) <=> RP!DropWhenFull(f)
    BY <2>1 DEF R!ReceiveOther, RP!ReceiveOther, R!ReceiveDamaged,
           RP!ReceiveDamaged, R!DropWhenFull, RP!DropWhenFull,
           R!vars, RP!vars
  <2>5. /\ R!KeepStale(f) <=> RP!KeepStale(f)
        /\ R!OpenFails(f) <=> RP!OpenFails(f)
    BY <2>1 DEF R!KeepStale, RP!KeepStale, R!OpenFails, RP!OpenFails
  <2>6. R!Hold(f) <=> RP!Hold(f)
    <3>1. \A c, k, n : R!InsertAt(c, k, n) = RP!InsertAt(c, k, n)
      BY DEF R!InsertAt, RP!InsertAt
    <3>2. QED
      BY <2>1, <2>2, <3>1, Zenon DEF R!Hold, RP!Hold
  <2>7. R!Save(f) <=> RP!Save(f)
    BY <2>1, <2>3, Zenon DEF R!Save, RP!Save
  <2>8. QED
    BY <2>4, <2>5, <2>6, <2>7 DEF R!Receive, RP!Receive
<1>3. QED
  BY <1>1, <1>2

\* The chunks of the file.
LEMMA ContentOfFile ==
    /\ S!NumChunks \in Nat
    /\ S!Content \in Seq(Seq(Bytes)) /\ Len(S!Content) = S!NumChunks
    /\ \A c \in 0 .. S!NumChunks - 1 : S!Content[c + 1] \in Seq(Bytes)
<1>1. S!NumChunks \in Nat /\ S!NumChunks = SP!NumChunks
  BY SenderConstants, SP!ChunkExists
<1>2. ASSUME NEW c \in 0 .. S!NumChunks - 1
      PROVE  S!Content[c + 1] \in Seq(Bytes)
  <2>1. c \in Nat /\ c < SP!NumChunks
    BY <1>1
  <2>2. SP!Pos(c) < Len(send_file)
    BY <2>1, SenderConstants, SP!ChunkExists
  <2>3. SP!Pos(c) \in Nat /\ Len(send_file) \in Nat
    BY <2>1, SenderConstants, SP!Positions, SP!Constants
  <2>4. SP!At(c) # Len(send_file)
    BY <2>2, <2>3 DEF SP!At
  <2>5. SP!Read(SP!At(c)) = SP!Content[c + 1] /\ SP!Read(SP!At(c)) \in Seq(Bytes)
    BY <2>1, <2>4, SenderConstants, SP!ReadChunk
  <2>6. QED
    BY <2>5, SenderConstants
<1>3. \A i \in 1 .. S!NumChunks : S!Content[i] \in Seq(Bytes)
  <2>1. ASSUME NEW i \in 1 .. S!NumChunks
        PROVE  S!Content[i] \in Seq(Bytes)
    <3>1. i - 1 \in 0 .. S!NumChunks - 1 /\ (i - 1) + 1 = i
      BY <1>1
    <3>2. QED
      BY <1>2, <3>1
  <2>2. QED
    BY <2>1
<1>4. DOMAIN S!Content = 1 .. S!NumChunks /\ S!Content = [i \in 1 .. S!NumChunks |-> S!Content[i]]
  BY DEF S!Content
<1>5. S!Content \in Seq(Seq(Bytes)) /\ Len(S!Content) = S!NumChunks
  <2> DEFINE C == S!Content
  <2> HIDE DEF C
  <2>1. C = [i \in 1 .. S!NumChunks |-> C[i]] /\ \A i \in 1 .. S!NumChunks : C[i] \in Seq(Bytes)
    BY <1>3, <1>4 DEF C
  <2>2. C \in Seq(Seq(Bytes)) /\ Len(C) = S!NumChunks
    BY <1>1, <2>1
  <2>3. QED
    BY <2>2 DEF C
<1>6. QED
  BY <1>1, <1>2, <1>5

\* A frame that is damaged in any of the three ways does not verify, but for
\* a chunk without bytes, which loses none.
LEMMA DamageShows ==
    ASSUME NEW i \in 0 .. S!NumChunks - 1, NEW f \in DamagedForms(Sound(i)),
           RP!Verifies(f)
    PROVE  f = Sound(i)
<1> DEFINE g == Sound(i)
<1>1. i \in Nat /\ i + 1 # i
  BY ContentOfFile
<1>2. g = [dst |-> Own, index |-> i, data |-> S!Content[i + 1],
           crc |-> <<i, S!Content[i + 1]>>, pad |-> 0]
  BY DEF Sound
<1>3. f.crc = <<f.index, f.data>> /\ f.pad = 0
  BY DEF RP!Verifies, RP!Crc
<1> HIDE DEF g
<1>4. CASE f = [g EXCEPT !.index = g.index + 1]
  <2>1. f.index = i + 1 /\ f.crc = <<i, S!Content[i + 1]>>
    BY <1>2, <1>4
  <2>2. QED
    BY <1>1, <1>3, <2>1
<1>5. CASE f = [g EXCEPT !.data = <<>>]
  <2>1. f.data = <<>> /\ f.crc = <<i, S!Content[i + 1]>>
    BY <1>2, <1>5
  <2>2. g.data = <<>>
    BY <1>2, <1>3, <2>1
  <2>3. f = g
    BY <1>2, <1>5, <2>2
  <2>4. QED
    BY <2>3 DEF g
<1>6. CASE f = [g EXCEPT !.pad = g.pad + 1]
  <2>1. f.pad = 1
    BY <1>2, <1>6
  <2>2. QED
    BY <1>3, <2>1
<1>7. QED
  BY <1>4, <1>5, <1>6 DEF DamagedForms, g

\* What the receiver assumes of the frames is true of this link.
LEMMA LinkIsSound == RP!PacketRecvAssumption
<1>1. ASSUME NEW f \in LinkFrames, RP!Accepts(f), RP!Verifies(f)
      PROVE  f.index \in RP!Indices /\ f.data = RP!Chunk(f.index)
  <2>1. PICK i \in 0 .. S!NumChunks - 1 : f = Sound(i) \/ f \in DamagedForms(Sound(i))
    BY DEF LinkFrames, SoundFrames
  <2>2. f = Sound(i)
    BY <1>1, <2>1, DamageShows
  <2>3. f.index = i /\ f.data = S!Content[i + 1]
    BY <2>2 DEF Sound
  <2>4. QED
    BY <2>1, <2>3, ContentOfFile DEF RP!Indices, RP!Chunk
<1>2. QED
  BY <1>1, ContentOfFile, PacketTransferAssumption DEF RP!PacketRecvAssumption

-----------------------------------------------------------------------------
(***************************************************************************)
(* The invariant of the transfer.                                          *)
(***************************************************************************)
\* What is on the wire is the sound frame of its index.
WireSound ==
    \A p \in 1 .. Len(wire) :
        /\ wire[p].index \in 0 .. S!NumChunks - 1
        /\ wire[p] = Sound(wire[p].index)

\* What the link may deliver is on the wire.
PendingOnWire == pending \subseteq 1 .. Len(wire)

TInv == SP!IInv /\ RP!IInv /\ RP!Counted /\ WireSound /\ PendingOnWire

LEMMA TInit == Init => TInv
<1> SUFFICES ASSUME Init PROVE TInv
  OBVIOUS
<1>1. SP!IInv /\ wire = <<>>
  BY SenderConstants, SenderSteps, SP!InitInv DEF Init, S!Init
<1>2. RP!IInv /\ RP!Counted
  BY LinkIsSound, ReceiverSteps, RP!InitInv, RP!CountedInit DEF Init
<1>3. QED
  BY <1>1, <1>2 DEF Init, TInv, WireSound, PendingOnWire

\* A turn of the sender puts at most one frame on the wire, a sound one.
LEMMA WireGrows ==
    ASSUME SP!IInv, WireSound, S!Next
    PROVE  /\ SP!IInv'
           /\ WireSound'
           /\ Len(wire) \in Nat /\ Len(wire') \in Nat
           /\ Len(wire') >= Len(wire)
           /\ \A p \in 1 .. Len(wire) : wire'[p] = wire[p]
<1>1. SP!IInv'
  BY SenderConstants, SenderSteps, SP!StepInv
<1>2. wire \in Seq(SP!Frame) /\ wire' \in Seq(SP!Frame)
  BY <1>1 DEF SP!IInv, SP!TypeOK, SP!Frame
<1>3. Len(wire) \in Nat /\ Len(wire') \in Nat
  BY <1>2
<1>4. CASE wire' = wire
  <2>1. WireSound'
    BY <1>4 DEF WireSound, Sound, S!Content, S!NumChunks
  <2>2. QED
    BY <1>1, <1>3, <1>4, <2>1
<1>5. CASE S!Transmit
  <2>1. SP!Transmit
    BY <1>5, SenderSteps
  <2> DEFINE f == SP!FrameSent(chunk_index, SP!Read(fp),
                    SP!Loaded(size_of_packet, SP!Read(fp)) + SP!HEADER)
  <2>2. wire' = Append(wire, f)
    BY <2>1 DEF SP!Transmit
  <2>3. /\ f.dst = Own /\ f.crc = <<f.index, f.data>>
        /\ f = [dst |-> f.dst, index |-> f.index, data |-> f.data,
                crc |-> f.crc, pad |-> f.pad]
    BY DEF SP!FrameSent
  <2> HIDE DEF f
  <2>4. /\ Len(wire') = Len(wire) + 1
        /\ \A p \in 1 .. Len(wire) : wire'[p] = wire[p]
        /\ wire'[Len(wire) + 1] = f
    <3>1. f \in SP!Frame
      <4>1. Len(wire') \in 1 .. Len(wire') /\ wire'[Len(wire')] = f
        BY <1>2, <2>2
      <4>2. QED
        BY <1>2, <4>1
    <3>2. QED
      BY <1>2, <2>2, <3>1, AppendProperties
  <2>5. /\ f.pad = 0 /\ f.index + 1 \in DOMAIN S!Content
        /\ f.data = S!Content[f.index + 1] /\ f.index \in Nat
    <3>1. Len(wire) + 1 \in 1 .. Len(wire')
      BY <1>3, <2>4
    <3>2. /\ f.pad = 0 /\ f.index + 1 \in DOMAIN SP!Content'
          /\ f.data = SP!Content'[f.index + 1]
      BY <1>1, <2>4, <3>1
         DEF SP!IInv, SP!FramesSound, SP!FramesExact, SP!FramesGenuine
    <3>3. SP!Content' = S!Content
      BY SenderConstants DEF SP!Content, SP!NumChunks, SP!Payload, SP!INDEX
    <3>4. f \in SP!Frame
      BY <1>2, <2>4, <3>1
    <3>5. QED
      BY <3>2, <3>3, <3>4 DEF SP!Frame
  <2>6. f.index \in 0 .. S!NumChunks - 1
    BY <2>5, ContentOfFile
  <2>7. f = Sound(f.index)
    BY <2>3, <2>5 DEF Sound
  <2>8. WireSound'
    <3>1. \A p \in 1 .. Len(wire') : p \in 1 .. Len(wire) \/ p = Len(wire) + 1
      BY <1>3, <2>4
    <3>2. \A p \in 1 .. Len(wire') :
              /\ wire'[p].index \in 0 .. S!NumChunks - 1
              /\ wire'[p] = Sound(wire'[p].index)
      BY <2>4, <2>6, <2>7, <3>1 DEF WireSound
    <3>3. QED
      BY <3>2 DEF WireSound, Sound, S!Content, S!NumChunks
  <2>9. QED
    BY <1>1, <1>3, <2>4, <2>8
<1>6. QED
  BY <1>4, <1>5 DEF S!Next, S!Start, S!StartFails, S!EndOfFile, S!Skip,
     S!PastEnd, S!SendFails

\* What the link delivers is one of its frames.
LEMMA DeliversLinkFrames ==
    ASSUME WireSound, PendingOnWire, NEW p \in pending
    PROVE  wire[p] \in SoundFrames /\ DamagedForms(wire[p]) \subseteq LinkFrames
           /\ wire[p] \in LinkFrames
BY DEF WireSound, PendingOnWire, SoundFrames, LinkFrames

\* Seen from the receiver every step is one of its own, or none.
LEMMA ReceiverSees ==
    ASSUME TInv, [Next]_vars
    PROVE  [R!Next]_(R!vars) /\ [RP!Next]_(RP!vars)
<1>1. CASE SenderStep \/ UNCHANGED vars
  BY <1>1 DEF SenderStep, vars, receiverVars, R!vars, RP!vars
<1>2. CASE ReceiverRestart
  BY <1>2, ReceiverSteps DEF ReceiverRestart, R!Next, RP!Next
<1>3. CASE Deliver
  <2>1. \E f \in LinkFrames : R!Receive(f)
    BY <1>3, DeliversLinkFrames DEF TInv, Deliver
  <2>2. QED
    BY <2>1, ReceiverSteps DEF R!Next, RP!Next
<1>4. QED
  BY <1>1, <1>2, <1>3 DEF Next

LEMMA TStep ==
    ASSUME TInv, [Next]_vars
    PROVE  TInv'
<1>1. RP!IInv' /\ RP!Counted'
  <2>1. [RP!Next]_(RP!vars)
    BY ReceiverSees
  <2>2. RP!IInv'
    BY <2>1, LinkIsSound, RP!ReceiveInv, RP!RestartInv, RP!StutterInv
       DEF TInv, RP!Next
  <2>3. QED
    BY <2>1, <2>2, LinkIsSound, RP!CountedInv DEF TInv
<1>2. CASE SenderStep
  <2>1. SP!IInv' /\ WireSound' /\ Len(wire) \in Nat /\ Len(wire') \in Nat
        /\ Len(wire') >= Len(wire)
    BY <1>2, WireGrows DEF TInv, SenderStep
  <2>2. pending' = pending \cup (Len(wire) + 1 .. Len(wire'))
    BY <1>2 DEF SenderStep
  <2>3. PendingOnWire'
    <3>1. 1 .. Len(wire) \subseteq 1 .. Len(wire')
      BY <2>1
    <3>2. Len(wire) + 1 .. Len(wire') \subseteq 1 .. Len(wire')
      BY <2>1
    <3>3. QED
      BY <2>2, <3>1, <3>2 DEF TInv, PendingOnWire
  <2>4. QED
    BY <1>1, <2>1, <2>3 DEF TInv
<1>3. CASE UNCHANGED senderVars /\ pending' \subseteq pending
  <2>1. SP!IInv'
    <3>1. UNCHANGED SP!vars
      BY <1>3 DEF senderVars, SP!vars
    <3>2. QED
      BY <3>1, SenderConstants, SP!StepInv DEF TInv
  <2>2. WireSound' /\ PendingOnWire'
    BY <1>3 DEF TInv, WireSound, PendingOnWire, senderVars, Sound,
       S!Content, S!NumChunks
  <2>3. QED
    BY <1>1, <2>1, <2>2 DEF TInv
<1>4. Next \/ UNCHANGED vars =>
          SenderStep \/ (UNCHANGED senderVars /\ pending' \subseteq pending)
  BY DEF Next, Deliver, ReceiverRestart, vars
<1>5. QED
  BY <1>2, <1>3, <1>4

LEMMA TInvariance == Spec => []TInv
BY TInit, TStep, PTL DEF Spec

-----------------------------------------------------------------------------
(***************************************************************************)
(* What the receiver writes, in bytes.                                     *)
(***************************************************************************)
\* Two adjacent pieces of a sequence.
LEMMA Adjacent ==
    ASSUME NEW D, NEW s \in Seq(D), NEW a \in Nat, NEW b \in Nat,
           a <= b, b <= Len(s)
    PROVE  SubSeq(s, 1, a) \o SubSeq(s, a + 1, b) = SubSeq(s, 1, b)
<1> DEFINE x == SubSeq(s, 1, a)
           y == SubSeq(s, a + 1, b)
           z == SubSeq(s, 1, b)
<1>1. Len(s) \in Nat
  OBVIOUS
<1>2. x \in Seq(D) /\ Len(x) = a /\ \A i \in 1 .. a : x[i] = s[i]
  BY <1>1
<1>3. y \in Seq(D) /\ Len(y) = b - a /\ \A i \in 1 .. b - a : y[i] = s[a + i]
  BY <1>1
<1>4. z \in Seq(D) /\ Len(z) = b /\ \A i \in 1 .. b : z[i] = s[i]
  BY <1>1
<1> HIDE DEF x, y, z
<1>5. x \o y \in Seq(D) /\ Len(x \o y) = b
      /\ \A i \in 1 .. b : (x \o y)[i] = s[i]
  <2>1. Len(x \o y) = b /\ x \o y \in Seq(D)
    <3>1. Len(x \o y) = Len(x) + Len(y) /\ x \o y \in Seq(D)
      BY <1>2, <1>3, ConcatProperties, ZenonT(30)
    <3>2. QED
      BY <1>2, <1>3, <3>1
  <2>2. ASSUME NEW i \in 1 .. b
        PROVE  (x \o y)[i] = s[i]
    <3>0. i \in 1 .. Len(x) + Len(y)
      BY <1>2, <1>3
    <3>1. CASE i <= a
      <4>1. (x \o y)[i] = x[i]
        BY <1>2, <1>3, <3>0, <3>1, ConcatProperties
      <4>2. QED
        BY <1>2, <3>1, <4>1
    <3>2. CASE i > a
      <4>1. i - a \in 1 .. b - a /\ a + (i - a) = i
        BY <3>2
      <4>2. (x \o y)[i] = y[i - a]
        BY <1>2, <1>3, <3>0, <3>2, ConcatProperties
      <4>3. QED
        BY <1>3, <4>1, <4>2
    <3>3. i <= a \/ i > a
      OBVIOUS
    <3>4. QED
      BY <3>1, <3>2, <3>3, Zenon
  <2>3. QED
    BY <2>1, <2>2, Zenon
<1>6. x \o y = z
  BY <1>4, <1>5, SeqEqual
<1>7. QED
  BY <1>6 DEF x, y, z

\* A chunk lies between the positions where it and the next one begin.
LEMMA ChunkBytes ==
    ASSUME NEW c \in Nat, c < S!NumChunks
    PROVE  /\ SP!At(c) \in Nat /\ SP!At(c + 1) \in Nat
           /\ SP!At(c) <= SP!At(c + 1) /\ SP!At(c + 1) <= Len(send_file)
           /\ S!Content[c + 1] = SubSeq(send_file, SP!At(c) + 1, SP!At(c + 1))
<1>1. /\ SP!Pos(c) \in Nat /\ SP!Pos(c + 1) = SP!Pos(c) + SP!Payload
      /\ SP!Payload \in Nat /\ SP!Payload > 0 /\ Len(send_file) \in Nat
  BY SenderConstants, SP!Positions, SP!Constants
<1>2. SP!Pos(c) < Len(send_file)
  BY SenderConstants, SP!ChunkExists
<1>3. SP!At(c) = SP!Pos(c) /\ SP!At(c) # Len(send_file)
  BY <1>1, <1>2 DEF SP!At
<1>4. S!Content[c + 1] = SP!Read(SP!At(c))
  BY <1>3, SenderConstants, SP!ReadChunk
<1>5. SP!Read(SP!At(c)) = SubSeq(send_file, SP!At(c) + 1, SP!At(c + 1))
  BY <1>1, <1>3 DEF SP!Read, SP!At
<1>6. SP!At(c + 1) \in Nat /\ SP!At(c) <= SP!At(c + 1) /\ SP!At(c + 1) <= Len(send_file)
  BY <1>1, <1>2, <1>3 DEF SP!At
<1>7. QED
  BY <1>1, <1>3, <1>4, <1>5, <1>6

\* The first k chunks are the first bytes of the file, up to where chunk k
\* begins.
LEMMA FlattenContent ==
    ASSUME NEW k \in 0 .. S!NumChunks
    PROVE  FlattenSeq(SubSeq(S!Content, 1, k)) = SubSeq(send_file, 1, SP!At(k))
<1> DEFINE C == S!Content
           T == {n \in Nat : n <= S!NumChunks =>
                    FlattenSeq(SubSeq(C, 1, n)) = SubSeq(send_file, 1, SP!At(n))}
<1>0. /\ C \in Seq(Seq(Bytes)) /\ Len(C) = S!NumChunks /\ S!NumChunks \in Nat
      /\ send_file \in Seq(Bytes) /\ Len(send_file) \in Nat
  BY ContentOfFile, PacketTransferAssumption DEF S!PacketSendAssumption
<1>1. 0 \in T
  <2>1. SP!At(0) = 0
    BY <1>0, SenderConstants, SP!Positions DEF SP!At
  <2>2. SubSeq(C, 1, 0) = <<>> /\ SubSeq(send_file, 1, 0) = <<>>
    BY <1>0, SubSeqEmpty
  <2>3. QED
    BY <2>1, <2>2, FlattenEmpty
<1>2. ASSUME NEW n \in T
      PROVE  n + 1 \in T
  <2>1. SUFFICES ASSUME n + 1 <= S!NumChunks
                 PROVE  FlattenSeq(SubSeq(C, 1, n + 1))
                            = SubSeq(send_file, 1, SP!At(n + 1))
    OBVIOUS
  <2>2. n \in Nat /\ n < S!NumChunks /\ n <= S!NumChunks
    BY <1>0, <2>1
  <2>3. FlattenSeq(SubSeq(C, 1, n)) = SubSeq(send_file, 1, SP!At(n))
    BY <2>2
  <2>4. /\ SP!At(n) \in Nat /\ SP!At(n + 1) \in Nat
        /\ SP!At(n) <= SP!At(n + 1) /\ SP!At(n + 1) <= Len(send_file)
        /\ C[n + 1] = SubSeq(send_file, SP!At(n) + 1, SP!At(n + 1))
    BY <2>2, ChunkBytes
  <2> HIDE DEF C
  <2>5. SubSeq(C, 1, n + 1) = Append(SubSeq(C, 1, n), C[n + 1])
    BY <1>0, <2>2
  <2>6. SubSeq(C, 1, n) \in Seq(Seq(Bytes)) /\ C[n + 1] \in Seq(Bytes)
    BY <1>0, <2>2
  <2>7. FlattenSeq(SubSeq(C, 1, n + 1)) = FlattenSeq(SubSeq(C, 1, n)) \o C[n + 1]
    BY <2>5, <2>6, FlattenAppend
  <2>8. SubSeq(send_file, 1, SP!At(n)) \o SubSeq(send_file, SP!At(n) + 1, SP!At(n + 1))
            = SubSeq(send_file, 1, SP!At(n + 1))
    BY <1>0, <2>4, Adjacent
  <2>9. QED
    BY <2>3, <2>4, <2>7, <2>8
<1> HIDE DEF T, C
<1>3. T \in SUBSET Nat
  BY DEF T
<1>4. k \in Nat /\ k <= S!NumChunks
  BY <1>0
<1>5. k \in T
  BY <1>1, <1>2, <1>3, <1>4, Climb
<1>6. QED
  BY <1>4, <1>5 DEF T, C

-----------------------------------------------------------------------------
\* Whatever the link does with the frames: what reaches the receiver is what
\* its assumption allows, so that all that is proved of the receiver alone is
\* true of it here.
THEOREM ReceiverAlone == Spec => ReceiverSpec
<1>1. Init => R!Init
  BY DEF Init
<1>2. TInv /\ [Next]_vars => [R!Next]_(R!vars)
  BY ReceiverSees
<1>3. QED
  BY <1>1, <1>2, TInvariance, PTL DEF Spec, ReceiverSpec, R!Spec

\* End to end, for every file, every size of the chunks, every sequence of
\* ranges and every link: the bytes one run of recv writes are the first
\* bytes of send_file, and need_index counts what was written and what was
\* lost on a full disk.
THEOREM EndToEnd == Spec => []BytesArePrefix
<1>1. ASSUME TInv
      PROVE  BytesArePrefix
  <2>0. /\ recived_file \in Seq(Seq(Bytes)) /\ Len(recived_file) \in Nat
        /\ base \in 0 .. Len(recived_file) /\ lost_writes \in Nat
        /\ need_index \in 0 .. S!NumChunks
    BY <1>1, ContentOfFile DEF TInv, RP!IInv, RP!TypeOK
  <2>1. Len(Written) = Len(recived_file) - base
    <3>1. base + 1 \in Nat /\ base + 1 >= 1 /\ base <= Len(recived_file)
      BY <2>0
    <3>2. QED
      BY <2>0, <3>1 DEF Written
  <2>2. Len(Written) + lost_writes = need_index
    BY <1>1, <2>1 DEF TInv, RP!Counted
  <2>3. ASSUME lost_writes = 0
        PROVE  IsPrefix(FlattenSeq(Written), send_file)
    <3>1. Written = SubSeq(S!Content, 1, need_index)
      BY <1>1, <2>3 DEF TInv, RP!IInv, RP!FileIsPrefix, Written
    <3>2. FlattenSeq(Written) = SubSeq(send_file, 1, SP!At(need_index))
      BY <2>0, <3>1, FlattenContent
    <3>3. /\ SP!At(need_index) \in Nat /\ SP!At(need_index) <= Len(send_file)
          /\ send_file \in Seq(Bytes) /\ Len(send_file) \in Nat
      <4>1. need_index \in Nat
        BY <2>0, ContentOfFile
      <4>2. SP!Pos(need_index) \in Nat /\ Len(send_file) \in Nat
        BY <4>1, SenderConstants, SP!Positions, SP!Constants
      <4>3. QED
        BY <4>2, PacketTransferAssumption DEF SP!At, S!PacketSendAssumption
    <3> DEFINE a == SP!At(need_index)
               q == SubSeq(send_file, 1, a)
    <3>4. Len(q) = a
      BY <3>3
    <3>5. IsPrefix(q, send_file)
      BY <3>3, <3>4 DEF IsPrefix
    <3>6. QED
      BY <3>2, <3>5
  <2>4. QED
    BY <2>2, <2>3 DEF BytesArePrefix
<1>2. QED
  BY <1>1, TInvariance, PTL

-----------------------------------------------------------------------------
(***************************************************************************)
(* Nothing sent twice and nothing delivered twice.  The indices on the     *)
(* wire are then all different, and an index that is still on its way is   *)
(* neither saved nor held: no node is of a chunk already saved, none is    *)
(* there twice, and the list is strictly sorted.                           *)
(***************************************************************************)
WireOnce ==
    \A p, q \in 1 .. Len(wire) : p # q => wire[p].index # wire[q].index

RangeIsNew ==
    pc = "loop" =>
        \A p \in 1 .. first : wire[p].index \notin start_index .. end_index

HeldAhead == \A j \in 1 .. Len(chain) : chain[j].index > need_index

HeldOnce ==
    \A i, j \in 1 .. Len(chain) : i < j => chain[i].index < chain[j].index

CameOverWire ==
    /\ \A i \in 0 .. need_index - 1 : i \in SentIndices
    /\ \A j \in 1 .. Len(chain) : chain[j].index \in SentIndices

StillToCome ==
    \A p \in pending :
        /\ wire[p].index >= need_index
        /\ \A j \in 1 .. Len(chain) : chain[j].index # wire[p].index

OInv ==
    /\ WireOnce
    /\ RangeIsNew
    /\ HeldAhead
    /\ HeldOnce
    /\ CameOverWire
    /\ StillToCome

LEMMA OInit == Init => OInv
BY DEF Init, S!Init, R!Init, OInv, WireOnce, RangeIsNew, HeldAhead, HeldOnce,
       CameOverWire, StillToCome

\* The chunk that goes out now has not been sent before.
LEMMA NewIndex ==
    ASSUME TInv, RangeIsNew, S!Transmit
    PROVE  chunk_index \notin SentIndices
<1>1. SP!Transmit /\ SP!IInv /\ SP!PacketSendAssumption /\ pc = "loop"
  BY SenderSteps, SenderConstants DEF TInv, SP!Transmit
<1>2. /\ Len(wire) \in Nat /\ first \in 0 .. Len(wire) /\ chunk_index \in Nat
      /\ start_index \in Int /\ end_index \in Int
  BY <1>1, ContentOfFile, SenderConstants DEF SP!IInv, SP!TypeOK
<1>3. chunk_index \in start_index .. end_index
  BY <1>1, <1>2 DEF SP!Transmit, SP!Before, SP!Beyond
<1>4. {wire[i].index : i \in SP!ThisRun} = SP!Base .. chunk_index - 1
  BY <1>1, SP!SentOnReturn
<1>5. ASSUME NEW p \in 1 .. Len(wire)
      PROVE  wire[p].index # chunk_index
  <2>1. CASE p \in 1 .. first
    BY <1>1, <1>3, <2>1 DEF RangeIsNew
  <2>2. CASE p \in SP!ThisRun
    <3>1. wire[p].index \in SP!Base .. chunk_index - 1
      BY <1>4, <2>2
    <3>2. QED
      BY <1>2, <3>1
  <2>3. p \in 1 .. first \/ p \in SP!ThisRun
    BY <1>2 DEF SP!ThisRun
  <2>4. QED
    BY <2>1, <2>2, <2>3
<1>6. QED
  BY <1>5 DEF SentIndices

LEMMA SentGrows ==
    ASSUME \A p \in 1 .. Len(wire) : wire'[p] = wire[p],
           Len(wire) \in Nat, Len(wire') \in Nat, Len(wire') >= Len(wire)
    PROVE  SentIndices \subseteq SentIndices'
<1>1. 1 .. Len(wire) \subseteq 1 .. Len(wire')
  OBVIOUS
<1>2. QED
  BY <1>1 DEF SentIndices

LEMMA OSender ==
    ASSUME ~Reruns, TInv, OInv, SenderStep
    PROVE  OInv'
<1>0. /\ S!Next /\ UNCHANGED receiverVars
      /\ pending' = pending \cup (Len(wire) + 1 .. Len(wire'))
  BY DEF SenderStep
<1>1. /\ Len(wire) \in Nat /\ Len(wire') \in Nat /\ Len(wire') >= Len(wire)
      /\ \A p \in 1 .. Len(wire) : wire'[p] = wire[p]
  BY <1>0, WireGrows DEF TInv
<1>2. SentIndices \subseteq SentIndices'
  BY <1>1, SentGrows
<1>3. need_index' = need_index /\ chain' = chain
  BY <1>0 DEF receiverVars
<1>4. first \in 0 .. Len(wire)
  BY DEF TInv, SP!IInv, SP!TypeOK
<1>5. HeldAhead' /\ HeldOnce' /\ CameOverWire'
  BY <1>2, <1>3 DEF OInv, HeldAhead, HeldOnce, CameOverWire
<1>6. CASE S!Transmit
  <2>1. /\ Len(wire') = Len(wire) + 1
        /\ wire'[Len(wire) + 1].index = chunk_index
    <3> DEFINE f == SP!FrameSent(chunk_index, SP!Read(fp),
                      SP!Loaded(size_of_packet, SP!Read(fp)) + SP!HEADER)
    <3>1. wire' = Append(wire, f)
      BY <1>6, SenderSteps DEF SP!Transmit
    <3>2. f.index = chunk_index
      BY DEF SP!FrameSent
    <3>3. wire \in Seq(SP!Frame)
      BY DEF TInv, SP!IInv, SP!TypeOK, SP!Frame
    <3> HIDE DEF f
    <3>4. QED
      BY <3>1, <3>2, <3>3
  <2>2. chunk_index \notin SentIndices
    BY <1>6, NewIndex DEF OInv
  <2>3. \A p \in 1 .. Len(wire') : p \in 1 .. Len(wire) \/ p = Len(wire) + 1
    BY <1>1, <2>1
  <2>4. \A p \in 1 .. Len(wire) : wire[p].index # chunk_index
    BY <2>2 DEF SentIndices
  <2>5. WireOnce'
    BY <1>1, <2>1, <2>3, <2>4 DEF OInv, WireOnce
  <2>6. UNCHANGED <<pc, start_index, end_index, first>>
    BY <1>6 DEF S!Transmit
  <2>7. RangeIsNew'
    BY <1>1, <1>4, <2>6 DEF OInv, RangeIsNew
  <2>8. StillToCome'
    <3>1. SUFFICES ASSUME NEW p \in pending'
                   PROVE  /\ wire'[p].index >= need_index
                          /\ \A j \in 1 .. Len(chain) :
                                 chain[j].index # wire'[p].index
      BY <1>3 DEF StillToCome
    <3>2. CASE p \in pending
      <4>1. wire'[p] = wire[p]
        BY <1>1, <3>2 DEF TInv, PendingOnWire
      <4>2. QED
        BY <3>2, <4>1 DEF OInv, StillToCome
    <3>3. CASE p = Len(wire) + 1
      <4>1. /\ chunk_index \in Nat /\ need_index \in Nat
        BY ContentOfFile, SenderConstants
           DEF TInv, SP!IInv, SP!TypeOK, RP!IInv, RP!TypeOK
      <4>2. chunk_index \notin 0 .. need_index - 1
        BY <2>2 DEF OInv, CameOverWire
      <4>3. \A j \in 1 .. Len(chain) : chain[j].index # chunk_index
        BY <2>2 DEF OInv, CameOverWire
      <4>4. QED
        BY <2>1, <3>3, <4>1, <4>2, <4>3
    <3>4. p \in pending \/ p = Len(wire) + 1
      BY <1>0, <1>1, <2>1
    <3>5. QED
      BY <3>2, <3>3, <3>4
  <2>9. QED
    BY <1>5, <2>5, <2>7, <2>8 DEF OInv
<1>7. CASE wire' = wire
  <2>1. pending' = pending
    BY <1>0, <1>1, <1>7
  <2>2. WireOnce' /\ StillToCome'
    BY <1>3, <1>7, <2>1 DEF OInv, WireOnce, StillToCome
  <2>3. RangeIsNew'
    <3>1. CASE S!Start
      <4>1. first' = Len(wire) /\ pc = "idle" /\ pc' = "loop"
        BY <3>1 DEF S!Start
      <4>2. start_index' .. end_index' \cap SentIndices = {}
        BY <4>1 DEF SenderStep
      <4>3. QED
        BY <1>7, <4>1, <4>2 DEF RangeIsNew, SentIndices
    <3>2. CASE UNCHANGED <<pc, start_index, end_index, first>> \/ pc' = "idle"
      BY <1>7, <3>2 DEF OInv, RangeIsNew
    <3>3. S!StartFails => pc' = "idle"
      BY DEF S!StartFails
    <3>4. QED
      BY <1>0, <1>7, <3>1, <3>2, <3>3 DEF S!Next, S!EndOfFile, S!Skip,
         S!PastEnd, S!Transmit, S!SendFails
  <2>4. QED
    BY <1>5, <2>2, <2>3 DEF OInv
<1>8. S!Transmit \/ wire' = wire
  BY <1>0 DEF S!Next, S!Start, S!StartFails, S!EndOfFile, S!Skip, S!PastEnd,
     S!SendFails
<1>9. QED
  BY <1>6, <1>7, <1>8

\* Some node of the list has this index.
Has(ch, i) == \E j \in 1 .. Len(ch) : ch[j].index = i

\* The receiver's variables, and a frame that is handed to write_data.
LEMMA ReceiverTypes ==
    ASSUME RP!IInv
    PROVE  /\ chain \in Seq(RP!Nodes) /\ Len(chain) \in Nat
           /\ need_index \in Nat
           /\ \A j \in 1 .. Len(chain) : chain[j].index \in Nat
<1>1. chain \in Seq(RP!Nodes) /\ Len(chain) \in Nat /\ need_index \in Nat
  BY ContentOfFile DEF RP!IInv, RP!TypeOK
<1>2. ASSUME NEW j \in 1 .. Len(chain)
      PROVE  chain[j].index \in Nat
  <2>1. chain[j] \in RP!Nodes
    BY <1>1
  <2>2. QED
    BY <2>1, ContentOfFile DEF RP!Nodes, RP!Indices
<1>3. QED
  BY <1>1, <1>2

\* An index that is not in the list takes its place in it.
LEMMA HoldOnce ==
    ASSUME RP!IInv, HeldAhead, HeldOnce, NEW f \in LinkFrames, RP!Hold(f),
           ~Has(chain, f.index)
    PROVE  /\ HeldAhead' /\ HeldOnce' /\ need_index' = need_index
           /\ f.index > need_index
           /\ \A j \in 1 .. Len(chain') :
                  chain'[j].index = f.index \/ Has(chain, chain'[j].index)
<1>0. /\ chain \in Seq(RP!Nodes) /\ Len(chain) \in Nat /\ need_index \in Nat
      /\ \A j \in 1 .. Len(chain) : chain[j].index \in Nat
  BY ReceiverTypes
<1> DEFINE n == RP!Node(f)
<1>1. n \in RP!Nodes /\ n.index = f.index /\ f.index \in Nat
  BY LinkIsSound, RP!HandedFrame, ContentOfFile
     DEF RP!Hold, RP!Node, RP!Indices
<1>2. PICK k \in 0 .. Len(chain) :
          /\ RP!IsSlot(chain, f.index, k)
          /\ chain' = RP!InsertAt(chain, k + 1, n)
  BY DEF RP!Hold
<1>3. need_index' = need_index /\ f.index > need_index
  BY DEF RP!Hold
<1> HIDE DEF n
<1>4. /\ Len(chain') = Len(chain) + 1
      /\ \A i \in 1 .. k : chain'[i] = chain[i]
      /\ chain'[k + 1] = n
      /\ \A i \in k + 2 .. Len(chain) + 1 : chain'[i] = chain[i - 1]
  <2> DEFINE t == RP!InsertAt(chain, k + 1, n)
  <2>1. Len(t) = Len(chain) + 1
    BY <1>0, <1>1, LinkIsSound, RP!InsertAtProperties, SMTT(60)
  <2>2. \A i \in 1 .. k : t[i] = chain[i]
    BY <1>0, <1>1, LinkIsSound, RP!InsertAtProperties, SMTT(60)
  <2>3. t[k + 1] = n
    BY <1>0, <1>1, LinkIsSound, RP!InsertAtProperties, SMTT(60)
  <2>4. \A i \in k + 2 .. Len(chain) + 1 : t[i] = chain[i - 1]
    BY <1>0, <1>1, LinkIsSound, RP!InsertAtProperties, SMTT(60)
  <2>5. chain' = t
    BY <1>2
  <2> HIDE DEF t
  <2>6. QED
    BY <2>1, <2>2, <2>3, <2>4, <2>5
<1>5. /\ \A i \in 1 .. k : chain[i].index < f.index
      /\ \A i \in k + 1 .. Len(chain) : f.index < chain[i].index
  <2>1. /\ \A i \in 1 .. k : chain[i].index <= f.index
        /\ k < Len(chain) => f.index < chain[k + 1].index
    BY <1>2 DEF RP!IsSlot
  <2>2. ASSUME NEW i \in 1 .. k
        PROVE  chain[i].index < f.index
    <3>1. i \in 1 .. Len(chain)
      BY <1>0
    <3>2. chain[i].index # f.index
      BY <3>1 DEF Has
    <3>3. QED
      BY <1>0, <1>1, <2>1, <3>1, <3>2
  <2>3. ASSUME NEW i \in k + 1 .. Len(chain)
        PROVE  f.index < chain[i].index
    <3>1. k < Len(chain) /\ k + 1 \in 1 .. Len(chain) /\ i \in 1 .. Len(chain)
      BY <1>0
    <3>2. i = k + 1 \/ k + 1 < i
      BY <1>0
    <3>3. chain[k + 1].index <= chain[i].index
      BY <1>0, <3>1, <3>2 DEF HeldOnce
    <3>4. QED
      BY <1>0, <1>1, <2>1, <3>1, <3>3
  <2>4. QED
    BY <2>2, <2>3
\* Where position i of the new list was.
<1>6. \A i \in 1 .. Len(chain') :
          \/ i \in 1 .. k /\ chain'[i] = chain[i]
          \/ i = k + 1 /\ chain'[i] = n
          \/ i - 1 \in k + 1 .. Len(chain) /\ chain'[i] = chain[i - 1]
  <2>1. ASSUME NEW i \in 1 .. Len(chain')
        PROVE  \/ i \in 1 .. k
               \/ i = k + 1
               \/ i - 1 \in k + 1 .. Len(chain) /\ i \in k + 2 .. Len(chain) + 1
    BY <1>0, <1>4
  <2>2. QED
    BY <2>1, <1>4
<1>7. ASSUME NEW j \in 1 .. Len(chain')
      PROVE  /\ chain'[j].index > need_index'
             /\ chain'[j].index = f.index \/ Has(chain, chain'[j].index)
  <2>1. CASE \E m \in 1 .. Len(chain) : chain'[j] = chain[m]
    BY <1>3, <2>1 DEF HeldAhead, Has
  <2>2. CASE chain'[j] = n
    BY <1>1, <1>3, <2>2
  <2>3. QED
    BY <1>0, <1>6, <2>1, <2>2
<1>8. ASSUME NEW i \in 1 .. Len(chain'), NEW j \in 1 .. Len(chain'), i < j
      PROVE  chain'[i].index < chain'[j].index
  <2>1. CASE i \in 1 .. k /\ chain'[i] = chain[i]
    <3>1. CASE j \in 1 .. k /\ chain'[j] = chain[j]
      BY <1>0, <1>8, <2>1, <3>1 DEF HeldOnce
    <3>2. CASE j = k + 1 /\ chain'[j] = n
      BY <1>1, <1>5, <2>1, <3>2
    <3>3. CASE j - 1 \in k + 1 .. Len(chain) /\ chain'[j] = chain[j - 1]
      <4>1. i < j - 1 /\ i \in 1 .. Len(chain) /\ j - 1 \in 1 .. Len(chain)
        BY <1>0, <2>1, <3>3
      <4>2. QED
        BY <2>1, <3>3, <4>1 DEF HeldOnce
    <3>4. QED
      BY <1>6, <3>1, <3>2, <3>3
  <2>2. CASE i = k + 1 /\ chain'[i] = n
    <3>1. j - 1 \in k + 1 .. Len(chain) /\ chain'[j] = chain[j - 1]
      BY <1>0, <1>6, <1>8, <2>2
    <3>2. QED
      BY <1>1, <1>5, <2>2, <3>1
  <2>3. CASE i - 1 \in k + 1 .. Len(chain) /\ chain'[i] = chain[i - 1]
    <3>1. j - 1 \in k + 1 .. Len(chain) /\ chain'[j] = chain[j - 1]
      BY <1>0, <1>6, <1>8, <2>3
    <3>2. i - 1 < j - 1 /\ i - 1 \in 1 .. Len(chain) /\ j - 1 \in 1 .. Len(chain)
      BY <1>0, <1>8, <2>3, <3>1
    <3>3. QED
      BY <2>3, <3>1, <3>2 DEF HeldOnce
  <2>4. QED
    BY <1>6, <2>1, <2>2, <2>3
<1>9. HeldAhead' /\ HeldOnce'
  BY <1>7, <1>8 DEF HeldAhead, HeldOnce
<1>10. QED
  BY <1>3, <1>7, <1>9

\* The needed chunk takes with it the whole run behind it, and leaves a list
\* that begins beyond the next needed one.
LEMMA SaveOnce ==
    ASSUME RP!IInv, HeldAhead, HeldOnce, NEW f \in LinkFrames, RP!Save(f)
    PROVE  /\ HeldAhead' /\ HeldOnce'
           /\ need_index' \in Nat /\ need_index' > need_index
           /\ f.index = need_index
           /\ \A i \in need_index + 1 .. need_index' - 1 : Has(chain, i)
           /\ ~Has(chain, need_index')
           /\ \A j \in 1 .. Len(chain') : Has(chain, chain'[j].index)
<1> DEFINE pushed == <<RP!Node(f)>> \o chain
           N == Len(pushed)
<1>0. /\ chain \in Seq(RP!Nodes) /\ Len(chain) \in Nat /\ need_index \in Nat
      /\ \A j \in 1 .. Len(chain) : chain[j].index \in Nat
  BY ReceiverTypes
<1>1. /\ RP!Node(f) \in RP!Nodes /\ RP!Node(f).index = f.index
      /\ f.index = need_index
  BY LinkIsSound, RP!HandedFrame DEF RP!Save, RP!Node
<1>2. PICK k \in 1 .. N :
          /\ RP!IsRun(pushed, need_index, k)
          /\ need_index' = need_index + k
          /\ chain' = SubSeq(pushed, k + 1, Len(pushed))
  BY DEF RP!Save
<1>3. /\ pushed \in Seq(RP!Nodes) /\ N = Len(chain) + 1
      /\ pushed[1] = RP!Node(f)
      /\ \A i \in 1 .. Len(chain) : pushed[i + 1] = chain[i]
  BY <1>0, <1>1, LinkIsSound, RP!PushProperties
<1> HIDE DEF pushed
<1>4. \A i \in 2 .. N : i - 1 \in 1 .. Len(chain) /\ pushed[i] = chain[i - 1]
  BY <1>0, <1>3
<1>5. ASSUME NEW i \in 1 .. N
      PROVE  pushed[i].index \in Nat
  <2>1. CASE i = 1
    BY <1>0, <1>1, <1>3, <2>1
  <2>2. CASE i # 1
    <3>1. i \in 2 .. N
      BY <1>0, <1>3, <2>2
    <3>2. QED
      BY <1>0, <1>4, <3>1
  <2>3. QED
    BY <2>1, <2>2
<1>6. ASSUME NEW i \in 1 .. N, NEW j \in 1 .. N, i < j
      PROVE  pushed[i].index < pushed[j].index
  <2>1. j - 1 \in 1 .. Len(chain) /\ pushed[j] = chain[j - 1]
    BY <1>0, <1>3, <1>4, <1>6
  <2>2. CASE i = 1
    BY <1>0, <1>1, <1>3, <2>1, <2>2 DEF HeldAhead
  <2>3. CASE i # 1
    <3>1. i - 1 \in 1 .. Len(chain) /\ pushed[i] = chain[i - 1] /\ i - 1 < j - 1
      BY <1>0, <1>3, <1>4, <1>6, <2>3
    <3>2. QED
      BY <2>1, <3>1 DEF HeldOnce
  <2>4. QED
    BY <2>2, <2>3
<1>7. /\ Len(chain') = N - k
      /\ \A i \in 1 .. N - k : chain'[i] = pushed[k + i]
  <2>1. k + 1 \in 1 .. N + 1 /\ N \in Nat
    BY <1>0, <1>3
  <2> DEFINE rest == SubSeq(pushed, k + 1, N)
  <2>2. Len(rest) = N - k
    BY <2>1, <1>3, SubSeqProperties
  <2>3. \A i \in 1 .. N - k : rest[i] = pushed[k + i]
    BY <2>1, <1>3, SubSeqProperties
  <2>4. chain' = rest
    BY <1>2
  <2>5. QED
    BY <2>2, <2>3, <2>4, Zenon
<1>8. /\ \A j \in 1 .. k : pushed[j].index = need_index + j - 1
      /\ k < N => pushed[k + 1].index # need_index + k
  BY <1>2 DEF RP!IsRun
<1>9. ASSUME NEW i \in k + 1 .. N
      PROVE  pushed[i].index > need_index + k
  <2>1. k \in 1 .. N /\ k < i /\ i \in 1 .. N /\ k + 1 \in 1 .. N /\ k < N
    BY <1>0, <1>3
  <2>2. pushed[k].index = need_index + k - 1 /\ pushed[k].index < pushed[k + 1].index
    BY <1>6, <1>8, <2>1
  <2>3. pushed[k + 1].index > need_index + k
    <3>1. pushed[k + 1].index \in Nat /\ pushed[k + 1].index # need_index + k
      BY <1>5, <1>8, <2>1
    <3>2. k \in Nat /\ need_index + k - 1 < pushed[k + 1].index
      BY <2>1, <2>2
    <3>3. QED
      BY <1>0, <3>1, <3>2
  <2>4. i = k + 1 \/ pushed[k + 1].index < pushed[i].index
    BY <1>6, <2>1
  <2>5. QED
    BY <1>0, <1>5, <2>1, <2>3, <2>4
<1>10. \A i \in 1 .. N - k : k + i \in k + 1 .. N /\ k + i \in 2 .. N
  BY <1>0, <1>3
<1>11. HeldAhead'
  BY <1>2, <1>7, <1>9, <1>10 DEF HeldAhead
<1>12. HeldOnce'
  <2>1. ASSUME NEW i \in 1 .. Len(chain'), NEW j \in 1 .. Len(chain'), i < j
        PROVE  chain'[i].index < chain'[j].index
    <3>1. k + i \in 1 .. N /\ k + j \in 1 .. N /\ k + i < k + j
      BY <1>0, <1>3, <1>7, <2>1
    <3>2. QED
      BY <1>6, <1>7, <3>1
  <2>2. QED
    BY <2>1 DEF HeldOnce
<1>13. need_index' \in Nat /\ need_index' > need_index
  BY <1>0, <1>2, <1>3
<1>14. ASSUME NEW i \in need_index + 1 .. need_index' - 1
       PROVE  Has(chain, i)
  <2> DEFINE j == i - need_index + 1
  <2>1. j \in 1 .. k /\ j \in 2 .. N /\ need_index + j - 1 = i
    BY <1>0, <1>2, <1>3, SMTT(30)
  <2>2. pushed[j].index = i /\ j - 1 \in 1 .. Len(chain) /\ pushed[j] = chain[j - 1]
    BY <1>4, <1>8, <2>1
  <2>3. QED
    BY <2>2 DEF Has
<1>15. ~Has(chain, need_index')
  <2>1. SUFFICES ASSUME NEW m \in 1 .. Len(chain), chain[m].index = need_index'
                 PROVE  FALSE
    BY DEF Has
  <2>2. pushed[m + 1].index = need_index + k /\ m + 1 \in 1 .. N
    BY <1>0, <1>2, <1>3, <2>1
  <2>3. CASE m + 1 <= k
    <3>1. m + 1 \in 1 .. k
      BY <1>0, <2>3
    <3>2. pushed[m + 1].index = need_index + (m + 1) - 1
      BY <1>8, <3>1
    <3>3. QED
      BY <1>0, <1>3, <2>2, <2>3, <3>2
  <2>4. CASE m + 1 > k
    <3>1. m + 1 \in k + 1 .. N
      BY <1>0, <1>3, <2>2, <2>4
    <3>2. QED
      BY <1>0, <1>3, <1>9, <2>2, <3>1
  <2>5. QED
    BY <1>0, <1>3, <2>3, <2>4
<1>16. \A j \in 1 .. Len(chain') : Has(chain, chain'[j].index)
  BY <1>4, <1>7, <1>10 DEF Has
<1>17. QED
  BY <1>1, <1>11, <1>12, <1>13, <1>14, <1>15, <1>16

\* What a delivery may do on such a link: leave the receiver as it is, hold
\* an index that is not in the list, or save the needed one.
LEMMA FreshDelivery ==
    ASSUME ~Duplicates, MaxOpenFailures = 0, TInv, OInv, Deliver
    PROVE  \E p \in pending :
               /\ pending' = pending \ {p}
               /\ \/ UNCHANGED <<need_index, chain, recived_file, base>>
                  \/ /\ RP!Hold(wire[p]) \/ RP!Save(wire[p])
                     /\ wire[p] \in LinkFrames
                     /\ wire[p].index >= need_index
                     /\ ~Has(chain, wire[p].index)
<1>1. PICK p \in pending :
          /\ \/ R!Receive(wire[p])
             \/ \E f \in DamagedForms(wire[p]) : R!Receive(f)
          /\ pending' = pending \ {p}
  BY DEF Deliver
<1>2. /\ wire[p].index \in 0 .. S!NumChunks - 1
      /\ wire[p] = Sound(wire[p].index) /\ wire[p] \in LinkFrames
  BY DeliversLinkFrames DEF TInv, WireSound, PendingOnWire
<1>3. PICK f \in LinkFrames : RP!Receive(f) /\ (RP!Verifies(f) => f = wire[p])
  <2>1. CASE R!Receive(wire[p])
    BY <1>2, <2>1, ReceiverSteps
  <2>2. ASSUME NEW f \in DamagedForms(wire[p]), R!Receive(f)
        PROVE  \E g \in LinkFrames : RP!Receive(g) /\ (RP!Verifies(g) => g = wire[p])
    <3>1. f \in LinkFrames
      BY DeliversLinkFrames DEF TInv
    <3>2. RP!Verifies(f) => f = wire[p]
      BY <1>2, DamageShows
    <3>3. QED
      BY <2>2, <3>1, <3>2, ReceiverSteps
  <2>3. QED
    BY <1>1, <2>1, <2>2
<1>4. wire[p].index >= need_index /\ ~Has(chain, wire[p].index)
  BY DEF OInv, StillToCome, Has
<1>5. CASE RP!ReceiveOther(f) \/ RP!ReceiveDamaged(f) \/ RP!DropWhenFull(f)
  <2>1. UNCHANGED <<need_index, chain, recived_file, base>>
    BY <1>5 DEF RP!ReceiveOther, RP!ReceiveDamaged, RP!DropWhenFull, RP!vars
  <2>2. QED
    BY <1>1, <2>1
<1>6. CASE RP!KeepStale(f)
  <2>1. f = wire[p] /\ f.index < need_index
    BY <1>3, <1>6 DEF RP!KeepStale, RP!Handed
  <2>2. f.index \in Nat /\ need_index \in Nat
    BY <1>2, <2>1, ContentOfFile, ReceiverTypes DEF TInv
  <2>3. QED
    BY <1>4, <2>1, <2>2
<1>7. CASE RP!OpenFails(f)
  <2>1. open_failures < 0 /\ open_failures \in 0 .. 0
    BY <1>7 DEF RP!OpenFails, TInv, RP!IInv, RP!TypeOK
  <2>2. QED
    BY <2>1
<1>8. CASE RP!Hold(f) \/ RP!Save(f)
  <2>1. f = wire[p]
    BY <1>3, <1>8 DEF RP!Hold, RP!Save, RP!Handed
  <2>2. QED
    BY <1>1, <1>2, <1>4, <1>8, <2>1
<1>9. QED
  BY <1>3, <1>5, <1>6, <1>7, <1>8 DEF RP!Receive

\* Below, at and above a number.
LEMMA Thirds ==
    ASSUME NEW a \in Nat, NEW b \in Nat
    PROVE  /\ \A i \in 0 .. b - 1 :
                  i \in 0 .. a - 1 \/ i = a \/ i \in a + 1 .. b - 1
           /\ \A x \in Nat : x > a /\ x \notin a + 1 .. b - 1 => x >= b
OBVIOUS

LEMMA ODeliver ==
    ASSUME ~Duplicates, MaxOpenFailures = 0, TInv, OInv, Deliver
    PROVE  OInv'
<1>1. PICK p \in pending :
          /\ pending' = pending \ {p}
          /\ \/ UNCHANGED <<need_index, chain, recived_file, base>>
             \/ /\ RP!Hold(wire[p]) \/ RP!Save(wire[p])
                /\ wire[p] \in LinkFrames
                /\ wire[p].index >= need_index
                /\ ~Has(chain, wire[p].index)
  BY FreshDelivery
<1>2. UNCHANGED <<wire, pc, start_index, end_index, first>>
  BY DEF Deliver, senderVars
<1>3. WireOnce' /\ RangeIsNew' /\ SentIndices' = SentIndices
  BY <1>2 DEF OInv, WireOnce, RangeIsNew, SentIndices
<1>4. p \in 1 .. Len(wire) /\ wire[p].index \in SentIndices
      /\ \A q \in pending' : /\ q \in pending /\ wire'[q] = wire[q]
                             /\ wire[q].index # wire[p].index
  BY <1>1, <1>2 DEF TInv, PendingOnWire, OInv, WireOnce, SentIndices
<1>5. /\ need_index \in Nat
      /\ \A i \in 0 .. need_index - 1 : i \in SentIndices
      /\ \A i : Has(chain, i) => i \in SentIndices
      /\ \A q \in pending : /\ wire[q].index \in Nat
                            /\ wire[q].index >= need_index
                            /\ ~Has(chain, wire[q].index)
  <2>1. \A q \in pending : wire[q].index \in Nat
    BY ContentOfFile DEF TInv, WireSound, PendingOnWire
  <2>2. QED
    BY <2>1, ReceiverTypes DEF TInv, OInv, CameOverWire, StillToCome, Has
<1>6. CASE UNCHANGED <<need_index, chain, recived_file, base>>
  <2>1. HeldAhead' /\ HeldOnce' /\ CameOverWire' /\ StillToCome'
    BY <1>3, <1>4, <1>6 DEF OInv, HeldAhead, HeldOnce, CameOverWire, StillToCome
  <2>2. QED
    BY <1>3, <2>1 DEF OInv
<1>7. CASE RP!Hold(wire[p]) /\ wire[p] \in LinkFrames /\ ~Has(chain, wire[p].index)
  <2>1. /\ HeldAhead' /\ HeldOnce' /\ need_index' = need_index
        /\ \A j \in 1 .. Len(chain') :
               chain'[j].index = wire[p].index \/ Has(chain, chain'[j].index)
    BY <1>7, HoldOnce DEF TInv, OInv
  <2>2. CameOverWire'
    BY <1>3, <1>4, <1>5, <2>1 DEF CameOverWire
  <2>3. StillToCome'
    BY <1>4, <1>5, <2>1 DEF StillToCome
  <2>4. QED
    BY <1>3, <2>1, <2>2, <2>3 DEF OInv
<1>8. CASE RP!Save(wire[p]) /\ wire[p] \in LinkFrames
  <2>1. /\ HeldAhead' /\ HeldOnce'
        /\ need_index' \in Nat /\ need_index' > need_index
        /\ wire[p].index = need_index
        /\ \A i \in need_index + 1 .. need_index' - 1 : Has(chain, i)
        /\ \A j \in 1 .. Len(chain') : Has(chain, chain'[j].index)
    BY <1>8, SaveOnce DEF TInv, OInv
  <2>2. CameOverWire'
    <3>1. ASSUME NEW i \in 0 .. need_index' - 1
          PROVE  i \in SentIndices
      <4>1. \/ i \in 0 .. need_index - 1
            \/ i = need_index
            \/ i \in need_index + 1 .. need_index' - 1
        <5>1. need_index \in Nat /\ need_index' \in Nat
          BY <1>5, <2>1
        <5>2. QED
          BY <5>1, Thirds
      <4>2. QED
        BY <1>4, <1>5, <2>1, <4>1
    <3>2. QED
      BY <1>3, <1>5, <2>1, <3>1 DEF CameOverWire
  <2>3. StillToCome'
    <3>1. ASSUME NEW q \in pending'
          PROVE  /\ wire'[q].index >= need_index'
                 /\ \A j \in 1 .. Len(chain') : chain'[j].index # wire'[q].index
      <4> DEFINE x == wire[q].index
      <4>1. /\ wire'[q] = wire[q] /\ x # need_index /\ x \in Nat
            /\ x >= need_index /\ ~Has(chain, x)
        BY <1>4, <1>5, <2>1
      <4> HIDE DEF x
      <4>2. x \notin need_index + 1 .. need_index' - 1
        BY <2>1, <4>1
      <4>3. x >= need_index'
        <5>1. /\ need_index \in Nat /\ need_index' \in Nat
              /\ x \in Nat /\ x > need_index
          BY <1>5, <2>1, <4>1
        <5>2. QED
          BY <4>2, <5>1, Thirds
      <4>4. \A j \in 1 .. Len(chain') : chain'[j].index # x
        BY <2>1, <4>1
      <4>5. QED
        BY <4>1, <4>3, <4>4 DEF x
    <3>2. QED
      BY <3>1 DEF StillToCome
  <2>4. QED
    BY <1>3, <2>1, <2>2, <2>3 DEF OInv
<1>9. QED
  BY <1>1, <1>6, <1>7, <1>8

LEMMA OStep ==
    ASSUME ~Duplicates, ~Reruns, MaxOpenFailures = 0, TInv, OInv, [Next]_vars
    PROVE  OInv'
<1>1. CASE UNCHANGED vars
  BY <1>1 DEF vars, senderVars, receiverVars, OInv, WireOnce, RangeIsNew,
     HeldAhead, HeldOnce, CameOverWire, StillToCome, SentIndices
<1>2. CASE ReceiverRestart
  <2>1. need_index' = 0 /\ chain' = <<>>
    BY <1>2 DEF ReceiverRestart, R!Restart
  <2>2. UNCHANGED <<wire, pc, start_index, end_index, first, pending>>
    BY <1>2 DEF ReceiverRestart, senderVars
  <2>3. \A p \in pending : wire[p].index \in Nat
    BY ContentOfFile DEF TInv, WireSound, PendingOnWire
  <2>4. StillToCome'
    BY <2>1, <2>2, <2>3 DEF StillToCome
  <2>5. QED
    BY <2>1, <2>2, <2>4 DEF OInv, WireOnce, RangeIsNew, HeldAhead, HeldOnce,
       CameOverWire, SentIndices
<1>3. QED
  BY <1>1, <1>2, OSender, ODeliver DEF Next

-----------------------------------------------------------------------------
(***************************************************************************)
(* The ideal buffer.  The steps of the receiver are those of its           *)
(* refinement; what is added is that the needed chunk is never held.       *)
(***************************************************************************)
LEMMA SameView ==
    /\ R!HeldIndices = RP!HeldIndices /\ R!Output = RP!Output
    /\ R!HeldIndices' = RP!HeldIndices' /\ R!Output' = RP!Output'
BY DEF R!HeldIndices, RP!HeldIndices, R!Output, RP!Output, R!Indices, RP!Indices

LEMMA IdealHold ==
    ASSUME TInv, OInv, NEW f \in LinkFrames, RP!Hold(f), ~Has(chain, f.index)
    PROVE  R!Ideal!Keep
<1>1. RP!Buffer!Keep
  BY LinkIsSound, RP!HoldKeeps DEF TInv
<1>2. HeldAhead' /\ need_index' = need_index /\ need_index \in Nat
  BY HoldOnce, ReceiverTypes DEF TInv, OInv
<1>3. PICK i \in need_index .. Len(S!Content) - 1 :
          RP!HeldIndices' = RP!HeldIndices \cup {i}
  BY <1>1 DEF RP!Buffer!Keep
<1>4. i > need_index
  <2>1. i \in RP!HeldIndices'
    BY <1>3
  <2>2. PICK j \in 1 .. Len(chain') : chain'[j].index = i
    BY <2>1 DEF RP!HeldIndices
  <2>3. QED
    BY <1>2, <2>2 DEF HeldAhead
<1>5. UNCHANGED <<need_index, RP!Output>>
  BY <1>1 DEF RP!Buffer!Keep
<1>6. QED
  BY <1>3, <1>4, <1>5, SameView DEF R!Ideal!Keep

LEMMA IdealSave ==
    ASSUME TInv, OInv, NEW f \in LinkFrames, RP!Save(f), lost_writes' = 0
    PROVE  R!Ideal!Deliver
<1>1. RP!Buffer!Deliver
  BY LinkIsSound, RP!SaveDelivers DEF TInv
<1>2. ~Has(chain, need_index')
  BY SaveOnce DEF TInv, OInv
<1>3. PICK n \in need_index + 1 .. Len(S!Content) :
          /\ \A i \in need_index + 1 .. n - 1 : i \in RP!HeldIndices
          /\ need_index' = n
          /\ RP!HeldIndices' = {i \in RP!HeldIndices : i >= n}
          /\ RP!Output' = SubSeq(S!Content, 1, n)
  BY <1>1 DEF RP!Buffer!Deliver
<1>4. n \notin RP!HeldIndices
  BY <1>2, <1>3 DEF RP!HeldIndices, Has
<1>5. QED
  BY <1>3, <1>4, SameView DEF R!Ideal!Deliver

\* If nothing is sent twice or delivered twice, no fopen fails and the disk
\* takes every chunk, the receiver is the buffer of its documentation: when
\* the needed chunk comes, all that is held and follows without a gap goes
\* out with it.  Frames may still be lost, reordered and damaged, and recv
\* started again.
THEOREM IdealBuffer ==
    ASSUME ~Duplicates, ~Reruns, MaxOpenFailures = 0, MaxLostWrites = 0
    PROVE  Spec => IsIdealBuffer
<1> DEFINE LInv == TInv /\ OInv /\ lost_writes = 0
<1>1. Init => LInv
  BY TInit, OInit DEF Init, R!Init
<1>2. LInv /\ [Next]_vars => LInv'
  <2>1. SUFFICES ASSUME LInv, [Next]_vars PROVE LInv'
    OBVIOUS
  <2>2. lost_writes' = 0
    BY <2>1, ReceiverSees, LinkIsSound, RP!LossFree DEF TInv
  <2>3. QED
    BY <2>1, <2>2, TStep, OStep
<1>3. Init => R!Ideal!Init
  <2>1. SUFFICES ASSUME Init PROVE R!Ideal!Init
    OBVIOUS
  <2>2. need_index = 0 /\ chain = <<>> /\ recived_file = <<>> /\ base = 0
    BY <2>1 DEF Init, R!Init
  <2>3. R!HeldIndices = {}
    BY <2>2 DEF R!HeldIndices
  <2>4. R!Output = <<>>
    BY <2>2 DEF R!Output
  <2>5. QED
    BY <2>2, <2>3, <2>4 DEF R!Ideal!Init
<1>4. LInv /\ LInv' /\ [Next]_vars => [R!Ideal!Next]_(R!Ideal!vars)
  <2>1. SUFFICES ASSUME LInv, LInv', [Next]_vars
                 PROVE  [R!Ideal!Next]_(R!Ideal!vars)
    OBVIOUS
  <2>2. CASE UNCHANGED <<need_index, chain, recived_file, base>>
    BY <2>2 DEF R!Ideal!vars, R!HeldIndices, R!Output, R!Indices
  <2>3. CASE Deliver
    <3>1. PICK p \in pending :
              \/ UNCHANGED <<need_index, chain, recived_file, base>>
              \/ /\ RP!Hold(wire[p]) \/ RP!Save(wire[p])
                 /\ wire[p] \in LinkFrames
                 /\ ~Has(chain, wire[p].index)
      BY <2>1, <2>3, FreshDelivery
    <3>2. QED
      BY <2>1, <2>2, <3>1, IdealHold, IdealSave DEF R!Ideal!Next
  <2>4. CASE ReceiverRestart
    <3>1. need_index' = 0 /\ chain' = <<>>
      BY <2>4 DEF ReceiverRestart, R!Restart
    <3>2. R!HeldIndices' = {}
      BY <3>1 DEF R!HeldIndices
    <3>3. R!Output' = <<>>
      <4>1. R!Output' = SubSeq(S!Content, 1, 0)
        BY <2>1, <3>1 DEF TInv, RP!IInv, RP!FileIsPrefix, R!Output
      <4>2. SubSeq(S!Content, 1, 0) = <<>>
        BY ContentOfFile, SubSeqEmpty
      <4>3. QED
        BY <4>1, <4>2
    <3>4. QED
      BY <3>1, <3>2, <3>3 DEF R!Ideal!Next, R!Ideal!Restart
  <2>5. CASE SenderStep \/ UNCHANGED vars
    BY <2>2, <2>5 DEF SenderStep, vars, receiverVars
  <2>6. QED
    BY <2>1, <2>3, <2>4, <2>5 DEF Next
<1>5. QED
  BY <1>1, <1>2, <1>3, <1>4, PTL
     DEF Spec, IsIdealBuffer, R!IsIdealBuffer, R!Ideal!Spec
-----------------------------------------------------------------------------
(***************************************************************************)
(* What was sent is with the receiver.  Numbered from 1, the saved indices *)
(* and behind them those of the list (Arrived) are as many different       *)
(* numbers as there are frames on the wire, whose indices differ too: so   *)
(* they are all of them, and the needed index, which is none of them, was  *)
(* never sent.                                                             *)
(***************************************************************************)
Arrived ==
    [x \in 1 .. need_index + Len(chain) |->
        IF x <= need_index THEN x - 1 ELSE chain[x - need_index].index]

LEMMA ArrivedOnce ==
    ASSUME TInv, OInv
    PROVE  /\ Arrived \in Injection(1 .. need_index + Len(chain), SentIndices)
           /\ \A x \in 1 .. need_index + Len(chain) : Arrived[x] # need_index
<1>1. /\ need_index \in Nat /\ Len(chain) \in Nat
      /\ \A j \in 1 .. Len(chain) : chain[j].index \in Nat
  BY ReceiverTypes DEF TInv
<1> DEFINE D == 1 .. need_index + Len(chain)
<1>2. \A x \in D :
          \/ x <= need_index /\ Arrived[x] = x - 1
          \/ /\ x > need_index /\ x - need_index \in 1 .. Len(chain)
             /\ Arrived[x] = chain[x - need_index].index
  BY <1>1 DEF Arrived
<1>3. ASSUME NEW x \in D
      PROVE  /\ Arrived[x] \in SentIndices
             /\ x <= need_index => Arrived[x] < need_index
             /\ x > need_index => Arrived[x] > need_index
             /\ Arrived[x] \in Nat
  <2>1. CASE x <= need_index
    <3>1. Arrived[x] = x - 1 /\ x - 1 \in 0 .. need_index - 1
      BY <1>1, <1>2, <2>1
    <3>2. QED
      BY <1>1, <2>1, <3>1 DEF OInv, CameOverWire
  <2>2. CASE x > need_index
    <3>1. PICK j \in 1 .. Len(chain) : Arrived[x] = chain[j].index
      BY <1>1, <1>2, <2>2
    <3>2. chain[j].index \in SentIndices /\ chain[j].index > need_index
      BY DEF OInv, CameOverWire, HeldAhead
    <3>3. QED
      BY <1>1, <2>2, <3>1, <3>2
  <2>3. x <= need_index \/ x > need_index
    BY <1>1
  <2>4. QED
    BY <2>1, <2>2, <2>3
<1>4. ASSUME NEW x \in D, NEW y \in D, x < y
      PROVE  Arrived[x] # Arrived[y]
  <2>1. CASE x <= need_index /\ y <= need_index
    BY <1>1, <1>2, <1>4, <2>1
  <2>2. CASE x <= need_index /\ y > need_index
    BY <1>1, <1>3, <2>2
  <2>3. CASE x > need_index /\ y > need_index
    <3> DEFINE i == x - need_index
               j == y - need_index
    <3>1. /\ i \in 1 .. Len(chain) /\ j \in 1 .. Len(chain) /\ i < j
          /\ Arrived[x] = chain[i].index /\ Arrived[y] = chain[j].index
      BY <1>1, <1>2, <1>4, <2>3
    <3> HIDE DEF i, j
    <3>2. chain[i].index < chain[j].index
      BY <3>1 DEF OInv, HeldOnce
    <3>3. QED
      BY <1>1, <3>1, <3>2
  <2>4. QED
    BY <1>1, <1>4, <2>1, <2>2, <2>3
<1>5. \A x, y \in D : x # y => Arrived[x] # Arrived[y]
  <2>1. \A x, y \in D : x # y => x < y \/ y < x
    BY <1>1
  <2>2. QED
    BY <1>4, <2>1
<1>6. Arrived \in [D -> SentIndices]
  BY <1>3 DEF Arrived
<1>7. QED
  BY <1>1, <1>3, <1>5, <1>6 DEF Injection, IsInjective

LEMMA AllArrived ==
    ASSUME TInv, OInv, Len(wire) = need_index + Len(chain)
    PROVE  need_index = FirstMissing
<1>1. need_index \in 0 .. S!NumChunks /\ S!NumChunks \in Nat
  BY ContentOfFile DEF TInv, RP!IInv, RP!TypeOK
<1>2. Len(wire) \in Nat
  BY SenderConstants DEF TInv, SP!IInv, SP!TypeOK
<1> DEFINE D == 1 .. Len(wire)
           sent == [p \in D |-> wire[p].index]
<1>3. IsFiniteSet(D)
  BY <1>2, FS_Interval
<1>4. sent \in Bijection(D, SentIndices)
  <2>1. sent \in Injection(D, SentIndices)
    BY DEF OInv, WireOnce, SentIndices, Injection, IsInjective
  <2>2. sent \in Surjection(D, SentIndices)
    BY DEF SentIndices, Surjection
  <2>3. QED
    BY <2>1, <2>2 DEF Bijection
<1>5. IsFiniteSet(SentIndices) /\ Cardinality(SentIndices) = Cardinality(D)
  <2>1. ExistsBijection(D, SentIndices)
    BY <1>4 DEF ExistsBijection
  <2>2. QED
    BY <1>3, <2>1, FS_Bijection
<1>6. Arrived \in Surjection(D, SentIndices)
  <2>1. Arrived \in Injection(D, SentIndices)
    BY ArrivedOnce
  <2>2. QED
    BY <1>5, <2>1, FS_Injection
<1>7. need_index \notin SentIndices
  <2>1. \A i \in SentIndices : \E x \in D : Arrived[x] = i
    BY <1>6 DEF Surjection
  <2>2. \A x \in D : Arrived[x] # need_index
    BY ArrivedOnce
  <2>3. QED
    BY <2>1, <2>2
<1>8. \A j \in 0 .. need_index - 1 : j \in SentIndices
  BY DEF OInv, CameOverWire
<1>9. ASSUME NEW i \in 0 .. S!NumChunks, i \notin SentIndices,
             \A j \in 0 .. i - 1 : j \in SentIndices
      PROVE  i = need_index
  <2>1. i < need_index => i \in 0 .. need_index - 1
    BY <1>1
  <2>2. need_index < i => need_index \in 0 .. i - 1
    BY <1>1
  <2>3. ~ (i < need_index) /\ ~ (need_index < i)
    BY <1>7, <1>8, <1>9, <2>1, <2>2
  <2>4. QED
    BY <1>1, <2>3
<1>10. QED
  BY <1>1, <1>7, <1>8, <1>9 DEF FirstMissing

\* If nothing is sent or delivered twice and no fopen fails, nothing the
\* receiver was given is forgotten: once the link is empty and what was sent
\* is saved or held, need_index is the first chunk that was not sent.  Runs
\* of send in any order, loss, damage, a full disk and new starts of recv
\* are all included.
THEOREM NothingLeft ==
    ASSUME ~Duplicates, ~Reruns, MaxOpenFailures = 0
    PROVE  Spec => []NothingLeftBehind
<1>1. Init => TInv /\ OInv
  BY TInit, OInit
<1>2. TInv /\ OInv /\ [Next]_vars => TInv' /\ OInv'
  BY TStep, OStep
<1>3. TInv /\ OInv => NothingLeftBehind
  BY AllArrived DEF NothingLeftBehind
<1>4. QED
  BY <1>1, <1>2, <1>3, PTL DEF Spec
=============================================================================
