------------------------- MODULE PacketRecv_proofs --------------------------
(***************************************************************************)
(* The invariants of the receiver, for every file, every set of frames and *)
(* every value of the bounds.                                              *)
(*                                                                         *)
(* None of them is inductive alone.  FileIsPrefix needs that the nodes     *)
(* carry the chunks their indices name (Genuine); StuckOnlyBehindStale     *)
(* needs AheadIsSorted and that the head is not the needed chunk while     *)
(* every fopen has succeeded (HeadNotNeeded); BufferBound needs that the   *)
(* counter is the length of the list.                                      *)
(***************************************************************************)
EXTENDS PacketRecv, SequenceTheorems, TLAPS

Genuine == \A i \in 1 .. Len(chain) : chain[i].data = Chunk(chain[i].index)

HeadNotNeeded ==
    open_failures = 0 => chain = <<>> \/ chain[1].index # need_index

IInv ==
    /\ TypeOK
    /\ LengthMatches
    /\ BufferBound
    /\ Genuine
    /\ FileIsPrefix
    /\ AheadIsSorted
    /\ HeadNotNeeded

-----------------------------------------------------------------------------
(***************************************************************************)
(* Lemmas on the two list operations of write_data.                        *)
(***************************************************************************)

\* Concatenation, position by position.
LEMMA ConcatPositions ==
    ASSUME NEW S, NEW a \in Seq(S), NEW b \in Seq(S)
    PROVE  /\ a \o b \in Seq(S)
           /\ Len(a \o b) = Len(a) + Len(b)
           /\ \A i \in 1 .. Len(a) : (a \o b)[i] = a[i]
           /\ \A i \in Len(a) + 1 .. Len(a) + Len(b) :
                  (a \o b)[i] = b[i - Len(a)]
<1>1. Len(a) \in Nat /\ Len(b) \in Nat
  OBVIOUS
<1>2. \A i \in 1 .. Len(a) + Len(b) : (a \o b)[i] =
          IF i <= Len(a) THEN a[i] ELSE b[i - Len(a)]
  BY ConcatProperties
<1>3. a \o b \in Seq(S) /\ Len(a \o b) = Len(a) + Len(b)
  BY ConcatProperties
<1>4. ASSUME NEW i \in 1 .. Len(a)
      PROVE  (a \o b)[i] = a[i]
  BY <1>1, <1>2
<1>5. ASSUME NEW i \in Len(a) + 1 .. Len(a) + Len(b)
      PROVE  (a \o b)[i] = b[i - Len(a)]
  BY <1>1, <1>2
<1>6. QED
  BY <1>3, <1>4, <1>5

\* A sequence is a prefix of itself and of what it is extended to.
LEMMA PrefixOfConcat ==
    ASSUME NEW S, NEW a \in Seq(S), NEW b \in Seq(S)
    PROVE  IsPrefix(a, a \o b)
<1>1. /\ a \o b \in Seq(S) /\ Len(a \o b) = Len(a) + Len(b)
      /\ \A i \in 1 .. Len(a) : (a \o b)[i] = a[i]
  BY ConcatPositions
<1> DEFINE c == a \o b
<1> HIDE DEF c
<1>2. /\ c \in Seq(S) /\ Len(c) = Len(a) + Len(b)
      /\ \A i \in 1 .. Len(a) : c[i] = a[i]
  BY <1>1 DEF c
<1>3. Len(a) \in Nat /\ Len(b) \in Nat
  OBVIOUS
<1>4. SubSeq(a, 1, Len(a)) = a
  OBVIOUS
<1>5. SubSeq(c, 1, Len(a)) = a
  <2> DEFINE l == SubSeq(c, 1, Len(a))
  <2>1. l \in Seq(S)
    BY <1>2, <1>3, SubSeqProperties
  <2>2. Len(l) = Len(a)
    BY <1>2, <1>3, SubSeqProperties
  <2>3. \A i \in 1 .. Len(a) : l[i] = a[i]
    BY <1>2, <1>3, SubSeqProperties
  <2> HIDE DEF l
  <2>4. l = a
    BY <2>1, <2>2, <2>3, SeqEqual
  <2>5. QED
    BY <2>4 DEF l
<1>6. IsPrefix(a, c)
  BY <1>2, <1>3, <1>4, <1>5 DEF IsPrefix
<1>7. QED
  BY <1>6 DEF c

\* Pushing at the head of the list: length and positions.
LEMMA PushProperties ==
    ASSUME NEW S, NEW s \in Seq(S), NEW e \in S
    PROVE  /\ <<e>> \o s \in Seq(S)
           /\ Len(<<e>> \o s) = Len(s) + 1
           /\ (<<e>> \o s)[1] = e
           /\ \A i \in 1 .. Len(s) : (<<e>> \o s)[i + 1] = s[i]
<1>1. <<e>> \in Seq(S) /\ Len(<<e>>) = 1 /\ <<e>>[1] = e
  OBVIOUS
<1>2. Len(<<e>> \o s) = Len(s) + 1 /\ <<e>> \o s \in Seq(S)
  BY <1>1
<1>3. ASSUME NEW i \in 1 .. Len(s)
      PROVE  (<<e>> \o s)[i + 1] = s[i]
  BY <1>1
<1>4. QED
  BY <1>1, <1>2, <1>3

\* InsertAt(s, k + 1, e) puts e behind the first k elements and keeps the
\* others in their order.
LEMMA InsertAtProperties ==
    ASSUME NEW S, NEW s \in Seq(S), NEW e \in S, NEW k \in 0 .. Len(s)
    PROVE  /\ InsertAt(s, k + 1, e) \in Seq(S)
           /\ Len(InsertAt(s, k + 1, e)) = Len(s) + 1
           /\ \A i \in 1 .. k : InsertAt(s, k + 1, e)[i] = s[i]
           /\ InsertAt(s, k + 1, e)[k + 1] = e
           /\ \A i \in k + 2 .. Len(s) + 1 :
                  InsertAt(s, k + 1, e)[i] = s[i - 1]
<1> DEFINE front == SubSeq(s, 1, k)
           back  == SubSeq(s, k + 1, Len(s))
           t     == front \o <<e>>
<1>0. (k + 1) - 1 = k
  OBVIOUS
<1>1. InsertAt(s, k + 1, e) = t \o back
  BY <1>0, Zenon DEF InsertAt
<1>2. /\ front \in Seq(S) /\ Len(front) = k
      /\ \A i \in 1 .. k : front[i] = s[i]
  BY SubSeqProperties
<1>3. /\ back \in Seq(S) /\ Len(back) = Len(s) - k
      /\ \A i \in 1 .. Len(s) - k : back[i] = s[k + i]
  BY SubSeqProperties
<1>4. /\ t \in Seq(S) /\ Len(t) = k + 1
      /\ \A i \in 1 .. k : t[i] = s[i]
      /\ t[k + 1] = e
  BY <1>2
<1> HIDE DEF front, back, t
<1>5. /\ t \o back \in Seq(S) /\ Len(t \o back) = Len(t) + Len(back)
      /\ \A i \in 1 .. Len(t) : (t \o back)[i] = t[i]
      /\ \A i \in Len(t) + 1 .. Len(t) + Len(back) :
             (t \o back)[i] = back[i - Len(t)]
  BY <1>3, <1>4, ConcatPositions, ZenonT(30)
<1>6. ASSUME NEW i \in k + 2 .. Len(s) + 1
      PROVE  InsertAt(s, k + 1, e)[i] = s[i - 1]
  <2>1. /\ i \in Len(t) + 1 .. Len(t) + Len(back)
        /\ i - Len(t) \in 1 .. Len(s) - k
        /\ k + (i - Len(t)) = i - 1
    BY <1>3, <1>4
  <2>2. QED
    BY <1>1, <1>3, <1>5, <2>1
<1>7. ASSUME NEW i \in 1 .. k
      PROVE  InsertAt(s, k + 1, e)[i] = s[i]
  BY <1>1, <1>4, <1>5
<1>8. /\ InsertAt(s, k + 1, e) \in Seq(S)
      /\ Len(InsertAt(s, k + 1, e)) = Len(s) + 1
      /\ InsertAt(s, k + 1, e)[k + 1] = e
  <2>1. k + 1 \in 1 .. Len(t)
    BY <1>4
  <2>2. Len(t) + Len(back) = Len(s) + 1
    BY <1>3, <1>4
  <2>3. QED
    BY <1>1, <1>4, <1>5, <2>1, <2>2, Zenon
<1>9. QED
  BY <1>6, <1>7, <1>8
-----------------------------------------------------------------------------
\* What a frame that is handed to write_data carries.
LEMMA HandedFrame ==
    ASSUME NEW f \in Frames, Handed(f)
    PROVE  f.index \in Indices /\ f.data = Chunk(f.index) /\ Node(f) \in Nodes
<1>1. f.index \in Indices /\ f.data = Chunk(f.index)
  BY PacketRecvAssumption DEF Handed
<1>2. Chunk(f.index) \in Chunks
  BY <1>1, PacketRecvAssumption DEF Indices, Chunk
<1>3. QED
  BY <1>1, <1>2 DEF Node, Nodes

\* The invariant holds at the start.
LEMMA InitInv == Init => IInv
<1>1. SUFFICES ASSUME Init PROVE IInv
  OBVIOUS
<1>2. Len(Content) \in Nat /\ MaxHeld \in Nat /\ MaxOpenFailures \in Nat
      /\ MaxRestarts \in Nat
  BY PacketRecvAssumption
<1>3. SubSeq(Content, 1, 0) = <<>> /\ SubSeq(recived_file, 1, 0) = <<>>
  BY <1>1, PacketRecvAssumption DEF Init
<1>4. TypeOK
  BY <1>1, <1>2 DEF Init, TypeOK
<1>5. FileIsPrefix
  BY <1>1, <1>3 DEF Init, FileIsPrefix
<1>6. LengthMatches /\ BufferBound /\ Genuine /\ AheadIsSorted /\ HeadNotNeeded
  BY <1>1, <1>2 DEF Init, LengthMatches, BufferBound, Genuine, AheadIsSorted,
       HeadNotNeeded
<1>7. QED
  BY <1>4, <1>5, <1>6 DEF IInv

\* A node pushed at the head: of a chunk that is not ahead of need_index.
LEMMA PushInv ==
    ASSUME NEW f \in Frames, Handed(f), IInv,
           chain' = <<Node(f)>> \o chain,
           now_length' = now_length + 1,
           f.index <= need_index,
           UNCHANGED need_index
    PROVE  /\ chain' \in Seq(Nodes)
           /\ chain' # <<>> /\ chain'[1] = Node(f)
           /\ Len(chain') = Len(chain) + 1
           /\ LengthMatches'
           /\ Genuine'
           /\ AheadIsSorted'
<1> USE DEF IInv, TypeOK
<1>1. Node(f) \in Nodes /\ f.data = Chunk(f.index) /\ f.index \in Indices
  BY HandedFrame
<1>2. /\ chain' \in Seq(Nodes)
      /\ Len(chain') = Len(chain) + 1
      /\ chain'[1] = Node(f)
      /\ \A i \in 1 .. Len(chain) : chain'[i + 1] = chain[i]
  BY <1>1, PushProperties
<1>3. \A i \in 2 .. Len(chain') :
          i - 1 \in 1 .. Len(chain) /\ chain'[i] = chain[i - 1]
  BY <1>2
<1>4. Node(f).index = f.index /\ Node(f).data = f.data
  BY DEF Node
<1>5. LengthMatches'
  BY <1>2 DEF LengthMatches
<1>6. Genuine'
  <2>1. SUFFICES ASSUME NEW i \in 1 .. Len(chain')
                 PROVE  chain'[i].data = Chunk(chain'[i].index)
    BY DEF Genuine, Chunk
  <2>2. CASE i = 1
    BY <2>2, <1>1, <1>2, <1>4
  <2>3. CASE i # 1
    BY <2>3, <1>2, <1>3 DEF Genuine
  <2>4. QED
    BY <2>2, <2>3
<1>7. AheadIsSorted'
  <2>1. SUFFICES ASSUME NEW i \in 1 .. Len(chain'), NEW j \in 1 .. Len(chain'),
                        i < j, chain'[i].index > need_index
                 PROVE  chain'[i].index <= chain'[j].index
    BY DEF AheadIsSorted
  <2>2. CASE i = 1
    BY <2>1, <2>2, <1>1, <1>2, <1>4 DEF Indices
  <2>3. CASE i # 1
    BY <2>1, <2>3, <1>2, <1>3, SMTT(30) DEF AheadIsSorted
  <2>4. QED
    BY <2>2, <2>3
<1>8. QED
  BY <1>2, <1>5, <1>6, <1>7
\* A chunk already saved leaves a node at the head.
LEMMA KeepStaleInv ==
    ASSUME NEW f \in Frames, IInv, KeepStale(f)
    PROVE  IInv'
<1>1. /\ chain' \in Seq(Nodes)
      /\ chain' # <<>> /\ chain'[1] = Node(f)
      /\ Len(chain') = Len(chain) + 1
      /\ LengthMatches' /\ Genuine' /\ AheadIsSorted'
  <2>1. f.index \in Nat /\ need_index \in Nat
    BY HandedFrame, PacketRecvAssumption
       DEF KeepStale, Indices, IInv, TypeOK
  <2>2. QED
    BY <2>1, PushInv DEF KeepStale
<1>2. TypeOK' /\ FileIsPrefix'
  BY <1>1 DEF IInv, TypeOK, FileIsPrefix, KeepStale
<1>3. BufferBound'
  BY <1>1, PacketRecvAssumption
     DEF IInv, TypeOK, LengthMatches, BufferBound, KeepStale, Full
<1>4. HeadNotNeeded'
  BY <1>1, HandedFrame DEF HeadNotNeeded, KeepStale, Node, IInv, TypeOK, Indices
<1>5. QED
  BY <1>1, <1>2, <1>3, <1>4 DEF IInv

\* A failed fopen leaves the needed chunk at the head, and is counted.
LEMMA OpenFailsInv ==
    ASSUME NEW f \in Frames, IInv, OpenFails(f)
    PROVE  IInv'
<1>1. /\ chain' \in Seq(Nodes)
      /\ Len(chain') = Len(chain) + 1
      /\ LengthMatches' /\ Genuine' /\ AheadIsSorted'
  <2>1. f.index \in Nat /\ need_index \in Nat
    BY HandedFrame, PacketRecvAssumption
       DEF OpenFails, Indices, IInv, TypeOK
  <2>2. QED
    BY <2>1, PushInv DEF OpenFails
<1>2. open_failures' = open_failures + 1 /\ open_failures' \in 1 .. MaxOpenFailures
  BY PacketRecvAssumption DEF OpenFails, IInv, TypeOK
<1>3. TypeOK' /\ FileIsPrefix'
  BY <1>1, <1>2 DEF IInv, TypeOK, FileIsPrefix, OpenFails
<1>4. BufferBound'
  BY <1>1, <1>2, PacketRecvAssumption DEF IInv, TypeOK, BufferBound
<1>5. HeadNotNeeded'
  BY <1>2 DEF HeadNotNeeded
<1>6. QED
  BY <1>1, <1>3, <1>4, <1>5 DEF IInv

\* A chunk ahead of need_index goes behind the nodes that are not larger and
\* before the first larger one, so what is ahead stays sorted.
LEMMA HoldInv ==
    ASSUME NEW f \in Frames, IInv, Hold(f)
    PROVE  IInv'
<1>0. /\ chain \in Seq(Nodes) /\ Len(chain) \in Nat
      /\ need_index \in Nat /\ need_index' = need_index
      /\ LengthMatches /\ BufferBound /\ Genuine /\ FileIsPrefix
      /\ AheadIsSorted /\ HeadNotNeeded
  BY PacketRecvAssumption DEF IInv, TypeOK, Hold
<1>1. /\ Node(f) \in Nodes /\ f.data = Chunk(f.index) /\ f.index \in Indices
      /\ Node(f).index = f.index /\ Node(f).data = f.data
  BY HandedFrame DEF Hold, Node
<1>2. PICK k \in 0 .. Len(chain) :
          IsSlot(chain, f.index, k) /\ chain' = InsertAt(chain, k + 1, Node(f))
  BY DEF Hold
<1>3. /\ chain' \in Seq(Nodes)
      /\ Len(chain') = Len(chain) + 1
      /\ \A i \in 1 .. k : chain'[i] = chain[i]
      /\ chain'[k + 1] = Node(f)
      /\ \A i \in k + 2 .. Len(chain) + 1 : chain'[i] = chain[i - 1]
  <2> DEFINE ins == InsertAt(chain, k + 1, Node(f))
  <2>1. ins \in Seq(Nodes) /\ Len(ins) = Len(chain) + 1
    BY <1>0, <1>1, InsertAtProperties
  <2>2. \A i \in 1 .. k : ins[i] = chain[i]
    BY <1>0, <1>1, InsertAtProperties
  <2>3. ins[k + 1] = Node(f)
    BY <1>0, <1>1, InsertAtProperties
  <2>4. \A i \in k + 2 .. Len(chain) + 1 : ins[i] = chain[i - 1]
    BY <1>0, <1>1, InsertAtProperties
  <2>5. chain' = ins
    BY <1>2
  <2>6. QED
    BY <2>1, <2>2, <2>3, <2>4, <2>5, Zenon
<1>4. \A i \in 1 .. Len(chain') : chain'[i].index \in Nat
  <2>1. SUFFICES ASSUME NEW i \in 1 .. Len(chain')
                 PROVE  chain'[i].index \in Nat
    OBVIOUS
  <2>2. chain'[i] \in Nodes
    BY <1>3, ElementOfSeq
  <2>3. QED
    BY <2>2 DEF Nodes, Indices
<1>5. \A i \in 1 .. Len(chain) : chain[i].index \in Nat
  <2>1. SUFFICES ASSUME NEW i \in 1 .. Len(chain)
                 PROVE  chain[i].index \in Nat
    OBVIOUS
  <2>2. chain[i] \in Nodes
    BY <1>0, ElementOfSeq
  <2>3. QED
    BY <2>2 DEF Nodes, Indices
<1>6. f.index \in Nat /\ f.index > need_index
  BY <1>1 DEF Hold, Indices
<1>7. \A i \in k + 1 .. Len(chain) : chain[i].index > f.index
  <2>1. SUFFICES ASSUME NEW i \in k + 1 .. Len(chain)
                 PROVE  chain[i].index > f.index
    OBVIOUS
  <2>2. chain[k + 1].index > f.index
    BY <1>0, <1>2, <1>5, <1>6 DEF IsSlot
  <2>3. chain[k + 1].index <= chain[i].index
    <3>1. k + 1 \in 1 .. Len(chain) /\ i \in 1 .. Len(chain)
      BY <1>0
    <3>2. chain[k + 1].index > need_index
      BY <2>2, <3>1, <1>0, <1>5, <1>6
    <3>3. CASE i = k + 1
      BY <3>1, <3>3, <1>5
    <3>4. CASE k + 1 < i
      BY <3>1, <3>2, <3>4, <1>0 DEF AheadIsSorted
    <3>5. QED
      BY <3>3, <3>4
  <2>4. QED
    BY <2>2, <2>3, <1>5, <1>6
<1>8. AheadIsSorted'
  <2>1. SUFFICES ASSUME NEW i \in 1 .. Len(chain'), NEW j \in 1 .. Len(chain'),
                        i < j, chain'[i].index > need_index
                 PROVE  chain'[i].index <= chain'[j].index
    BY <1>0 DEF AheadIsSorted
  <2>2. CASE j <= k
    <3>1. /\ i \in 1 .. Len(chain) /\ chain'[i] = chain[i]
          /\ j \in 1 .. Len(chain) /\ chain'[j] = chain[j]
      BY <2>1, <2>2, <1>0, <1>3
    <3>2. QED
      BY <3>1, <2>1, <1>0 DEF AheadIsSorted
  <2>3. CASE j = k + 1
    <3>1. i \in 1 .. k /\ chain'[i] = chain[i]
      BY <2>1, <2>3, <1>3
    <3>2. QED
      BY <3>1, <2>3, <1>1, <1>2, <1>3 DEF IsSlot
  <2>4. CASE j > k + 1 /\ i = k + 1
    <3>1. j - 1 \in k + 1 .. Len(chain) /\ chain'[j] = chain[j - 1]
      BY <2>4, <1>0, <1>3
    <3>2. QED
      BY <3>1, <2>4, <1>0, <1>1, <1>3, <1>5, <1>6, <1>7
  <2>5. CASE j > k + 1 /\ i <= k
    <3>1. j - 1 \in k + 1 .. Len(chain) /\ chain'[j] = chain[j - 1]
          /\ i \in 1 .. Len(chain) /\ chain'[i] = chain[i]
      BY <2>5, <1>0, <1>3
    <3>2. QED
      BY <3>1, <2>1, <2>5, <1>0 DEF AheadIsSorted
  <2>6. CASE j > k + 1 /\ i > k + 1
    <3>1. /\ j - 1 \in 1 .. Len(chain) /\ chain'[j] = chain[j - 1]
          /\ i - 1 \in 1 .. Len(chain) /\ chain'[i] = chain[i - 1]
          /\ i - 1 < j - 1
      BY <2>1, <2>6, <1>0, <1>3
    <3>2. QED
      BY <3>1, <2>1, <1>0 DEF AheadIsSorted
  <2>7. QED
    BY <2>2, <2>3, <2>4, <2>5, <2>6
<1>9. Genuine'
  <2>1. SUFFICES ASSUME NEW i \in 1 .. Len(chain')
                 PROVE  chain'[i].data = Chunk(chain'[i].index)
    BY DEF Genuine, Chunk
  <2>2. CASE i <= k
    <3>1. i \in 1 .. Len(chain) /\ chain'[i] = chain[i]
      BY <2>2, <1>0, <1>3
    <3>2. QED
      BY <3>1, <1>0 DEF Genuine
  <2>3. CASE i = k + 1
    BY <2>3, <1>1, <1>3
  <2>4. CASE i > k + 1
    <3>1. i - 1 \in 1 .. Len(chain) /\ chain'[i] = chain[i - 1]
      BY <2>4, <1>0, <1>3
    <3>2. QED
      BY <3>1, <1>0 DEF Genuine
  <2>5. QED
    BY <2>2, <2>3, <2>4
<1>10. LengthMatches' /\ BufferBound'
  BY <1>0, <1>3, PacketRecvAssumption, SMTT(30)
     DEF Hold, IInv, TypeOK, Full, LengthMatches, BufferBound
<1>11. HeadNotNeeded'
  <2>1. CASE k = 0
    BY <2>1, <1>0, <1>1, <1>3, <1>6 DEF HeadNotNeeded
  <2>2. CASE k > 0
    BY <2>2, <1>0, <1>3 DEF HeadNotNeeded, Hold
  <2>3. QED
    BY <2>1, <2>2
<1>12. TypeOK' /\ FileIsPrefix'
  BY <1>0, <1>3, SMTT(30) DEF Hold, FileIsPrefix, IInv, TypeOK
<1>13. QED
  BY <1>3, <1>8, <1>9, <1>10, <1>11, <1>12 DEF IInv

\* FileIsPrefix, position by position.
LEMMA PrefixByPosition ==
    ASSUME NEW file \in Seq(Chunks), NEW b \in 0 .. Len(file),
           NEW n \in 0 .. Len(Content)
    PROVE  SubSeq(file, b + 1, Len(file)) = SubSeq(Content, 1, n)
           <=> /\ Len(file) = b + n
               /\ \A i \in 1 .. n : file[b + i] = Content[i]
<1> DEFINE l == SubSeq(file, b + 1, Len(file))
           r == SubSeq(Content, 1, n)
<1>0. /\ Content \in Seq(Chunks) /\ Len(file) \in Nat
      /\ b \in Nat /\ n \in Nat
  BY PacketRecvAssumption
<1>1. /\ l \in Seq(Chunks) /\ Len(l) = Len(file) - b
      /\ \A i \in 1 .. Len(file) - b : l[i] = file[b + i]
  BY SubSeqProperties
<1>2. /\ r \in Seq(Chunks) /\ Len(r) = n
      /\ \A i \in 1 .. n : r[i] = Content[i]
  BY <1>0, SubSeqProperties
<1> HIDE DEF l, r
<1>3. ASSUME l = r
      PROVE  Len(file) = b + n /\ \A i \in 1 .. n : file[b + i] = Content[i]
  <2>1. Len(file) = b + n
    <3>1. Len(file) - b = n
      BY <1>1, <1>2, <1>3
    <3>2. QED
      BY <3>1, <1>0
  <2>2. ASSUME NEW i \in 1 .. n
        PROVE  file[b + i] = Content[i]
    BY <1>1, <1>2, <1>3, <2>1
  <2>3. QED
    BY <2>1, <2>2
<1>4. ASSUME Len(file) = b + n, \A i \in 1 .. n : file[b + i] = Content[i]
      PROVE  l = r
  <2>1. Len(l) = n /\ Len(file) - b = n
    BY <1>0, <1>1, <1>4
  <2>2. ASSUME NEW i \in 1 .. n
        PROVE  l[i] = r[i]
    BY <1>1, <1>2, <1>4, <2>1
  <2>3. QED
    BY <1>1, <1>2, <2>1, <2>2, SeqEqual
<1>5. QED
  BY <1>3, <1>4 DEF l, r

\* The needed chunk and the run behind it: what is written continues the
\* file, and what is left of the list does not start with the needed chunk.
LEMMA SaveInv ==
    ASSUME NEW f \in Frames, IInv, Save(f)
    PROVE  IInv'
<1> DEFINE pushed == <<Node(f)>> \o chain
           N == Len(pushed)
<1>0. /\ chain \in Seq(Nodes) /\ Len(chain) \in Nat
      /\ need_index \in Nat /\ need_index \in 0 .. Len(Content)
      /\ now_length \in Nat /\ recived_file \in Seq(Chunks)
      /\ Len(recived_file) \in Nat
      /\ open_failures \in 0 .. MaxOpenFailures /\ lost_writes \in Nat
      /\ restarts \in 0 .. MaxRestarts
      /\ base \in Nat /\ base \in 0 .. Len(recived_file)
      /\ LengthMatches /\ BufferBound /\ Genuine /\ FileIsPrefix
      /\ AheadIsSorted /\ HeadNotNeeded
      /\ MaxOpenFailures \in Nat /\ MaxHeld \in Nat /\ Len(Content) \in Nat
  BY PacketRecvAssumption DEF IInv, TypeOK
<1>1. /\ Node(f) \in Nodes /\ f.data = Chunk(f.index) /\ f.index \in Indices
      /\ Node(f).index = f.index /\ Node(f).data = f.data
      /\ f.index = need_index
  BY HandedFrame DEF Save, Node
<1>2. PICK k \in 1 .. N :
          /\ IsRun(pushed, need_index, k)
          /\ \E w \in 0 .. k :
               /\ lost_writes + k - w <= MaxLostWrites \/ w = k
               /\ recived_file' = recived_file \o [j \in 1 .. w |-> pushed[j].data]
               /\ lost_writes' = lost_writes + (k - w)
          /\ need_index' = need_index + k
          /\ now_length' = now_length + 1 - k
          /\ chain' = SubSeq(pushed, k + 1, Len(pushed))
  BY DEF Save
<1>3. PICK w \in 0 .. k :
          /\ recived_file' = recived_file \o [j \in 1 .. w |-> pushed[j].data]
          /\ lost_writes' = lost_writes + (k - w)
  BY <1>2
<1>4. open_failures' = open_failures /\ restarts' = restarts /\ base' = base
  BY DEF Save
<1>5. /\ pushed \in Seq(Nodes) /\ N = Len(chain) + 1
      /\ pushed[1] = Node(f)
      /\ \A i \in 1 .. Len(chain) : pushed[i + 1] = chain[i]
  <2>1. pushed \in Seq(Nodes) /\ N = Len(chain) + 1
    BY <1>0, <1>1, PushProperties
  <2>2. pushed[1] = Node(f)
    BY <1>0, <1>1, PushProperties
  <2>3. \A i \in 1 .. Len(chain) : pushed[i + 1] = chain[i]
    BY <1>0, <1>1, PushProperties
  <2>4. QED
    BY <2>1, <2>2, <2>3
<1> HIDE DEF pushed
<1>6. \A i \in 2 .. N : i - 1 \in 1 .. Len(chain) /\ pushed[i] = chain[i - 1]
  BY <1>0, <1>5
<1>7. ASSUME NEW i \in 1 .. N
      PROVE  /\ pushed[i].index \in Nat /\ pushed[i].index < Len(Content)
             /\ pushed[i].data \in Chunks
             /\ pushed[i].data = Chunk(pushed[i].index)
  <2>1. pushed[i] \in Nodes
    BY <1>5, ElementOfSeq
  <2>2. CASE i = 1
    BY <2>1, <2>2, <1>0, <1>1, <1>5 DEF Nodes, Indices
  <2>3. CASE i # 1
    <3>1. i - 1 \in 1 .. Len(chain) /\ pushed[i] = chain[i - 1]
      BY <2>3, <1>0, <1>5, <1>6
    <3>2. pushed[i].data = Chunk(pushed[i].index)
      BY <3>1, <1>0 DEF Genuine
    <3>3. QED
      BY <2>1, <3>2, <1>0 DEF Nodes, Indices
  <2>4. QED
    BY <2>2, <2>3
<1>8. ASSUME NEW i \in 1 .. N, NEW j \in 1 .. N, i < j,
             pushed[i].index > need_index
      PROVE  pushed[i].index <= pushed[j].index
  <2>1. i # 1
    BY <1>8, <1>0, <1>1, <1>5
  <2>2. /\ i - 1 \in 1 .. Len(chain) /\ pushed[i] = chain[i - 1]
        /\ j - 1 \in 1 .. Len(chain) /\ pushed[j] = chain[j - 1]
        /\ i - 1 < j - 1
    BY <2>1, <1>0, <1>5, <1>6, <1>8
  <2>3. QED
    BY <2>2, <1>8, <1>0 DEF AheadIsSorted
<1>9. /\ chain' \in Seq(Nodes) /\ Len(chain') = N - k
      /\ \A i \in 1 .. N - k : chain'[i] = pushed[k + i]
  <2>1. k + 1 \in 1 .. N + 1 /\ N \in Nat
    BY <1>0, <1>5
  <2> DEFINE rest == SubSeq(pushed, k + 1, N)
  <2>2. rest \in Seq(Nodes)
    BY <2>1, <1>5, SubSeqProperties
  <2>3. Len(rest) = N - k
    BY <2>1, <1>5, SubSeqProperties
  <2>4. \A i \in 1 .. N - k : rest[i] = pushed[k + i]
    BY <2>1, <1>5, SubSeqProperties
  <2>5. chain' = rest
    BY <1>2
  <2>6. QED
    BY <2>2, <2>3, <2>4, <2>5, Zenon
<1>10. \A j \in 1 .. k : pushed[j].index = need_index + j - 1
  BY <1>2 DEF IsRun
<1>11. need_index' \in 0 .. Len(Content) /\ need_index' = need_index + k
  <2>1. pushed[k].index = need_index + k - 1 /\ pushed[k].index < Len(Content)
    BY <1>7, <1>10
  <2>2. QED
    BY <2>1, <1>0, <1>2
<1>12. /\ recived_file' \in Seq(Chunks)
       /\ Len(recived_file') = Len(recived_file) + w
       /\ \A i \in 1 .. Len(recived_file) : recived_file'[i] = recived_file[i]
       /\ \A j \in 1 .. w :
              recived_file'[Len(recived_file) + j] = pushed[j].data
  <2> DEFINE out == [j \in 1 .. w |-> pushed[j].data]
  <2>1. out \in Seq(Chunks) /\ Len(out) = w
        /\ \A j \in 1 .. w : out[j] = pushed[j].data
    <3>1. w \in Nat /\ \A j \in 1 .. w : pushed[j].data \in Chunks
      BY <1>7, <1>5, <1>0
    <3>2. QED
      BY <3>1
  <2> HIDE DEF out
  <2>2. recived_file' = recived_file \o out
    BY <1>3 DEF out
  <2>3. \A j \in 1 .. w :
            /\ Len(recived_file) + j \in Len(recived_file) + 1 .. Len(recived_file) + Len(out)
            /\ Len(recived_file) + j - Len(recived_file) = j
    BY <2>1, <1>0
  <2>4. /\ recived_file' \in Seq(Chunks)
        /\ Len(recived_file') = Len(recived_file) + Len(out)
    BY <2>1, <2>2, <1>0, ConcatPositions
  <2>5. \A i \in 1 .. Len(recived_file) : recived_file'[i] = recived_file[i]
    BY <2>1, <2>2, <1>0, ConcatPositions
  <2>6. \A i \in Len(recived_file) + 1 .. Len(recived_file) + Len(out) :
            recived_file'[i] = out[i - Len(recived_file)]
    BY <2>1, <2>2, <1>0, ConcatPositions
  <2>7. ASSUME NEW j \in 1 .. w
        PROVE  recived_file'[Len(recived_file) + j] = pushed[j].data
    <3>1. recived_file'[Len(recived_file) + j] = out[j]
      BY <2>3, <2>6
    <3>2. QED
      BY <3>1, <2>1
  <2>8. QED
    BY <2>1, <2>4, <2>5, <2>7, Zenon
<1>13. TypeOK'
  <2>1. now_length' \in Nat /\ now_length' = now_length + 1 - k
    BY <1>0, <1>2, <1>5 DEF LengthMatches
  <2>2. lost_writes' \in Nat
    BY <1>0, <1>3
  <2>3. base' \in 0 .. Len(recived_file')
    BY <1>0, <1>4, <1>12
  <2>4. QED
    BY <2>1, <2>2, <2>3, <1>0, <1>4, <1>9, <1>11, <1>12 DEF TypeOK
<1>14. LengthMatches' /\ BufferBound'
  BY <1>0, <1>2, <1>4, <1>5, <1>9 DEF LengthMatches, BufferBound
<1>15. Genuine'
  <2>1. SUFFICES ASSUME NEW i \in 1 .. Len(chain')
                 PROVE  chain'[i].data = Chunk(chain'[i].index)
    BY DEF Genuine, Chunk
  <2>2. k + i \in 1 .. N /\ chain'[i] = pushed[k + i]
    BY <1>0, <1>5, <1>9
  <2>3. QED
    BY <2>2, <1>7
<1>16. FileIsPrefix'
  <2>1. SUFFICES ASSUME lost_writes' = 0
                 PROVE  SubSeq(recived_file', base' + 1, Len(recived_file'))
                            = SubSeq(Content, 1, need_index')
    BY DEF FileIsPrefix
  <2>2. w = k /\ lost_writes = 0
    BY <2>1, <1>0, <1>3
  <2>3. /\ Len(recived_file) = base + need_index
        /\ \A i \in 1 .. need_index : recived_file[base + i] = Content[i]
    BY <2>2, <1>0, PrefixByPosition DEF FileIsPrefix
  <2>4. Len(recived_file') = base' + need_index'
    BY <2>2, <2>3, <1>0, <1>4, <1>11, <1>12
  <2>5. ASSUME NEW i \in 1 .. need_index'
        PROVE  recived_file'[base' + i] = Content[i]
    <3>1. CASE i <= need_index
      <4>1. base + i \in 1 .. Len(recived_file)
        BY <3>1, <2>3, <1>0
      <4>2. QED
        BY <4>1, <3>1, <2>3, <1>0, <1>4, <1>12
    <3>2. CASE i > need_index
      <4> DEFINE j == i - need_index
      <4>1. /\ j \in 1 .. k /\ base' + i = Len(recived_file) + j
            /\ need_index + j - 1 + 1 = i
        BY <3>2, <2>3, <1>0, <1>4, <1>11
      <4>2. recived_file'[base' + i] = pushed[j].data
        BY <4>1, <2>2, <1>12
      <4>3. pushed[j].data = Chunk(pushed[j].index)
            /\ pushed[j].index = need_index + j - 1
        BY <4>1, <1>0, <1>5, <1>7, <1>10
      <4>4. QED
        BY <4>1, <4>2, <4>3 DEF Chunk
    <3>3. QED
      BY <3>1, <3>2, <1>0, <1>11
  <2>6. QED
    BY <2>4, <2>5, <1>11, <1>12, <1>13, PrefixByPosition DEF TypeOK
<1>17. AheadIsSorted'
  <2>1. SUFFICES ASSUME NEW i \in 1 .. Len(chain'), NEW j \in 1 .. Len(chain'),
                        i < j, chain'[i].index > need_index'
                 PROVE  chain'[i].index <= chain'[j].index
    BY DEF AheadIsSorted
  <2>2. /\ k + i \in 1 .. N /\ chain'[i] = pushed[k + i]
        /\ k + j \in 1 .. N /\ chain'[j] = pushed[k + j]
        /\ k + i < k + j
    BY <2>1, <1>0, <1>5, <1>9
  <2>3. pushed[k + i].index > need_index
    BY <2>1, <2>2, <1>0, <1>7, <1>11, SMTT(30)
  <2>4. QED
    BY <2>2, <2>3, <1>8
<1>18. HeadNotNeeded'
  <2>1. SUFFICES ASSUME chain' # <<>>
                 PROVE  chain'[1].index # need_index'
    BY DEF HeadNotNeeded
  <2>2. Len(chain') > 0
    BY <2>1, <1>9
  <2>3. k < N /\ chain'[1] = pushed[k + 1]
    <3>1. N - k > 0 /\ N \in Nat
      BY <2>2, <1>0, <1>5, <1>9
    <3>2. 1 \in 1 .. N - k
      BY <3>1
    <3>3. QED
      BY <3>1, <3>2, <1>9
  <2>4. QED
    BY <2>3, <1>2, <1>11 DEF IsRun
<1>19. QED
  BY <1>13, <1>14, <1>15, <1>16, <1>17, <1>18 DEF IInv

\* A new process starts with an empty list and takes the file as it is.
LEMMA RestartInv ==
    ASSUME IInv, Restart
    PROVE  IInv'
<1>1. /\ recived_file \in Seq(Chunks) /\ Len(recived_file) \in Nat
      /\ Len(Content) \in Nat /\ MaxHeld \in Nat
      /\ MaxOpenFailures \in Nat /\ MaxRestarts \in Nat
      /\ restarts \in 0 .. MaxRestarts
  BY PacketRecvAssumption DEF IInv, TypeOK
<1>2. TypeOK'
  BY <1>1 DEF Restart, TypeOK
<1>3. FileIsPrefix'
  <2>1. SubSeq(recived_file, Len(recived_file) + 1, Len(recived_file)) = <<>>
    BY <1>1
  <2>2. SubSeq(Content, 1, 0) = <<>>
    BY PacketRecvAssumption
  <2>3. QED
    BY <2>1, <2>2 DEF Restart, FileIsPrefix
<1>4. LengthMatches' /\ BufferBound' /\ Genuine' /\ AheadIsSorted' /\ HeadNotNeeded'
  BY <1>1 DEF Restart, LengthMatches, BufferBound, Genuine, AheadIsSorted,
       HeadNotNeeded
<1>5. QED
  BY <1>2, <1>3, <1>4 DEF IInv

\* A step that changes nothing keeps the invariant.
LEMMA StutterInv ==
    ASSUME IInv, UNCHANGED vars
    PROVE  IInv'
BY DEF IInv, vars, TypeOK, LengthMatches, BufferBound, Genuine, FileIsPrefix,
    AheadIsSorted, HeadNotNeeded, Chunk

\* Every callback keeps the invariant.
LEMMA ReceiveInv ==
    ASSUME NEW f \in Frames, IInv, Receive(f)
    PROVE  IInv'
<1>1. CASE ReceiveOther(f) \/ ReceiveDamaged(f) \/ DropWhenFull(f)
  BY <1>1, StutterInv DEF ReceiveOther, ReceiveDamaged, DropWhenFull
<1>2. CASE KeepStale(f)
  BY <1>2, KeepStaleInv
<1>3. CASE Hold(f)
  BY <1>3, HoldInv
<1>4. CASE OpenFails(f)
  BY <1>4, OpenFailsInv
<1>5. CASE Save(f)
  BY <1>5, SaveInv
<1>6. QED
  BY <1>1, <1>2, <1>3, <1>4, <1>5 DEF Receive

\* The inductive invariant, for every behaviour of the receiver.
THEOREM Invariance == Spec => []IInv
<1>1. Init => IInv
  BY InitInv
<1>2. IInv /\ [Next]_vars => IInv'
  BY ReceiveInv, RestartInv, StutterInv DEF Next
<1>3. QED
  BY <1>1, <1>2, PTL DEF Spec

-----------------------------------------------------------------------------
\* Type correctness: recv never writes past the end of the file being sent.
THEOREM TypeCorrect == Spec => []TypeOK
BY Invariance, PTL DEF IInv

\* Reassembly: with no lost write, what one run of recv writes is the first
\* need_index chunks of the file, whatever order, duplicates, drops and
\* failed opens it has seen.
THEOREM Reassembly == Spec => []FileIsPrefix
BY Invariance, PTL DEF IInv

\* The counter that write_data compares with 10 is the length of the list, and
\* the list exceeds that limit by no more than the number of failed opens.
THEOREM Bounded == Spec => [](LengthMatches /\ BufferBound)
BY Invariance, PTL DEF IInv

\* What is ahead of need_index is sorted at every moment.
THEOREM Sorted == Spec => []AheadIsSorted
BY Invariance, PTL DEF IInv

\* A held chunk that has become the needed one is stuck only behind a chunk
\* that arrived after it had been saved, or after a failed open.
THEOREM Stuck == Spec => []StuckOnlyBehindStale
<1>1. ASSUME IInv PROVE StuckOnlyBehindStale
  <2>1. SUFFICES ASSUME NEW i \in 1 .. Len(chain),
                        chain[i].index = need_index, ~(open_failures > 0)
                 PROVE  chain[1].index < need_index
    BY DEF StuckOnlyBehindStale
  <2>2. /\ chain \in Seq(Nodes) /\ Len(chain) \in Nat /\ need_index \in Nat
        /\ open_failures = 0 /\ AheadIsSorted /\ HeadNotNeeded
    BY <1>1, <2>1, PacketRecvAssumption DEF IInv, TypeOK
  <2>3. 1 \in 1 .. Len(chain) /\ chain[1] \in Nodes
    BY <2>2
  <2>4. chain[1].index \in Nat /\ chain[1].index # need_index
    BY <2>2, <2>3 DEF HeadNotNeeded, Nodes, Indices
  <2>5. ~(chain[1].index > need_index)
    <3>1. SUFFICES ASSUME chain[1].index > need_index PROVE FALSE
      OBVIOUS
    <3>2. 1 < i
      BY <2>1, <2>4
    <3>3. chain[1].index <= chain[i].index
      BY <2>2, <2>3, <3>1, <3>2 DEF AheadIsSorted
    <3>4. QED
      BY <2>1, <2>2, <2>4, <3>1, <3>3
  <2>6. QED
    BY <2>2, <2>4, <2>5
<1>2. QED
  BY <1>1, Invariance, PTL

\* What is on disk stays, and only the arrival of the needed chunk extends it.
THEOREM Append_only == Spec => FileOnlyGrows
<1>1. ASSUME IInv, [Next]_vars
      PROVE  [/\ IsPrefix(recived_file, recived_file')
              /\ recived_file' # recived_file => need_index' > need_index]_vars
  <2>0. recived_file \in Seq(Chunks) /\ need_index \in Nat
    BY <1>1, PacketRecvAssumption DEF IInv, TypeOK
  <2>1. CASE recived_file' = recived_file
    <3>1. IsPrefix(recived_file, recived_file)
      BY <2>0 DEF IsPrefix
    <3>2. QED
      BY <2>1, <3>1
  <2>2. ASSUME NEW f \in Frames, Save(f)
        PROVE  /\ IsPrefix(recived_file, recived_file')
               /\ need_index' > need_index
    <3> DEFINE pushed == <<Node(f)>> \o chain
    <3>1. PICK k \in 1 .. Len(pushed) :
              /\ \E w \in 0 .. k :
                   recived_file' = recived_file \o [j \in 1 .. w |-> pushed[j].data]
              /\ need_index' = need_index + k
      BY <2>2 DEF Save
    <3>2. PICK w \in 0 .. k :
              recived_file' = recived_file \o [j \in 1 .. w |-> pushed[j].data]
      BY <3>1
    <3> DEFINE out == [j \in 1 .. w |-> pushed[j].data]
               D == Chunks \cup {pushed[j].data : j \in 1 .. w}
    <3> HIDE DEF pushed
    <3>3. out \in Seq(D)
      <4>1. w \in Nat /\ \A j \in 1 .. w : pushed[j].data \in D
        OBVIOUS
      <4> HIDE DEF D
      <4>2. QED
        BY <4>1
    <3>4. recived_file \in Seq(D)
      BY <2>0
    <3> HIDE DEF out, D
    <3>5. recived_file' = recived_file \o out
      BY <3>2 DEF out
    <3>6. IsPrefix(recived_file, recived_file')
      BY <3>3, <3>4, <3>5, PrefixOfConcat
    <3>7. QED
      BY <3>1, <3>6, <2>0
  <2>3. CASE Next /\ recived_file' # recived_file
    BY <2>2, <2>3 DEF Next, Receive, ReceiveOther, ReceiveDamaged, DropWhenFull,
         KeepStale, Hold, OpenFails, Restart, vars
  <2>4. QED
    BY <1>1, <2>1, <2>3 DEF vars
<1>2. QED
  BY <1>1, Invariance, PTL DEF Spec, FileOnlyGrows

-----------------------------------------------------------------------------
(***************************************************************************)
(* The receiver implements the reordering buffer of ReorderBuffer, whatever*)
(* arrives and in whatever order, as long as the disk takes what is        *)
(* written: Save is a delivery, Hold and OpenFails keep a chunk, Restart   *)
(* starts over and every other step is a stutter.                          *)
(***************************************************************************)
\* The chunk at position j of the list is held, unless it is already saved.
LEMMA NodeIsHeld ==
    ASSUME IInv, NEW j \in 1 .. Len(chain)
    PROVE  /\ chain[j].index \in Indices
           /\ chain[j].index >= need_index => chain[j].index \in HeldIndices
<1>1. chain[j] \in Nodes
  BY ElementOfSeq DEF IInv, TypeOK
<1>2. QED
  BY <1>1 DEF Nodes, HeldIndices

\* With no lost write allowed, none happens, and the output is the file up to
\* need_index.
LEMMA LossFree ==
    ASSUME MaxLostWrites = 0, IInv, lost_writes = 0, [Next]_vars
    PROVE  lost_writes' = 0
<1>1. ASSUME NEW f \in Frames, Save(f)
      PROVE  lost_writes' = 0
  <2> DEFINE pushed == <<Node(f)>> \o chain
  <2>1. PICK k \in 1 .. Len(pushed) :
            \E w \in 0 .. k :
                /\ lost_writes + k - w <= MaxLostWrites \/ w = k
                /\ lost_writes' = lost_writes + (k - w)
    BY <1>1 DEF Save
  <2> HIDE DEF pushed
  <2>2. PICK w \in 0 .. k :
            /\ lost_writes + k - w <= MaxLostWrites \/ w = k
            /\ lost_writes' = lost_writes + (k - w)
    BY <2>1
  <2>3. w = k
    BY <2>2
  <2>4. QED
    BY <2>2, <2>3
<1>2. CASE Next
  BY <1>1, <1>2 DEF Next, Receive, ReceiveOther, ReceiveDamaged, DropWhenFull,
       KeepStale, Hold, OpenFails, Restart, vars
<1>3. QED
  BY <1>2 DEF vars

LEMMA OutputIsPrefix ==
    ASSUME IInv, lost_writes = 0
    PROVE  Output = SubSeq(Content, 1, need_index)
BY DEF IInv, FileIsPrefix, Output

-----------------------------------------------------------------------------
\* Pushing a node of a chunk already saved changes no held index.
LEMMA KeepStaleStutters ==
    ASSUME NEW f \in Frames, IInv, KeepStale(f)
    PROVE  UNCHANGED <<need_index, HeldIndices, Output>>
<1>1. /\ chain \in Seq(Nodes) /\ need_index \in Nat /\ Len(chain) \in Nat
      /\ Node(f) \in Nodes /\ Node(f).index < need_index
      /\ Node(f).index \in Nat
  BY HandedFrame, PacketRecvAssumption
     DEF KeepStale, IInv, TypeOK, Node, Indices
<1>2. chain' = <<Node(f)>> \o chain
  BY DEF KeepStale
<1>3. Len(chain') = Len(chain) + 1 /\ chain'[1] = Node(f)
  BY <1>1, <1>2, PushProperties
<1>4. \A i \in 1 .. Len(chain) : chain'[i + 1] = chain[i]
  BY <1>1, <1>2, PushProperties
<1>5. ASSUME NEW i \in Indices, i >= need_index
      PROVE  (\E j \in 1 .. Len(chain') : chain'[j].index = i)
             <=> (\E j \in 1 .. Len(chain) : chain[j].index = i)
  <2>1. ASSUME NEW j \in 1 .. Len(chain'), chain'[j].index = i
        PROVE  \E m \in 1 .. Len(chain) : chain[m].index = i
    <3>1. j # 1
      BY <1>1, <1>3, <1>5, <2>1
    <3>2. j - 1 \in 1 .. Len(chain) /\ (j - 1) + 1 = j
      BY <1>1, <1>3, <3>1
    <3>3. QED
      BY <1>4, <2>1, <3>2
  <2>2. ASSUME NEW j \in 1 .. Len(chain), chain[j].index = i
        PROVE  \E m \in 1 .. Len(chain') : chain'[m].index = i
    <3>1. j + 1 \in 1 .. Len(chain')
      BY <1>1, <1>3
    <3>2. QED
      BY <1>4, <2>2, <3>1
  <2>3. QED
    BY <2>1, <2>2
<1>6. need_index' = need_index
  BY DEF KeepStale
<1>7. HeldIndices' = HeldIndices
  BY <1>5, <1>6 DEF HeldIndices, Indices
<1>8. QED
  BY <1>6, <1>7 DEF Output, KeepStale

\* Inserting a node adds its index to the held ones.
LEMMA InsertHolds ==
    ASSUME NEW n \in Nodes, NEW k \in 0 .. Len(chain), chain \in Seq(Nodes),
           need_index \in Nat, need_index' = need_index,
           n.index >= need_index,
           chain' = InsertAt(chain, k + 1, n)
    PROVE  HeldIndices' = HeldIndices \cup {n.index}
<1>0. Len(chain) \in Nat /\ n.index \in Indices
  BY DEF Nodes
<1>1. Len(chain') = Len(chain) + 1
  BY InsertAtProperties
<1>2. \A i \in 1 .. k : chain'[i] = chain[i]
  BY InsertAtProperties
<1>3. chain'[k + 1] = n
  BY InsertAtProperties
<1>4. \A i \in k + 2 .. Len(chain) + 1 : chain'[i] = chain[i - 1]
  BY InsertAtProperties
<1>5. ASSUME NEW i \in Indices
      PROVE  (\E j \in 1 .. Len(chain') : chain'[j].index = i)
             <=> i = n.index \/ (\E j \in 1 .. Len(chain) : chain[j].index = i)
  <2>1. ASSUME NEW j \in 1 .. Len(chain'), chain'[j].index = i
        PROVE  i = n.index \/ \E m \in 1 .. Len(chain) : chain[m].index = i
    <3>1. CASE j <= k
      BY <1>0, <1>2, <2>1, <3>1
    <3>2. CASE j = k + 1
      BY <1>3, <2>1, <3>2
    <3>3. CASE j > k + 1
      <4>1. j - 1 \in 1 .. Len(chain) /\ chain'[j] = chain[j - 1]
        BY <1>0, <1>1, <1>4, <3>3
      <4>2. QED
        BY <4>1, <2>1
    <3>4. QED
      BY <3>1, <3>2, <3>3
  <2>2. ASSUME NEW j \in 1 .. Len(chain), chain[j].index = i
        PROVE  \E m \in 1 .. Len(chain') : chain'[m].index = i
    <3>1. CASE j <= k
      <4>1. j \in 1 .. Len(chain')
        BY <1>0, <1>1
      <4>2. QED
        BY <4>1, <1>2, <2>2, <3>1
    <3>2. CASE j > k
      <4>1. /\ j + 1 \in k + 2 .. Len(chain) + 1 /\ (j + 1) - 1 = j
            /\ j + 1 \in 1 .. Len(chain')
        BY <1>0, <1>1, <3>2
      <4>2. QED
        BY <4>1, <1>4, <2>2
    <3>3. QED
      BY <3>1, <3>2
  <2>3. ASSUME i = n.index
        PROVE  \E m \in 1 .. Len(chain') : chain'[m].index = i
    <3>1. k + 1 \in 1 .. Len(chain')
      BY <1>0, <1>1
    <3>2. QED
      BY <3>1, <1>3, <2>3
  <2>4. QED
    BY <2>1, <2>2, <2>3
<1>6. QED
  BY <1>0, <1>5 DEF HeldIndices, Indices

\* A chunk ahead of the needed one is kept.
LEMMA HoldKeeps ==
    ASSUME NEW f \in Frames, IInv, Hold(f)
    PROVE  Buffer!Keep
<1>1. /\ chain \in Seq(Nodes) /\ need_index \in Nat
      /\ Node(f) \in Nodes /\ Node(f).index = f.index
      /\ f.index \in Indices /\ f.index > need_index
      /\ Len(Content) \in Nat
  BY HandedFrame, PacketRecvAssumption DEF Hold, IInv, TypeOK, Node
<1>2. PICK k \in 0 .. Len(chain) : chain' = InsertAt(chain, k + 1, Node(f))
  BY DEF Hold
<1>3. need_index' = need_index /\ Output' = Output
  BY DEF Hold, Output
<1>4. f.index \in Nat
  BY <1>1 DEF Indices
<1>5. HeldIndices' = HeldIndices \cup {f.index}
  BY <1>1, <1>2, <1>3, <1>4, InsertHolds
<1>6. f.index \in need_index .. Len(Content) - 1
  BY <1>1, <1>4 DEF Indices
<1>7. QED
  BY <1>3, <1>5, <1>6 DEF Buffer!Keep

\* The needed chunk that could not be written is kept.
LEMMA OpenFailsKeeps ==
    ASSUME NEW f \in Frames, IInv, OpenFails(f)
    PROVE  Buffer!Keep
<1>1. /\ chain \in Seq(Nodes) /\ need_index \in Nat
      /\ Node(f) \in Nodes /\ Node(f).index = f.index
      /\ f.index \in Indices /\ f.index = need_index
      /\ Len(Content) \in Nat
  BY HandedFrame, PacketRecvAssumption DEF OpenFails, IInv, TypeOK, Node
<1>2. chain' = InsertAt(chain, 0 + 1, Node(f))
  <2>1. SubSeq(chain, 1, 0) \o <<Node(f)>> = <<Node(f)>>
    <3>1. SubSeq(chain, 1, 0) = <<>>
      BY <1>1, SubSeqEmpty
    <3>2. <<>> \o <<Node(f)>> = <<Node(f)>>
      BY <1>1, ConcatEmptySeq
    <3>3. QED
      BY <3>1, <3>2
  <2>2. SubSeq(chain, 1, Len(chain)) = chain
    BY <1>1
  <2>3. InsertAt(chain, 0 + 1, Node(f)) = <<Node(f)>> \o chain
    <3>1. (0 + 1) - 1 = 0 /\ 0 + 1 = 1
      OBVIOUS
    <3>2. QED
      BY <2>1, <2>2, <3>1, Zenon DEF InsertAt
  <2>4. QED
    BY <2>3 DEF OpenFails
<1>3. need_index' = need_index /\ Output' = Output
  BY DEF OpenFails, Output
<1>4. HeldIndices' = HeldIndices \cup {f.index}
  <2>1. 0 \in 0 .. Len(chain)
    BY <1>1
  <2>2. QED
    BY <1>1, <1>2, <1>3, <2>1, InsertHolds
<1>5. f.index \in need_index .. Len(Content) - 1
  BY <1>1 DEF Indices
<1>6. QED
  BY <1>3, <1>4, <1>5 DEF Buffer!Keep

\* The needed chunk and the run behind it are delivered.
LEMMA SaveDelivers ==
    ASSUME NEW f \in Frames, IInv, Save(f), lost_writes' = 0
    PROVE  Buffer!Deliver
<1> DEFINE pushed == <<Node(f)>> \o chain
           N == Len(pushed)
<1>0. IInv'
  BY SaveInv
<1>1. /\ chain \in Seq(Nodes) /\ Len(chain) \in Nat
      /\ need_index \in Nat /\ need_index' \in 0 .. Len(Content)
      /\ Len(Content) \in Nat
      /\ Node(f) \in Nodes /\ Node(f).index = need_index
  BY <1>0, HandedFrame, PacketRecvAssumption, SMTT(30) DEF Save, IInv, TypeOK, Node
<1>2. PICK k \in 1 .. N :
          /\ IsRun(pushed, need_index, k)
          /\ need_index' = need_index + k
          /\ chain' = SubSeq(pushed, k + 1, Len(pushed))
  BY DEF Save
<1>3. pushed \in Seq(Nodes) /\ N = Len(chain) + 1 /\ N \in Nat
  BY <1>1, PushProperties
<1>4. \A i \in 1 .. Len(chain) : pushed[i + 1] = chain[i]
  BY <1>1, PushProperties
<1> HIDE DEF pushed
<1>5. \A j \in 1 .. k : pushed[j].index = need_index + j - 1
  BY <1>2 DEF IsRun
<1>6. Len(chain') = N - k /\ \A i \in 1 .. N - k : chain'[i] = pushed[k + i]
  <2>1. k + 1 \in 1 .. N + 1
    BY <1>3
  <2> DEFINE rest == SubSeq(pushed, k + 1, N)
  <2>2. Len(rest) = N - k
    BY <2>1, <1>3, SubSeqProperties
  <2>3. \A i \in 1 .. N - k : rest[i] = pushed[k + i]
    BY <2>1, <1>3, SubSeqProperties
  <2>4. chain' = rest
    BY <1>2
  <2>5. QED
    BY <2>2, <2>3, <2>4, Zenon
<1>7. need_index' \in need_index + 1 .. Len(Content)
  BY <1>1, <1>2, <1>3
<1>8. ASSUME NEW i \in need_index + 1 .. need_index' - 1
      PROVE  i \in HeldIndices
  <2> DEFINE j == i - need_index
  <2>1. j \in 1 .. Len(chain) /\ j + 1 \in 1 .. k
    BY <1>1, <1>2, <1>3
  <2>2. chain[j].index = i
    <3>1. pushed[j + 1].index = need_index + (j + 1) - 1
      BY <1>5, <2>1
    <3>2. pushed[j + 1] = chain[j]
      BY <1>4, <2>1
    <3>3. need_index + (j + 1) - 1 = i
      BY <1>1, <1>2, <1>3
    <3>4. QED
      BY <3>1, <3>2, <3>3
  <2>3. QED
    BY <2>1, <2>2, <1>1, NodeIsHeld
<1>9. ASSUME NEW i \in Indices, i >= need_index'
      PROVE  (\E j \in 1 .. Len(chain') : chain'[j].index = i)
             <=> (\E j \in 1 .. Len(chain) : chain[j].index = i)
  <2>1. ASSUME NEW j \in 1 .. Len(chain'), chain'[j].index = i
        PROVE  \E m \in 1 .. Len(chain) : chain[m].index = i
    <3> DEFINE m == k + j - 1
    <3>1. m \in 1 .. Len(chain) /\ m + 1 = k + j /\ j \in 1 .. N - k
      BY <1>1, <1>3, <1>6
    <3>2. chain'[j] = chain[m]
      BY <3>1, <1>4, <1>6
    <3>3. QED
      BY <3>1, <3>2, <2>1
  <2>2. ASSUME NEW j \in 1 .. Len(chain), chain[j].index = i
        PROVE  \E m \in 1 .. Len(chain') : chain'[m].index = i
    <3>1. pushed[j + 1].index = i
      BY <1>4, <2>2
    <3>2. j + 1 > k
      <4>1. SUFFICES ASSUME j + 1 \in 1 .. k PROVE FALSE
        BY <1>1, <1>2, <1>3
      <4>2. i = need_index + (j + 1) - 1
        BY <1>5, <3>1, <4>1
      <4>3. QED
        BY <4>1, <4>2, <1>1, <1>2, <1>3, <1>9 DEF Indices
    <3> DEFINE m == j + 1 - k
    <3>3. m \in 1 .. N - k /\ k + m = j + 1 /\ m \in 1 .. Len(chain')
      BY <3>2, <1>1, <1>2, <1>3, <1>6
    <3>4. QED
      BY <3>1, <3>3, <1>6
  <2>3. QED
    BY <2>1, <2>2
<1>10. HeldIndices' = {i \in HeldIndices : i >= need_index'}
  <2>1. need_index' \in Nat /\ need_index' >= need_index
    BY <1>1, <1>2, <1>3
  <2>2. ASSUME NEW i \in Indices
        PROVE  i \in HeldIndices' <=> i \in HeldIndices /\ i >= need_index'
    <3>1. i \in Nat
      BY <1>1 DEF Indices
    <3>2. i >= need_index' => i >= need_index
      BY <2>1, <3>1, <1>1
    <3>3. QED
      BY <3>2, <1>9 DEF HeldIndices, Indices
  <2>3. HeldIndices \subseteq Indices /\ HeldIndices' \subseteq Indices
    BY DEF HeldIndices, Indices
  <2>4. QED
    BY <2>2, <2>3
<1>11. Output' = SubSeq(Content, 1, need_index')
  BY <1>0 DEF IInv, FileIsPrefix, Output
<1>12. QED
  BY <1>7, <1>8, <1>10, <1>11 DEF Buffer!Deliver

-----------------------------------------------------------------------------
\* The receiver implements the reordering buffer, for every set of frames and
\* every capacity, with duplicates, failed opens and restarts.
THEOREM Refinement ==
    ASSUME MaxLostWrites = 0
    PROVE  Spec => IsReorderBuffer
<1> DEFINE LInv == IInv /\ lost_writes = 0
<1>1. Init => LInv
  BY InitInv DEF Init
<1>2. LInv /\ [Next]_vars => LInv'
  BY LossFree, ReceiveInv, RestartInv, StutterInv DEF Next
<1>3. Init => Buffer!Init
  <2>1. SUFFICES ASSUME Init PROVE Buffer!Init
    OBVIOUS
  <2>2. HeldIndices = {}
    BY <2>1 DEF Init, HeldIndices
  <2>3. Output = <<>>
    BY <2>1 DEF Init, Output
  <2>4. QED
    BY <2>1, <2>2, <2>3 DEF Init, Buffer!Init
<1>4. LInv /\ LInv' /\ [Next]_vars => [Buffer!Next]_(Buffer!vars)
  <2>1. SUFFICES ASSUME LInv, LInv', [Next]_vars
                 PROVE  [Buffer!Next]_(Buffer!vars)
    OBVIOUS
  <2>2. CASE UNCHANGED <<need_index, chain, recived_file, base>>
    BY <2>2 DEF Buffer!vars, HeldIndices, Output
  <2>3. ASSUME NEW f \in Frames, Receive(f)
        PROVE  [Buffer!Next]_(Buffer!vars)
    <3>1. CASE ReceiveOther(f) \/ ReceiveDamaged(f) \/ DropWhenFull(f)
      BY <2>2, <3>1 DEF ReceiveOther, ReceiveDamaged, DropWhenFull, vars
    <3>2. CASE KeepStale(f)
      BY <2>1, <3>2, KeepStaleStutters DEF Buffer!vars
    <3>3. CASE Hold(f)
      BY <2>1, <3>3, HoldKeeps DEF Buffer!Next
    <3>4. CASE OpenFails(f)
      BY <2>1, <3>4, OpenFailsKeeps DEF Buffer!Next
    <3>5. CASE Save(f)
      BY <2>1, <3>5, SaveDelivers DEF Buffer!Next
    <3>6. QED
      BY <2>3, <3>1, <3>2, <3>3, <3>4, <3>5 DEF Receive
  <2>4. CASE Restart
    <3>1. need_index' = 0 /\ chain' = <<>>
      BY <2>4 DEF Restart
    <3>2. HeldIndices' = {}
      BY <3>1 DEF HeldIndices
    <3>3. Output' = <<>>
      <4>1. Output' = SubSeq(Content, 1, 0)
        BY <2>1, <3>1, OutputIsPrefix DEF IInv, FileIsPrefix, Output
      <4>2. SubSeq(Content, 1, 0) = <<>>
        BY PacketRecvAssumption
      <4>3. QED
        BY <4>1, <4>2
    <3>4. QED
      BY <3>1, <3>2, <3>3 DEF Buffer!Next, Buffer!Restart
  <2>5. QED
    BY <2>1, <2>2, <2>3, <2>4 DEF Next, vars
<1>5. QED
  BY <1>1, <1>2, <1>3, <1>4, PTL DEF Spec, IsReorderBuffer, Buffer!Spec

-----------------------------------------------------------------------------
(***************************************************************************)
(* On a full disk: what fwrite lost and what is in the file make up what   *)
(* need_index counts.                                                      *)
(***************************************************************************)
Counted == Len(recived_file) - base + lost_writes = need_index

LEMMA CountedInit == Init => Counted
BY DEF Init, Counted

LEMMA CountedInv ==
    ASSUME IInv, Counted, [Next]_vars
    PROVE  Counted'
<1>0. /\ recived_file \in Seq(Chunks) /\ Len(recived_file) \in Nat
      /\ base \in Nat /\ need_index \in Nat /\ lost_writes \in Nat
      /\ chain \in Seq(Nodes) /\ Len(chain) \in Nat
  BY PacketRecvAssumption DEF IInv, TypeOK
<1>1. ASSUME NEW f \in Frames, Save(f)
      PROVE  Counted'
  <2> DEFINE pushed == <<Node(f)>> \o chain
  <2>1. PICK k \in 1 .. Len(pushed) :
            /\ \E w \in 0 .. k :
                 /\ recived_file' = recived_file \o [j \in 1 .. w |-> pushed[j].data]
                 /\ lost_writes' = lost_writes + (k - w)
            /\ need_index' = need_index + k
    BY <1>1 DEF Save
  <2>2. pushed \in Seq(Nodes) /\ Len(pushed) \in Nat
    BY <1>0, <1>1, HandedFrame, PushProperties DEF Save
  <2> HIDE DEF pushed
  <2>3. PICK w \in 0 .. k :
            /\ recived_file' = recived_file \o [j \in 1 .. w |-> pushed[j].data]
            /\ lost_writes' = lost_writes + (k - w)
    BY <2>1
  <2> DEFINE out == [j \in 1 .. w |-> pushed[j].data]
             D == Chunks \cup {pushed[j].data : j \in 1 .. w}
  <2>4. out \in Seq(D) /\ Len(out) = w
    <3>1. w \in Nat /\ \A j \in 1 .. w : pushed[j].data \in D
      BY <2>2, <2>3
    <3> HIDE DEF D
    <3>2. QED
      BY <3>1
  <2>5. recived_file \in Seq(D)
    BY <1>0
  <2> HIDE DEF out, D
  <2>6. Len(recived_file') = Len(recived_file) + w
    <3>1. recived_file' = recived_file \o out
      BY <2>3 DEF out
    <3>2. QED
      BY <3>1, <2>4, <2>5, ConcatPositions
  <2>7. base' = base
    BY <1>1 DEF Save
  <2>8. QED
    <3>1. k \in Nat /\ w \in Nat
      BY <2>2
    <3> DEFINE L == Len(recived_file)
    <3>2. (L + w) - base + (lost_writes + (k - w)) = need_index + k
      <4>1. L - base + lost_writes = need_index
        BY DEF Counted
      <4> HIDE DEF L
      <4>2. L \in Nat
        BY <1>0 DEF L
      <4>3. QED
        BY <1>0, <3>1, <4>1, <4>2
    <3>3. QED
      BY <2>1, <2>3, <2>6, <2>7, <3>2 DEF Counted
<1>2. CASE Restart
  BY <1>0, <1>2 DEF Restart, Counted
<1>3. CASE UNCHANGED <<recived_file, base, lost_writes, need_index>>
  BY <1>3 DEF Counted
<1>4. QED
  BY <1>1, <1>2, <1>3 DEF Next, Receive, ReceiveOther, ReceiveDamaged,
     DropWhenFull, KeepStale, Hold, OpenFails, vars
=============================================================================
