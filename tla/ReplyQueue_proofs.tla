------------------------- MODULE ReplyQueue_proofs -------------------------
(***************************************************************************)
(* Proofs about ReplyQueue.  TypeOK is inductive; NothingLost and          *)
(* NoLostWakeup are inductive beside it, the second one if a recv brings   *)
(* at most one line.                                                       *)
(***************************************************************************)
EXTENDS ReplyQueue, SequenceTheorems, FiniteSetTheorems, TLAPS

Taken == [by : Consumers, reply : Replies]

-----------------------------------------------------------------------------
(***************************************************************************)
(* Sequences: the types of what the two operations build.                  *)
(***************************************************************************)
\* What GetReplyFromQueue does to the queue keeps the lines and their order.
LEMMA MoveHead ==
    ASSUME NEW S, NEW s \in Seq(S), NEW t \in Seq(S), t # <<>>
    PROVE  Append(s, Head(t)) \o Tail(t) = s \o t
  <1>1. /\ Head(t) \in S
        /\ Tail(t) \in Seq(S)
        /\ Len(Tail(t)) = Len(t) - 1
        /\ \A i \in 1 .. Len(Tail(t)) : Tail(t)[i] = t[i + 1]
    BY HeadTailProperties
  <1>2. Head(t) = t[1]
    BY SMT
  <1>3. /\ Append(s, Head(t)) \in Seq(S)
        /\ Len(Append(s, Head(t))) = Len(s) + 1
        /\ \A i \in 1 .. Len(s) : Append(s, Head(t))[i] = s[i]
        /\ Append(s, Head(t))[Len(s) + 1] = Head(t)
    BY <1>1, SMT
  <1> DEFINE a == Append(s, Head(t))
             r == Tail(t)
  <1> HIDE DEF a, r
  <1>4. /\ a \o r \in Seq(S)
        /\ Len(a \o r) = Len(a) + Len(r)
        /\ \A i \in 1 .. Len(a) + Len(r) :
               (a \o r)[i] = IF i <= Len(a) THEN a[i] ELSE r[i - Len(a)]
    BY <1>1, <1>3, ConcatProperties DEF a, r
  <1>5. /\ s \o t \in Seq(S)
        /\ Len(s \o t) = Len(s) + Len(t)
        /\ \A i \in 1 .. Len(s) + Len(t) :
               (s \o t)[i] = IF i <= Len(s) THEN s[i] ELSE t[i - Len(s)]
    BY ConcatProperties
  <1>6. /\ Len(s) \in Nat
        /\ Len(t) \in Nat
        /\ Len(a) = Len(s) + 1
        /\ Len(r) = Len(t) - 1
        /\ Len(t) >= 1
    <2>1. Len(s) \in Nat /\ Len(t) \in Nat /\ Len(t) # 0
      BY LenProperties, EmptySeq
    <2> QED
      BY <2>1, <1>1, <1>3 DEF a, r
  <1>7. ASSUME NEW i \in 1 .. Len(a \o r)
        PROVE  (a \o r)[i] = (s \o t)[i]
    <2>1. i \in Nat /\ 1 <= i /\ i <= Len(s) + Len(t)
      BY <1>4, <1>6
    <2>2. CASE i <= Len(s)
      <3>1. (a \o r)[i] = a[i]
        BY <2>1, <2>2, <1>4, <1>6
      <3>2. a[i] = s[i]
        BY <2>1, <2>2, <1>3, <1>6 DEF a
      <3> QED
        BY <3>1, <3>2, <2>1, <2>2, <1>5, <1>6
    <2>3. CASE i = Len(s) + 1
      <3>1. (a \o r)[i] = a[i]
        BY <2>1, <2>3, <1>4, <1>6
      <3>2. a[i] = t[1]
        BY <2>3, <1>2, <1>3 DEF a
      <3> QED
        BY <3>1, <3>2, <2>1, <2>3, <1>5, <1>6
    <2>4. CASE i > Len(s) + 1
      <3>1. (a \o r)[i] = r[i - Len(s) - 1]
        BY <2>1, <2>4, <1>4, <1>6
      <3>2. r[i - Len(s) - 1] = t[i - Len(s)]
        <4>1. i - Len(s) - 1 \in 1 .. Len(r)
          BY <2>1, <2>4, <1>6
        <4>2. r[i - Len(s) - 1] = t[(i - Len(s) - 1) + 1]
          BY <4>1, <1>1 DEF r
        <4>3. (i - Len(s) - 1) + 1 = i - Len(s)
          BY <2>1, <1>6
        <4> QED
          BY <4>2, <4>3
      <3> QED
        BY <3>1, <3>2, <2>1, <2>4, <1>5, <1>6
    <2> QED
      BY <2>1, <2>2, <2>3, <2>4, <1>6
  <1>8. a \o r = s \o t
    <2>1. Len(a \o r) = Len(s \o t)
      BY <1>4, <1>5, <1>6
    <2> QED
      BY <2>1, <1>4, <1>5, <1>7, SeqEqual
  <1> QED
    BY <1>8 DEF a, r

-----------------------------------------------------------------------------
(***************************************************************************)
(* Types.                                                                  *)
(***************************************************************************)
LEMMA TypeInit == Init => TypeOK
  <1> SUFFICES ASSUME Init PROVE TypeOK
    OBVIOUS
  <1>1. <<>> \in Seq(Replies) /\ <<>> \in Seq(Taken)
    BY EmptySeq
  <1> QED
    BY <1>1 DEF Init, TypeOK, Taken

LEMMA TypeNext == TypeOK /\ [Next]_vars => TypeOK'
  <1> SUFFICES ASSUME TypeOK, [Next]_vars PROVE TypeOK'
    OBVIOUS
  <1>1. ASSUME NEW batch \in Batches, Push(batch) PROVE TypeOK'
    <2>1. batch \in Seq(Replies)
      BY ReplyQueueAssumption
    <2>2. msgQueue' \in Seq(Replies) /\ pushed' \in Seq(Replies)
      BY <2>1, <1>1, ConcatProperties DEF Push, TypeOK
    <2>3. /\ waiting' \subseteq Consumers
          /\ woken' \subseteq Consumers
          /\ waiting' \cap woken' = {}
      BY <1>1, Zenon DEF Push, NotifyOne, TypeOK
    <2> QED
      BY <1>1, <2>2, <2>3 DEF Push, TypeOK
  <1>2. ASSUME NEW t \in Consumers, Block(t) PROVE TypeOK'
    BY <1>2 DEF Block, TypeOK
  <1>3. ASSUME NEW t \in Consumers, Take(t) PROVE TypeOK'
    <2>1. Head(msgQueue) \in Replies /\ Tail(msgQueue) \in Seq(Replies)
      BY <1>3, HeadTailProperties DEF Take, TypeOK
    <2>2. [by |-> t, reply |-> Head(msgQueue)] \in Taken
      BY <2>1 DEF Taken
    <2>3. taken' \in Seq(Taken)
      BY <2>2, <1>3 DEF Take, TypeOK, Taken
    <2> QED
      BY <2>1, <2>3, <1>3 DEF Take, TypeOK, Taken
  <1>4. ASSUME NEW t \in Consumers, SpuriousWake(t) PROVE TypeOK'
    BY <1>4 DEF SpuriousWake, TypeOK
  <1>5. CASE UNCHANGED vars
    BY <1>5 DEF vars, TypeOK
  <1> QED
    BY <1>1, <1>2, <1>3, <1>4, <1>5 DEF Next

\* Type correctness of the queue, and that no thread both sleeps and was woken.
THEOREM TypeCorrect == Spec => []TypeOK
  BY TypeInit, TypeNext, PTL DEF Spec

-----------------------------------------------------------------------------
(***************************************************************************)
(* Nothing is lost.                                                        *)
(***************************************************************************)
LEMMA TakenType ==
    ASSUME TypeOK
    PROVE  TakenReplies \in Seq(Replies) /\ Len(TakenReplies) = Len(taken)
  <1>1. Len(taken) \in Nat
    BY DEF TypeOK
  <1>2. \A i \in 1 .. Len(taken) : taken[i].reply \in Replies
    <2>1. taken \in Seq(Taken)
      BY DEF TypeOK, Taken
    <2>2. \A i \in 1 .. Len(taken) : taken[i] \in Taken
      BY <2>1, ElementOfSeq
    <2> QED
      BY <2>2 DEF Taken
  <1>3. TakenReplies \in [1 .. Len(taken) -> Replies]
    BY <1>2 DEF TakenReplies
  <1> QED
    BY <1>1, <1>3

LEMMA TakenAppend ==
    ASSUME TypeOK, NEW t \in Consumers, Take(t)
    PROVE  TakenReplies' = Append(TakenReplies, Head(msgQueue))
  <1> DEFINE e == [by |-> t, reply |-> Head(msgQueue)]
  <1>1. Head(msgQueue) \in Replies
    BY HeadTailProperties DEF Take, TypeOK
  <1>2. taken \in Seq(Taken) /\ e \in Taken /\ e.reply = Head(msgQueue)
    BY <1>1 DEF TypeOK, Taken
  <1>3. taken' = Append(taken, e)
    BY DEF Take
  <1> HIDE DEF e
  <1>4. /\ Len(taken) \in Nat
        /\ Len(taken') = Len(taken) + 1
        /\ \A i \in 1 .. Len(taken) : taken'[i] = taken[i]
        /\ taken'[Len(taken) + 1] = e
    BY <1>2, <1>3
  <1>5. TakenReplies \in Seq(Replies) /\ Len(TakenReplies) = Len(taken)
    BY TakenType
  <1> DEFINE a == Append(TakenReplies, Head(msgQueue))
  <1>6. /\ a \in Seq(Replies)
        /\ Len(a) = Len(taken) + 1
        /\ \A i \in 1 .. Len(taken) : a[i] = TakenReplies[i]
        /\ a[Len(taken) + 1] = Head(msgQueue)
    BY <1>1, <1>5
  <1> HIDE DEF a
  <1>7. ASSUME NEW i \in 1 .. Len(taken) + 1
        PROVE  taken'[i].reply = a[i]
    <2>1. CASE i \in 1 .. Len(taken)
      BY <2>1, <1>4, <1>6 DEF TakenReplies
    <2>2. CASE i = Len(taken) + 1
      BY <2>2, <1>2, <1>4, <1>6
    <2> QED
      BY <2>1, <2>2, <1>4
  <1>8. TakenReplies' = [i \in 1 .. Len(taken) + 1 |-> taken'[i].reply]
    BY <1>4 DEF TakenReplies
  <1>9. TakenReplies' = [i \in 1 .. Len(taken) + 1 |-> a[i]]
    BY <1>7, <1>8
  <1>10. a = [i \in 1 .. Len(taken) + 1 |-> a[i]]
    BY <1>6
  <1> QED
    BY <1>9, <1>10 DEF a

LEMMA LostNext ==
    TypeOK /\ NothingLost /\ [Next]_vars => NothingLost'
  <1> SUFFICES ASSUME TypeOK, NothingLost, [Next]_vars PROVE NothingLost'
    OBVIOUS
  <1>1. TakenReplies \in Seq(Replies) /\ msgQueue \in Seq(Replies)
    BY TakenType DEF TypeOK
  <1>2. ASSUME NEW batch \in Batches, Push(batch) PROVE NothingLost'
    <2>1. batch \in Seq(Replies)
      BY ReplyQueueAssumption
    <2>2. (TakenReplies \o msgQueue) \o batch = TakenReplies \o (msgQueue \o batch)
      BY <1>1, <2>1, ConcatAssociative
    <2>3. TakenReplies' = TakenReplies
      BY <1>2 DEF Push, TakenReplies
    <2> QED
      BY <1>2, <2>2, <2>3, Zenon DEF Push, NothingLost
  <1>3. ASSUME NEW t \in Consumers, Take(t) PROVE NothingLost'
    <2>1. TakenReplies' = Append(TakenReplies, Head(msgQueue))
      BY <1>3, TakenAppend
    <2>2. Append(TakenReplies, Head(msgQueue)) \o Tail(msgQueue) = TakenReplies \o msgQueue
      BY <1>1, <1>3, MoveHead, Zenon DEF Take
    <2> QED
      BY <1>3, <2>1, <2>2, Zenon DEF Take, NothingLost
  <1>4. ASSUME UNCHANGED <<msgQueue, pushed, taken>> PROVE NothingLost'
    BY <1>4 DEF NothingLost, TakenReplies
  <1>5. ASSUME NEW t \in Consumers, Block(t) PROVE NothingLost'
    BY <1>4, <1>5 DEF Block
  <1>6. ASSUME NEW t \in Consumers, SpuriousWake(t) PROVE NothingLost'
    BY <1>4, <1>6 DEF SpuriousWake
  <1>7. CASE UNCHANGED vars
    BY <1>4, <1>7 DEF vars
  <1> QED
    BY <1>2, <1>3, <1>5, <1>6, <1>7 DEF Next

\* Whatever the threads and the server do, the lines received are those taken
\* and then those queued: none is lost, doubled or overtaken.
THEOREM Conservation == Spec => []NothingLost
  <1>1. Init => NothingLost
    <2> SUFFICES ASSUME Init PROVE NothingLost
      OBVIOUS
    <2>1. TypeOK
      BY TypeInit
    <2>2. TakenReplies \in Seq(Replies) /\ Len(TakenReplies) = 0
      BY <2>1, TakenType DEF Init
    <2>3. TakenReplies = <<>>
      BY <2>2, EmptySeq
    <2> QED
      BY <2>3, ConcatEmptySeq, EmptySeq DEF Init, NothingLost
  <1> QED
    BY <1>1, LostNext, TypeCorrect, PTL DEF Spec

-----------------------------------------------------------------------------
(***************************************************************************)
(* No wake-up is lost if a recv brings one line.                           *)
(***************************************************************************)
LEMMA WakeupNext ==
    ASSUME \A batch \in Batches : Len(batch) <= 1,
           TypeOK, NoLostWakeup, [Next]_vars
    PROVE  NoLostWakeup'
  <1>1. /\ IsFiniteSet(woken)
        /\ Cardinality(woken) \in Nat
        /\ Len(msgQueue) \in Nat
    BY ReplyQueueAssumption, FS_Subset, FS_CardinalityType DEF TypeOK
  <1>2. ASSUME NEW batch \in Batches, Push(batch) PROVE NoLostWakeup'
    <2>1. Len(msgQueue') <= Len(msgQueue) + 1
      <3>1. batch \in Seq(Replies) /\ Len(batch) <= 1
        BY ReplyQueueAssumption
      <3>2. Len(msgQueue \o batch) = Len(msgQueue) + Len(batch)
        BY <3>1, ConcatProperties DEF TypeOK
      <3>3. Len(batch) \in Nat
        BY <3>1
      <3> QED
        BY <3>1, <3>2, <3>3, <1>1, <1>2 DEF Push
    <2>2. Len(msgQueue') \in Nat
      BY <1>2, TypeNext DEF TypeOK, Next
    <2>3. CASE waiting = {}
      BY <1>2, <2>3 DEF Push, NotifyOne, NoLostWakeup
    <2>4. CASE waiting # {}
      <3>1. PICK t \in waiting : woken' = woken \cup {t}
        BY <1>2, <2>4 DEF Push, NotifyOne
      <3>2. t \notin woken
        BY DEF TypeOK
      <3>3. Cardinality(woken') = Cardinality(woken) + 1
        BY <3>1, <3>2, <1>1, FS_AddElement
      <3>4. Len(msgQueue) <= Cardinality(woken)
        BY <2>4 DEF NoLostWakeup
      <3> QED
        BY <3>3, <3>4, <2>1, <2>2, <1>1 DEF NoLostWakeup
    <2> QED
      BY <2>3, <2>4
  <1>3. ASSUME NEW t \in Consumers, Block(t) PROVE NoLostWakeup'
    <2>1. Len(msgQueue') = 0
      BY <1>3 DEF Block
    <2>2. IsFiniteSet(woken') /\ Cardinality(woken') \in Nat
      BY <1>1, <1>3, FS_RemoveElement, FS_CardinalityType DEF Block
    <2> QED
      BY <2>1, <2>2 DEF NoLostWakeup
  <1>4. ASSUME NEW t \in Consumers, Take(t) PROVE NoLostWakeup'
    <2>1. Len(msgQueue') = Len(msgQueue) - 1
      BY <1>4, HeadTailProperties DEF Take, TypeOK
    <2>2. /\ Cardinality(woken') \in Nat
          /\ Cardinality(woken') >= Cardinality(woken) - 1
      <3>1. woken' = woken \ {t}
        BY <1>4 DEF Take
      <3>2. /\ IsFiniteSet(woken \ {t})
            /\ Cardinality(woken \ {t}) =
                  IF t \in woken THEN Cardinality(woken) - 1 ELSE Cardinality(woken)
        BY <1>1, FS_RemoveElement
      <3>3. Cardinality(woken \ {t}) \in Nat
        BY <3>2, FS_CardinalityType
      <3> QED
        BY <3>1, <3>2, <3>3, <1>1
    <2>3. waiting' = waiting
      BY <1>4 DEF Take
    <2> QED
      BY <2>1, <2>2, <2>3, <1>1 DEF NoLostWakeup
  <1>5. ASSUME NEW t \in Consumers, SpuriousWake(t) PROVE NoLostWakeup'
    <2>1. Cardinality(woken') \in Nat /\ Cardinality(woken') >= Cardinality(woken)
      <3>1. woken' = woken \cup {t}
        BY <1>5 DEF SpuriousWake
      <3>2. /\ IsFiniteSet(woken \cup {t})
            /\ Cardinality(woken \cup {t}) =
                  IF t \in woken THEN Cardinality(woken) ELSE Cardinality(woken) + 1
        BY <1>1, FS_AddElement
      <3> QED
        BY <3>1, <3>2, <1>1
    <2>2. Len(msgQueue) <= Cardinality(woken)
      BY <1>5 DEF SpuriousWake, NoLostWakeup
    <2>3. msgQueue' = msgQueue
      BY <1>5 DEF SpuriousWake
    <2> QED
      BY <2>1, <2>2, <2>3, <1>1 DEF NoLostWakeup
  <1>6. CASE UNCHANGED vars
    BY <1>6 DEF vars, NoLostWakeup
  <1> QED
    BY <1>2, <1>3, <1>4, <1>5, <1>6 DEF Next

\* If each recv brings one line, then while a thread sleeps every queued line
\* has a woken thread that is on its way.
THEOREM NoWakeupLost ==
    ASSUME \A batch \in Batches : Len(batch) <= 1
    PROVE  Spec => []NoLostWakeup
  <1>1. Init => NoLostWakeup
    BY DEF Init, NoLostWakeup
  <1>2. TypeOK /\ NoLostWakeup /\ [Next]_vars => NoLostWakeup'
    BY WakeupNext
  <1> QED
    BY <1>1, <1>2, TypeCorrect, PTL DEF Spec
=============================================================================
