-------------------------- MODULE SocketLab_proofs --------------------------
(***************************************************************************)
(* The programs of socketlab, for every file, message, buffer size, number *)
(* of clients and order of steps: what TLC checks of them on one instance  *)
(* of Programs.                                                            *)
(*                                                                         *)
(* A step of Programs is a step of one program and leaves the others alone *)
(* (OneProgram), so an invariant of a program is one of the whole.  Each   *)
(* section states the invariant of one program, proves that every step of  *)
(* it keeps it, and ends in the theorem about its property.                *)
(***************************************************************************)
EXTENDS Programs, SequenceLemmas

-----------------------------------------------------------------------------
\* A step of the whole is a step of one program and leaves the others alone.
LEMMA OneProgram ==
    ASSUME [Next]_vars
    PROVE  /\ [TF!Next]_(TF!vars)
           /\ [UF!Next]_(UF!vars)
           /\ [TE!Next]_(TE!vars)
           /\ [UE!Next]_(UE!vars)
<1>1. /\ [TF!Next]_tfVars
      /\ [UF!Next]_ufVars
      /\ [TE!Next]_teVars
      /\ [UE!Next]_ueVars
  <2> USE DEF Next, vars, RunPacketSend, RunTcpFile, RunUdpFile, RunTcpEcho,
          RunUdpEcho, RunPortScan, PortScanAlone, RunIcmpChecksum,
          RunUserBridge, UserBridgeAlone, RunCaptureSamples, RunSendCap,
          RunPacketDriver
  <2>1. [TF!Next]_tfVars
    OBVIOUS
  <2>2. [UF!Next]_ufVars
    OBVIOUS
  <2>3. [TE!Next]_teVars
    OBVIOUS
  <2>4. [UE!Next]_ueVars
    OBVIOUS
  <2> QED
    BY <2>1, <2>2, <2>3, <2>4
<1>2. [TF!Next]_(TF!vars)
  BY <1>1 DEF TF!vars, tfVars
<1>3. [UF!Next]_(UF!vars)
  BY <1>1 DEF UF!vars, ufVars
<1>4. [TE!Next]_(TE!vars)
  BY <1>1 DEF TE!vars, teVars
<1>5. [UE!Next]_(UE!vars)
  BY <1>1 DEF UE!vars, ueVars
<1> QED
  BY <1>2, <1>3, <1>4, <1>5

-----------------------------------------------------------------------------
(***************************************************************************)
(* A file over TCP                                                         *)
(***************************************************************************)
\* The bytes of the file after the first i, up to the j-th.
Piece(i, j) == SubSeq(test_avi, i + 1, j)

FileTypes ==
    /\ tf_client \in TF!ClientStates
    /\ tf_server \in TF!ServerStates
    /\ tf_link \in {"none", "open", "closed", "reset"}
    /\ tf_stream \in Seq(Bytes)
    /\ tf_bytes_sent \in 0 .. Len(test_avi)
    /\ tf_total_received \in Nat
    /\ tf_received_test_avi \in Seq(Bytes)

\* What is under way follows what has been taken; without a hole all that was
\* taken is saved.
Adjacent ==
    /\ tf_total_received + Len(tf_stream) <= tf_bytes_sent
    /\ tf_link # "reset" => tf_total_received + Len(tf_stream) = tf_bytes_sent
    /\ tf_stream = Piece(tf_total_received, tf_total_received + Len(tf_stream))
    /\ ~tf_unwritten => tf_received_test_avi = Piece(0, tf_total_received)

FileControl ==
    /\ tf_server \notin {"receiving", "saved"} =>
           tf_total_received = 0 /\ tf_received_test_avi = <<>>
    /\ tf_client \in {"connected", "sending"} => tf_link \in {"open", "reset"}
    /\ tf_link = "closed" => tf_client \in {"completed", "no_file", "killed"}
    /\ tf_client = "completed" => tf_bytes_sent = Len(test_avi)
    /\ tf_server = "saved" =>
           tf_link \in {"closed", "reset"} /\ tf_stream = <<>>

FileInv == FileTypes /\ Adjacent /\ FileControl

\* The variables that tell what has been sent and saved.
file_data == <<tf_stream, tf_bytes_sent, tf_total_received,
               tf_received_test_avi, tf_unwritten>>

-----------------------------------------------------------------------------
LEMMA FileConstants == test_avi \in Seq(Bytes) /\ BUF_SIZE \in Nat \ {0}
BY ProgramsAssumption DEF TF!TcpFileAssumption

\* A piece of the file is a sequence of bytes of the length it says.
LEMMA PieceProperties ==
    ASSUME NEW j \in 0 .. Len(test_avi), NEW i \in 0 .. j
    PROVE  Piece(i, j) \in Seq(Bytes) /\ Len(Piece(i, j)) = j - i
<1>1. Len(test_avi) \in Nat
      /\ \A k \in 1 .. Len(test_avi) : test_avi[k] \in Bytes
  BY LenProperties, ElementOfSeq, FileConstants
<1>2. \A k \in i + 1 .. j : test_avi[k] \in Bytes
  BY <1>1
<1>3. i + 1 \in Int /\ j \in Int
  BY <1>1
<1>4. /\ Piece(i, j) \in Seq(Bytes)
      /\ Len(Piece(i, j)) = IF i + 1 <= j THEN j - (i + 1) + 1 ELSE 0
  BY <1>2, <1>3, SubSeqProperties DEF Piece
<1>5. QED
  BY <1>1, <1>4

\* Adjacent pieces make one.
LEMMA PiecesJoin ==
    ASSUME NEW k \in 0 .. Len(test_avi), NEW j \in 0 .. k,
           NEW i \in 0 .. j
    PROVE  Piece(i, j) \o Piece(j, k) = Piece(i, k)
<1>1. Len(test_avi) \in Nat /\ test_avi \in Seq(Bytes)
  BY LenProperties, FileConstants
<1>2. /\ i + 1 \in 1 .. Len(test_avi) + 1
      /\ j \in (i + 1) - 1 .. Len(test_avi)
      /\ k \in j .. Len(test_avi)
  BY <1>1
<1>3. QED
  BY <1>1, <1>2, ConcatAdjacentSubSeq DEF Piece

\* The first n bytes of a piece, and the others, are pieces.
LEMMA PieceCut ==
    ASSUME NEW j \in 0 .. Len(test_avi), NEW i \in 0 .. j,
           NEW n \in 1 .. j - i
    PROVE  /\ SubSeq(Piece(i, j), 1, n) = Piece(i, i + n)
           /\ SubSeq(Piece(i, j), n + 1, j - i) = Piece(i + n, j)
<1>1. Len(test_avi) \in Nat /\ test_avi \in Seq(Bytes)
  BY LenProperties, FileConstants
<1>2. /\ i + 1 \in 1 .. Len(test_avi) /\ j \in 1 .. Len(test_avi)
      /\ n \in 1 .. j - (i + 1) + 1 /\ 1 \in 1 .. j - (i + 1) + 1
      /\ j - i \in 1 .. j - (i + 1) + 1
      /\ i + 1 + 1 - 1 = i + 1 /\ i + 1 + n - 1 = i + n
      /\ i + 1 + (j - i) - 1 = j
  BY <1>1
<1>3. SubSeq(Piece(i, j), 1, n) = Piece(i, i + n)
  <2>1. SubSeq(SubSeq(test_avi, i + 1, j), 1, n)
          = SubSeq(test_avi, i + 1 + 1 - 1, i + 1 + n - 1)
    BY <1>1, <1>2, SubSeqOfSubSeq
  <2>2. QED
    BY <1>2, <2>1 DEF Piece
<1>4. SubSeq(Piece(i, j), n + 1, j - i) = Piece(i + n, j)
  <2>1. CASE n < j - i
    <3>1. n + 1 \in 1 .. j - (i + 1) + 1 /\ i + 1 + (n + 1) - 1 = i + n + 1
      BY <1>1, <2>1
    <3>2. SubSeq(SubSeq(test_avi, i + 1, j), n + 1, j - i)
            = SubSeq(test_avi, i + 1 + (n + 1) - 1, i + 1 + (j - i) - 1)
      BY <1>1, <1>2, <3>1, SubSeqOfSubSeq
    <3>3. QED
      BY <1>2, <3>1, <3>2 DEF Piece
  <2>2. CASE n = j - i
    <3>1. n + 1 \in Int /\ j - i \in Int /\ j - i < n + 1
      BY <1>1, <2>2
    <3>2. i + n + 1 \in Int /\ j \in Int /\ j < i + n + 1
      BY <1>1, <2>2
    <3>3. SubSeq(Piece(i, j), n + 1, j - i) = <<>>
      BY <3>1, SubSeqEmpty
    <3>4. Piece(i + n, j) = <<>>
      BY <3>2, SubSeqEmpty DEF Piece
    <3>5. QED
      BY <3>3, <3>4
  <2>3. QED
    BY <1>1, <2>1, <2>2
<1>5. QED
  BY <1>3, <1>4

\* A piece without length is empty.
LEMMA PieceEmpty == \A i \in Nat : Piece(i, i) = <<>>
<1>1. ASSUME NEW i \in Nat
      PROVE  Piece(i, i) = <<>>
  <2>1. i + 1 \in Int /\ i \in Int /\ i < i + 1
    OBVIOUS
  <2>2. QED
    BY <2>1, SubSeqEmpty DEF Piece
<1>2. QED
  BY <1>1

-----------------------------------------------------------------------------
LEMMA FileInitInv ==
    ASSUME TF!Init
    PROVE  FileInv
<1>1. Len(test_avi) \in Nat
  BY LenProperties, FileConstants
<1>2. <<>> \in Seq(Bytes) /\ Len(<<>>) = 0
  BY EmptySeq
<1>3. Piece(0, 0) = <<>>
  BY PieceEmpty
<1>4. FileTypes
  <2>1. tf_stream \in Seq(Bytes) /\ tf_received_test_avi \in Seq(Bytes)
    BY <1>2 DEF TF!Init
  <2>2. tf_bytes_sent \in 0 .. Len(test_avi) /\ tf_total_received \in Nat
    BY <1>1 DEF TF!Init
  <2>3. QED
    BY <2>1, <2>2 DEF TF!Init, FileTypes, TF!ClientStates, TF!ServerStates
<1>5. Adjacent
  BY <1>2, <1>3 DEF TF!Init, Adjacent
<1>6. FileControl
  BY DEF TF!Init, FileControl
<1>7. QED
  BY <1>4, <1>5, <1>6 DEF FileInv

\* What leaves the data alone need only look after the connection.
LEMMA FileDataAside ==
    ASSUME FileInv, UNCHANGED file_data,
           tf_link = "reset" => tf_link' = "reset"
    PROVE  Adjacent'
BY DEF FileInv, Adjacent, file_data, Piece

\* The next chunk of the file follows what is under way.
LEMMA SendChunkInv ==
    ASSUME FileInv, TF!SendChunk
    PROVE  FileInv'
<1>1. /\ Len(test_avi) \in Nat /\ BUF_SIZE \in Nat \ {0}
      /\ tf_bytes_sent \in 0 .. Len(test_avi) /\ tf_total_received \in Nat
      /\ Len(tf_stream) \in Nat
  BY LenProperties, FileConstants DEF FileInv, FileTypes
<1>2. tf_bytes_sent' \in tf_bytes_sent .. Len(test_avi)
  BY <1>1 DEF TF!SendChunk, TF!UpTo
<1>3. tf_link \in {"open", "reset"}
  BY DEF TF!SendChunk, FileInv, FileControl
<1>4. CASE tf_link = "open"
  <2> DEFINE n == tf_bytes_sent' - tf_bytes_sent
             more == Piece(tf_bytes_sent, tf_bytes_sent')
  <2>1. more \in Seq(Bytes) /\ Len(more) = n
    <3>1. tf_bytes_sent' \in 0 .. Len(test_avi)
          /\ tf_bytes_sent \in 0 .. tf_bytes_sent'
      BY <1>1, <1>2
    <3>2. QED
      BY <3>1, PieceProperties
  <2>2. tf_stream' = tf_stream \o more
    BY <1>4 DEF TF!SendChunk, Piece
  <2>3. tf_total_received + Len(tf_stream) = tf_bytes_sent
    BY <1>4 DEF FileInv, Adjacent
  <2>4. tf_stream' = Piece(tf_total_received, tf_bytes_sent')
    <3>1. tf_bytes_sent \in 0 .. tf_bytes_sent'
          /\ tf_total_received \in 0 .. tf_bytes_sent
          /\ tf_bytes_sent' \in 0 .. Len(test_avi)
      BY <1>1, <1>2, <2>3
    <3>2. tf_stream = Piece(tf_total_received, tf_bytes_sent)
      BY <2>3 DEF FileInv, Adjacent
    <3>3. QED
      BY <2>2, <3>1, <3>2, PiecesJoin
  <2>5. tf_stream' \in Seq(Bytes) /\ Len(tf_stream') = Len(tf_stream) + n
    <3>1. tf_stream \in Seq(Bytes)
      BY DEF FileInv, FileTypes
    <3>2. QED
      BY <2>1, <2>2, <3>1, ConcatProperties
  <2>6. tf_total_received + Len(tf_stream') = tf_bytes_sent'
    BY <1>1, <1>2, <2>3, <2>5
  <2>7. FileTypes'
    <3>1. tf_bytes_sent' \in 0 .. Len(test_avi)
      BY <1>1, <1>2
    <3>2. QED
      BY <2>5, <3>1 DEF FileInv, FileTypes, TF!SendChunk
  <2>8. Adjacent'
    <3>1. tf_stream' = Piece(tf_total_received',
                             tf_total_received' + Len(tf_stream'))
      BY <2>4, <2>6 DEF TF!SendChunk
    <3>2. tf_total_received' + Len(tf_stream') <= tf_bytes_sent'
      BY <1>1, <1>2, <2>6 DEF TF!SendChunk
    <3>3. QED
      BY <2>6, <3>1, <3>2 DEF FileInv, Adjacent, TF!SendChunk, Piece
  <2>9. FileControl'
    BY <1>4 DEF FileInv, FileControl, TF!SendChunk
  <2>10. QED
    BY <2>7, <2>8, <2>9 DEF FileInv
<1>5. CASE tf_link = "reset"
  <2>1. tf_stream' = tf_stream
    BY <1>5 DEF TF!SendChunk
  <2>2. FileTypes'
    BY <1>1, <1>2, <2>1 DEF FileInv, FileTypes, TF!SendChunk
  <2>3. Adjacent'
    <3>1. tf_total_received + Len(tf_stream) <= tf_bytes_sent'
      BY <1>1, <1>2 DEF FileInv, Adjacent
    <3>2. QED
      BY <1>5, <2>1, <3>1 DEF FileInv, Adjacent, TF!SendChunk, Piece
  <2>4. FileControl'
    BY <1>5, <2>1 DEF FileInv, FileControl, TF!SendChunk
  <2>5. QED
    BY <2>2, <2>3, <2>4 DEF FileInv
<1>6. QED
  BY <1>3, <1>4, <1>5

\* The first m bytes of a piece, be it none, are a piece.
LEMMA PieceHead ==
    ASSUME NEW j \in 0 .. Len(test_avi), NEW i \in 0 .. j,
           NEW m \in 0 .. j - i
    PROVE  SubSeq(Piece(i, j), 1, m) = Piece(i, i + m)
<1>1. Len(test_avi) \in Nat
  BY LenProperties, FileConstants
<1>2. CASE m = 0
  <2>1. 1 \in Int /\ m \in Int /\ m < 1 /\ i + m = i /\ i \in Nat
    BY <1>1, <1>2
  <2>2. SubSeq(Piece(i, j), 1, m) = <<>>
    BY <2>1, SubSeqEmpty
  <2>3. QED
    BY <2>1, <2>2, PieceEmpty
<1>3. CASE m # 0
  <2>1. m \in 1 .. j - i
    BY <1>1, <1>3
  <2>2. QED
    BY <2>1, PieceCut
<1>4. QED
  BY <1>2, <1>3

\* What recv returns follows what has been taken, and what fwrite writes of it
\* is a beginning of it.
LEMMA SaveChunkInv ==
    ASSUME FileInv, TF!SaveChunk
    PROVE  /\ FileInv'
           /\ tf_total_received' \in tf_total_received + 1 .. Len(test_avi)
           /\ \E p \in tf_total_received .. tf_total_received' :
                /\ tf_received_test_avi'
                     = tf_received_test_avi \o Piece(tf_total_received, p)
                /\ tf_unwritten' = (tf_unwritten \/ p < tf_total_received')
<1>1. /\ Len(test_avi) \in Nat /\ tf_bytes_sent \in 0 .. Len(test_avi)
      /\ tf_total_received \in Nat /\ Len(tf_stream) \in Nat
  BY LenProperties, FileConstants DEF FileInv, FileTypes
<1>n. PICK n \in 1 .. Len(tf_stream) : \E m \in 0 .. n :
        /\ tf_stream' = SubSeq(tf_stream, n + 1, Len(tf_stream))
        /\ tf_total_received' = tf_total_received + n
        /\ tf_received_test_avi'
             = tf_received_test_avi \o SubSeq(tf_stream, 1, m)
        /\ tf_unwritten' = (tf_unwritten \/ m < n)
  BY DEF TF!SaveChunk
<1>2. PICK m \in 0 .. n :
        /\ tf_stream' = SubSeq(tf_stream, n + 1, Len(tf_stream))
        /\ tf_total_received' = tf_total_received + n
        /\ tf_received_test_avi'
             = tf_received_test_avi \o SubSeq(tf_stream, 1, m)
        /\ tf_unwritten' = (tf_unwritten \/ m < n)
  BY <1>n
<1>3. n \in Nat \ {0} /\ n <= Len(tf_stream) /\ m \in Nat /\ m <= n
  BY <1>1, <1>n, <1>2
<1> DEFINE i == tf_total_received
           j == tf_total_received + Len(tf_stream)
<1>4. /\ j \in 0 .. Len(test_avi) /\ i \in 0 .. j /\ j - i = Len(tf_stream)
      /\ n \in 1 .. j - i /\ m \in 0 .. j - i /\ i + n \in 0 .. j
      /\ i + n <= Len(test_avi)
      /\ tf_stream = Piece(i, j)
  BY <1>1, <1>3 DEF FileInv, Adjacent
<1>5. tf_stream' = Piece(i + n, j)
  BY <1>2, <1>4, PieceCut, ZenonT(30)
<1>6. /\ tf_stream' \in Seq(Bytes) /\ Len(tf_stream') = Len(tf_stream) - n
  <2>1. tf_stream' \in Seq(Bytes) /\ Len(tf_stream') = j - (i + n)
    BY <1>4, <1>5, PieceProperties
  <2>2. QED
    BY <1>1, <1>3, <2>1
<1>7. tf_received_test_avi' = tf_received_test_avi \o Piece(i, i + m)
  <2>1. SubSeq(tf_stream, 1, m) = Piece(i, i + m)
    BY <1>4, PieceHead, ZenonT(30)
  <2>2. QED
    BY <1>2, <2>1
<1>8. tf_received_test_avi' \in Seq(Bytes)
  <2>1. i + m \in 0 .. Len(test_avi) /\ i \in 0 .. i + m
    BY <1>1, <1>3, <1>4
  <2>2. Piece(i, i + m) \in Seq(Bytes)
    BY <2>1, PieceProperties
  <2>3. tf_received_test_avi \in Seq(Bytes)
    BY DEF FileInv, FileTypes
  <2>4. QED
    BY <1>7, <2>2, <2>3, ConcatProperties
<1>9. ~tf_unwritten' => tf_received_test_avi' = Piece(0, i + n)
  <2> SUFFICES ASSUME ~tf_unwritten'
               PROVE  tf_received_test_avi' = Piece(0, i + n)
    OBVIOUS
  <2>1. ~tf_unwritten /\ ~(m < n)
    BY <1>2
  <2>2. m = n
    BY <1>3, <2>1
  <2>3. tf_received_test_avi = Piece(0, i)
    BY <2>1 DEF FileInv, Adjacent
  <2>4. i + n \in 0 .. Len(test_avi) /\ i \in 0 .. i + n /\ 0 \in 0 .. i
    BY <1>1, <1>3, <1>4
  <2>5. Piece(0, i) \o Piece(i, i + n) = Piece(0, i + n)
    BY <2>4, PiecesJoin
  <2>6. QED
    BY <1>7, <2>2, <2>3, <2>5
<1>10. j = tf_total_received' + Len(tf_stream')
  <2>1. tf_total_received' = i + n /\ Len(tf_stream') = Len(tf_stream) - n
    BY <1>2, <1>6
  <2>2. QED
    BY <1>1, <1>3, <2>1
<1>11. FileTypes'
  <2>1. tf_total_received' \in Nat
    BY <1>1, <1>2, <1>3
  <2>2. QED
    BY <1>6, <1>8, <2>1 DEF FileInv, FileTypes, TF!SaveChunk
<1>12. Adjacent'
  <2>1. tf_stream' = Piece(tf_total_received',
                           tf_total_received' + Len(tf_stream'))
    BY <1>2, <1>5, <1>10
  <2>2. j <= tf_bytes_sent /\ (tf_link # "reset" => j = tf_bytes_sent)
    BY DEF FileInv, Adjacent
  <2>3. tf_bytes_sent' = tf_bytes_sent /\ tf_link' = tf_link
    BY DEF TF!SaveChunk
  <2>4. tf_total_received' + Len(tf_stream') <= tf_bytes_sent'
        /\ (tf_link' # "reset"
             => tf_total_received' + Len(tf_stream') = tf_bytes_sent')
    BY <1>10, <2>2, <2>3
  <2>5. ~tf_unwritten' => tf_received_test_avi' = Piece(0, tf_total_received')
    BY <1>2, <1>9
  <2>6. QED
    BY <2>1, <2>4, <2>5 DEF Adjacent, Piece
<1>13. FileControl'
  BY DEF FileInv, FileControl, TF!SaveChunk
<1>14. tf_total_received' \in tf_total_received + 1 .. Len(test_avi)
  BY <1>1, <1>2, <1>3, <1>4
<1>15. \E p \in tf_total_received .. tf_total_received' :
         /\ tf_received_test_avi'
              = tf_received_test_avi \o Piece(tf_total_received, p)
         /\ tf_unwritten' = (tf_unwritten \/ p < tf_total_received')
  <2>1. i + m \in tf_total_received .. tf_total_received'
    BY <1>1, <1>2, <1>3
  <2>2. (i + m < tf_total_received') <=> (m < n)
    BY <1>1, <1>2, <1>3
  <2>3. tf_unwritten' = (tf_unwritten \/ i + m < tf_total_received')
    BY <1>2, <2>2, Zenon
  <2>4. QED
    BY <1>7, <2>1, <2>3, Zenon
<1>16. QED
  BY <1>11, <1>12, <1>13, <1>14, <1>15 DEF FileInv

-----------------------------------------------------------------------------
\* The invariant is inductive.
LEMMA FileStepInv ==
    ASSUME FileInv, [TF!Next]_(TF!vars)
    PROVE  FileInv'
<1> USE DEF FileInv
<1>1. CASE TF!Connect
  <2>1. Adjacent'
    BY <1>1, FileDataAside DEF TF!Connect, file_data
  <2>2. QED
    BY <1>1, <2>1 DEF TF!Connect, FileTypes, FileControl, TF!ClientStates
<1>2. CASE TF!ConnectFails
  <2>1. Adjacent'
    BY <1>2, FileDataAside DEF TF!ConnectFails, file_data
  <2>2. QED
    BY <1>2, <2>1 DEF TF!ConnectFails, FileTypes, FileControl, TF!ClientStates
<1>3. CASE TF!OpenFails
  <2>1. Adjacent'
    BY <1>3, FileDataAside DEF TF!OpenFails, TF!Hangup, file_data
  <2>2. QED
    BY <1>3, <2>1 DEF TF!OpenFails, TF!Hangup, FileTypes, FileControl,
         TF!ClientStates
<1>4. CASE TF!Open
  <2>1. Adjacent'
    BY <1>4, FileDataAside DEF TF!Open, file_data
  <2>2. QED
    BY <1>4, <2>1 DEF TF!Open, FileTypes, FileControl, TF!ClientStates
<1>5. CASE TF!SendChunk
  BY <1>5, SendChunkInv
<1>6. CASE TF!Complete
  <2>1. Adjacent'
    BY <1>6, FileDataAside DEF TF!Complete, TF!Hangup, file_data
  <2>2. QED
    BY <1>6, <2>1 DEF TF!Complete, TF!Hangup, FileTypes, FileControl,
         TF!ClientStates
<1>7. CASE TF!Listen
  <2>1. Adjacent'
    BY <1>7, FileDataAside DEF TF!Listen, file_data
  <2>2. QED
    BY <1>7, <2>1 DEF TF!Listen, FileTypes, FileControl, TF!ServerStates
<1>8. CASE TF!SetupFails
  <2>1. Adjacent'
    BY <1>8, FileDataAside DEF TF!SetupFails, file_data
  <2>2. QED
    BY <1>8, <2>1 DEF TF!SetupFails, FileTypes, FileControl, TF!ServerStates
<1>9. CASE TF!Accept
  <2>1. Adjacent'
    BY <1>9, FileDataAside DEF TF!Accept, file_data
  <2>2. QED
    BY <1>9, <2>1 DEF TF!Accept, FileTypes, FileControl, TF!ServerStates
<1>10. CASE TF!GiveUp \/ TF!Break
  <2>1. /\ tf_link' = "reset" /\ tf_stream' = <<>> /\ tf_client' = tf_client
        /\ tf_bytes_sent' = tf_bytes_sent
        /\ tf_total_received' = tf_total_received
        /\ tf_received_test_avi' = tf_received_test_avi
        /\ tf_unwritten' = tf_unwritten
        /\ tf_server # "saved" /\ tf_server' \in {tf_server, "failed"}
    BY <1>10 DEF TF!GiveUp, TF!Break
  <2>2. tf_link # "none" /\ tf_server' \in TF!ServerStates
    BY <1>10, <2>1 DEF TF!GiveUp, TF!Break, FileTypes, TF!ServerStates
  <2>3. <<>> \in Seq(Bytes) /\ Len(<<>>) = 0
    BY EmptySeq
  <2>4. FileTypes'
    BY <2>1, <2>2, <2>3 DEF FileTypes
  <2>5. Adjacent'
    <3>1. tf_total_received \in Nat /\ Len(tf_stream) \in Nat
          /\ tf_bytes_sent \in Nat
      BY LenProperties, FileConstants DEF FileTypes
    <3>2. Piece(tf_total_received, tf_total_received) = <<>>
      BY <3>1, PieceEmpty
    <3>3. tf_total_received + Len(tf_stream') = tf_total_received
      BY <2>1, <2>3, <3>1
    <3>4. QED
      <4>1. tf_stream' = Piece(tf_total_received',
                               tf_total_received' + Len(tf_stream'))
        BY <2>1, <3>2, <3>3
      <4>2. tf_total_received' + Len(tf_stream') <= tf_bytes_sent'
        BY <2>1, <3>1, <3>3 DEF Adjacent
      <4>3. QED
        BY <2>1, <4>1, <4>2 DEF Adjacent, Piece
  <2>6. FileControl'
    BY <1>10, <2>1 DEF FileControl, TF!GiveUp, TF!Break
  <2>7. QED
    BY <2>4, <2>5, <2>6
<1>11. CASE TF!Create
  <2>1. tf_received_test_avi' = tf_received_test_avi
    BY <1>11 DEF TF!Create, FileControl
  <2>2. Adjacent'
    BY <1>11, <2>1, FileDataAside DEF TF!Create, file_data
  <2>3. QED
    BY <1>11, <2>1, <2>2 DEF TF!Create, FileTypes, FileControl, TF!ServerStates
<1>12. CASE TF!SaveChunk
  BY <1>12, SaveChunkInv
<1>13. CASE TF!Report
  <2>1. Adjacent'
    BY <1>13, FileDataAside DEF TF!Report, file_data
  <2>2. QED
    BY <1>13, <2>1 DEF TF!Report, TF!AtEnd, FileTypes, FileControl,
         TF!ServerStates
<1>14. CASE TF!Kill
  <2>1. Adjacent'
    BY <1>14, FileDataAside DEF TF!Kill, TF!Hangup, file_data
  <2>2. QED
    BY <1>14, <2>1 DEF TF!Kill, TF!Hangup, FileTypes, FileControl,
         TF!ClientStates
<1>15. CASE UNCHANGED TF!vars
  <2>1. Adjacent'
    BY <1>15, FileDataAside DEF TF!vars, file_data
  <2>2. QED
    BY <1>15, <2>1 DEF TF!vars, FileTypes, FileControl
<1>16. QED
  BY <1>1, <1>2, <1>3, <1>4, <1>5, <1>6, <1>7, <1>8, <1>9, <1>10, <1>11,
     <1>12, <1>13, <1>14, <1>15 DEF TF!Next

LEMMA FileInvariance == Spec => []FileInv
<1>1. Init => FileInv
  BY FileInitInv DEF Init
<1>2. FileInv /\ [Next]_vars => FileInv'
  BY OneProgram, FileStepInv
<1>3. QED
  BY <1>1, <1>2, PTL DEF Spec

-----------------------------------------------------------------------------
\* For every file and buffer size: avi_server calls a file saved that is not
\* whole only after a reset, a client that was killed or had no file, or a
\* failing fwrite.  While the connection is closed in order, the client has
\* come to the end, and all that it sent has been taken.
THEOREM Whole == Spec => []ShortOnlyWhenBroken
<1>1. FileInv => ShortOnlyWhenBroken
  <2> SUFFICES ASSUME FileInv, tf_server = "saved", tf_link # "reset",
                      tf_client \notin {"killed", "no_file"}, ~tf_unwritten
               PROVE  tf_received_test_avi = test_avi
    BY DEF ShortOnlyWhenBroken, TF!ShortOnlyWhenBroken
  <2>1. tf_bytes_sent = Len(test_avi) /\ tf_stream = <<>>
    BY DEF FileInv, FileControl, FileTypes
  <2>2. tf_total_received + Len(tf_stream) = tf_bytes_sent
    BY DEF FileInv, Adjacent
  <2>3. tf_total_received = Len(test_avi)
    BY <2>1, <2>2 DEF FileInv, FileTypes
  <2>4. 0 + 1 = 1
    OBVIOUS
  <2>5. tf_received_test_avi = SubSeq(test_avi, 1, Len(test_avi))
    BY <2>3, <2>4 DEF FileInv, Adjacent, Piece
  <2>6. QED
    BY <2>5, SubSeqFull, FileConstants
<1>2. Spec => []FileInv
  BY FileInvariance
<1>3. QED
  BY <1>1, <1>2, PTL

\* For every file and buffer size: client and server together, whatever
\* breaks, whenever, and whichever writes fail, implement a copy that goes
\* once through the file, with holes only where a write failed, until it is
\* declared finished.
THEOREM Copies == Spec => IsFileCopy
<1>1. Init => TF!Copy!Init
  BY DEF Init, TF!Init, TF!Copy!Init
<1>2. FileInv /\ [Next]_vars =>
          [TF!Copy!Extend \/ TF!Copy!Finish]_(TF!Copy!vars)
  <2> SUFFICES ASSUME FileInv, [TF!Next]_(TF!vars)
               PROVE  [TF!Copy!Extend \/ TF!Copy!Finish]_(TF!Copy!vars)
    BY OneProgram
  <2>1. CASE TF!SaveChunk
    <3>1. tf_total_received' \in tf_total_received + 1 .. Len(test_avi)
      BY <2>1, SaveChunkInv
    <3>2. PICK p \in tf_total_received .. tf_total_received' :
            /\ tf_received_test_avi'
                 = tf_received_test_avi \o Piece(tf_total_received, p)
            /\ tf_unwritten' = (tf_unwritten \/ p < tf_total_received')
      BY <2>1, SaveChunkInv
    <3>3. tf_server = "receiving" /\ tf_server' = tf_server
      BY <2>1 DEF TF!SaveChunk
    <3>4. tf_received_test_avi' = tf_received_test_avi
              \o SubSeq(test_avi, tf_total_received + 1, p)
      BY <3>2 DEF Piece
    <3>5. TF!Copy!Extend
      BY <3>1, <3>2, <3>3, <3>4, Zenon DEF TF!Copy!Extend
    <3>6. QED
      BY <3>5
  <2>2. CASE TF!Report
    BY <2>2 DEF TF!Report, TF!Copy!Finish
  <2>3. CASE TF!Create
    BY <2>3 DEF TF!Create, FileInv, FileControl, TF!Copy!vars
  <2>4. CASE TF!Listen \/ TF!SetupFails \/ TF!Accept \/ TF!GiveUp
    BY <2>4 DEF TF!Listen, TF!SetupFails, TF!Accept, TF!GiveUp, TF!Copy!vars
  <2>5. CASE TF!Connect \/ TF!ConnectFails \/ TF!OpenFails \/ TF!Open
             \/ TF!SendChunk \/ TF!Complete \/ TF!Break \/ TF!Kill
             \/ UNCHANGED TF!vars
    BY <2>5 DEF TF!Connect, TF!ConnectFails, TF!OpenFails, TF!Open,
         TF!SendChunk, TF!Complete, TF!Break, TF!Kill, TF!vars,
         TF!Copy!vars
  <2>6. QED
    BY <2>1, <2>2, <2>3, <2>4, <2>5 DEF TF!Next
<1>3. Spec => []FileInv
  BY FileInvariance
<1>4. QED
  BY <1>1, <1>2, <1>3, PTL
     DEF Spec, IsFileCopy, TF!IsFileCopy, TF!Copy!Spec

-----------------------------------------------------------------------------
(***************************************************************************)
(* Messages over UDP                                                       *)
(***************************************************************************)
\* An answer to the message of c.
AnswerTo(c) == [to |-> c, text |-> c]

\* The server holds the message of c, between its recvfrom and its sendto.
Held(c) == ue_server = "replying" /\ ue_client_addr = c

UnderWay(c) ==
    c \in ue_requests \/ Held(c) \/ AnswerTo(c) \in ue_replies

\* What the server holds, sends and hands over belongs to one client.
OwnAnswers ==
    /\ ue_client \in [Clients -> UE!ClientStates]
    /\ ue_answer \in [Clients -> Clients \cup {ue_None}]
    /\ \A c \in Clients : ue_answer[c] \in {c, ue_None}
    /\ ue_requests \subseteq Clients
    /\ ue_replies \subseteq {AnswerTo(c) : c \in Clients}
    /\ ue_server = "replying" =>
           ue_client_addr \in Clients /\ ue_recive_buf = ue_client_addr

\* What a client waits for is there unless it was lost.
Awaited ==
    \A c \in Clients :
        ue_client[c] = "waiting" /\ ue_server # "ended"
            /\ "lost" \notin ue_trouble => UnderWay(c)

\* While nothing is doubled, a message exists once, and only for a client
\* that waits for it or did.
Single ==
    "doubled" \notin ue_trouble =>
        \A c \in Clients :
            /\ UnderWay(c) => ue_client[c] \in {"waiting", "killed"}
            /\ c \in ue_requests => ~Held(c) /\ AnswerTo(c) \notin ue_replies
            /\ Held(c) => AnswerTo(c) \notin ue_replies

\* Why the server may fail and has ended.
Blame ==
    /\ \A c \in Clients :
           ue_client[c] = "killed" => "killed" \in ue_trouble
    /\ ue_unreachable => ue_trouble \cap {"killed", "doubled"} # {}
    /\ UE!ServerEndsOnlyAfterKill

EchoInv == OwnAnswers /\ Awaited /\ Single /\ Blame

LEMMA EchoInitInv ==
    ASSUME UE!Init
    PROVE  EchoInv
BY DEF UE!Init, EchoInv, OwnAnswers, Awaited, Single, Blame, UnderWay, Held,
       UE!ClientStates, UE!ServerEndsOnlyAfterKill

LEMMA EchoStepInv ==
    ASSUME EchoInv, [UE!Next]_(UE!vars)
    PROVE  EchoInv'
<1> USE DEF EchoInv, UnderWay, Held
<1>1. ASSUME NEW c \in Clients, UE!Ask(c)
      PROVE  EchoInv'
  <2>1. OwnAnswers'
    BY <1>1 DEF UE!Ask, OwnAnswers, UE!ClientStates
  <2>2. Awaited'
    BY <1>1 DEF UE!Ask, OwnAnswers, Awaited
  <2>3. Single'
    BY <1>1 DEF UE!Ask, OwnAnswers, Single
  <2>4. Blame'
    BY <1>1 DEF UE!Ask, OwnAnswers, Blame, UE!ServerEndsOnlyAfterKill
  <2>5. QED
    BY <2>1, <2>2, <2>3, <2>4
<1>2. ASSUME NEW c \in Clients, UE!AskFails(c)
      PROVE  EchoInv'
  <2>1. OwnAnswers'
    BY <1>2 DEF UE!AskFails, OwnAnswers, UE!ClientStates
  <2>2. Awaited'
    BY <1>2 DEF UE!AskFails, OwnAnswers, Awaited
  <2>3. Single'
    BY <1>2 DEF UE!AskFails, OwnAnswers, Single
  <2>4. Blame'
    BY <1>2 DEF UE!AskFails, OwnAnswers, Blame, UE!ServerEndsOnlyAfterKill
  <2>5. QED
    BY <2>1, <2>2, <2>3, <2>4
<1>3. ASSUME NEW c \in Clients, UE!PrintAnswer(c)
      PROVE  EchoInv'
  <2>1. /\ AnswerTo(c) \in ue_replies
        /\ ue_replies' = ue_replies \ {AnswerTo(c)}
        /\ ue_answer' = [ue_answer EXCEPT ![c] = c]
    <3>1. PICK r \in ue_replies :
            /\ r.to = c
            /\ ue_answer' = [ue_answer EXCEPT ![c] = r.text]
            /\ ue_replies' = ue_replies \ {r}
      BY <1>3 DEF UE!PrintAnswer
    <3>2. r = AnswerTo(c)
      BY <3>1 DEF OwnAnswers, AnswerTo
    <3>3. QED
      BY <3>1, <3>2 DEF AnswerTo
  <2>2. OwnAnswers'
    BY <1>3, <2>1 DEF UE!PrintAnswer, OwnAnswers, UE!ClientStates
  <2>3. Awaited'
    BY <1>3, <2>1 DEF UE!PrintAnswer, OwnAnswers, Awaited, AnswerTo
  <2>4. Single'
    BY <1>3, <2>1 DEF UE!PrintAnswer, OwnAnswers, Single
  <2>5. Blame'
    BY <1>3 DEF UE!PrintAnswer, OwnAnswers, Blame, UE!ServerEndsOnlyAfterKill
  <2>6. QED
    BY <2>2, <2>3, <2>4, <2>5
<1>4. ASSUME NEW c \in Clients, UE!Refused(c)
      PROVE  EchoInv'
  <2>1. OwnAnswers'
    BY <1>4 DEF UE!Refused, OwnAnswers, UE!ClientStates
  <2>2. Awaited'
    BY <1>4 DEF UE!Refused, OwnAnswers, Awaited
  <2>3. Single'
    BY <1>4 DEF UE!Refused, OwnAnswers, Single
  <2>4. Blame'
    BY <1>4 DEF UE!Refused, OwnAnswers, Blame, UE!ServerEndsOnlyAfterKill
  <2>5. QED
    BY <2>1, <2>2, <2>3, <2>4
<1>5. ASSUME NEW c \in Clients, UE!Kill(c)
      PROVE  EchoInv'
  <2>1. OwnAnswers'
    BY <1>5 DEF UE!Kill, OwnAnswers, UE!ClientStates
  <2>2. Awaited'
    BY <1>5 DEF UE!Kill, OwnAnswers, Awaited
  <2>3. Single'
    BY <1>5 DEF UE!Kill, OwnAnswers, Single
  <2>4. Blame'
    BY <1>5 DEF UE!Kill, OwnAnswers, Blame, UE!ServerEndsOnlyAfterKill
  <2>5. QED
    BY <2>1, <2>2, <2>3, <2>4
<1>6. ASSUME NEW c \in Clients, UE!ServerReceive(c)
      PROVE  EchoInv'
  <2>1. OwnAnswers'
    BY <1>6 DEF UE!ServerReceive, OwnAnswers
  <2>2. Awaited'
    BY <1>6 DEF UE!ServerReceive, OwnAnswers, Awaited
  <2>3. Single'
    BY <1>6 DEF UE!ServerReceive, OwnAnswers, Single
  <2>4. Blame'
    BY <1>6 DEF UE!ServerReceive, OwnAnswers, Blame,
                UE!ServerEndsOnlyAfterKill
  <2>5. QED
    BY <2>1, <2>2, <2>3, <2>4
<1>7. ASSUME NEW c \in Clients, UE!LoseRequest(c)
      PROVE  EchoInv'
  BY <1>7 DEF UE!LoseRequest, OwnAnswers, Awaited, Single, Blame,
              UE!ServerEndsOnlyAfterKill
<1>8. ASSUME NEW c \in Clients, UE!LoseReply(c)
      PROVE  EchoInv'
  BY <1>8 DEF UE!LoseReply, OwnAnswers, Awaited, Single, Blame,
              UE!ServerEndsOnlyAfterKill
<1>9. ASSUME NEW c \in Clients, UE!Bounce(c)
      PROVE  EchoInv'
  <2>1. /\ AnswerTo(c) \in ue_replies
        /\ ue_replies' = ue_replies \ {AnswerTo(c)}
    BY <1>9 DEF UE!Bounce, OwnAnswers, AnswerTo
  <2>2. OwnAnswers'
    BY <1>9, <2>1 DEF UE!Bounce, OwnAnswers
  <2>3. Awaited'
    BY <1>9, <2>1 DEF UE!Bounce, OwnAnswers, Awaited, AnswerTo
  <2>4. Single'
    BY <1>9, <2>1 DEF UE!Bounce, OwnAnswers, Single
  <2>5. Blame'
    \* The client is not waiting, and its answer was on its way.
    <3>1. ue_trouble \cap {"killed", "doubled"} # {}
      BY <1>9, <2>1 DEF UE!Bounce, Single, Blame
    <3>2. QED
      BY <1>9, <3>1 DEF UE!Bounce, Blame, UE!ServerEndsOnlyAfterKill
  <2>6. QED
    BY <2>2, <2>3, <2>4, <2>5
<1>10. ASSUME UE!Bind \/ UE!SetupFails \/ UE!ServerFails \/ UE!ServerReset
       PROVE  EchoInv'
  <2> USE DEF UE!Bind, UE!SetupFails, UE!ServerFails, UE!ServerReset
  <2>1. OwnAnswers'
    BY <1>10 DEF OwnAnswers
  <2>2. Awaited'
    BY <1>10 DEF Awaited
  <2>3. Single'
    BY <1>10 DEF Single
  <2>4. Blame'
    BY <1>10 DEF Blame, UE!ServerEndsOnlyAfterKill
  <2>5. QED
    BY <2>1, <2>2, <2>3, <2>4
<1>11. ASSUME UE!ServerReply
       PROVE  EchoInv'
  <2>1. /\ ue_client_addr \in Clients
        /\ ue_replies' = ue_replies \cup {AnswerTo(ue_client_addr)}
    BY <1>11 DEF UE!ServerReply, OwnAnswers, AnswerTo
  <2>2. OwnAnswers'
    BY <1>11, <2>1 DEF UE!ServerReply, OwnAnswers
  <2>3. Awaited'
    BY <1>11, <2>1 DEF UE!ServerReply, OwnAnswers, Awaited
  <2>4. Single'
    BY <1>11, <2>1 DEF UE!ServerReply, OwnAnswers, Single, AnswerTo
  <2>5. Blame'
    BY <1>11 DEF UE!ServerReply, Blame, UE!ServerEndsOnlyAfterKill
  <2>6. QED
    BY <2>2, <2>3, <2>4, <2>5
<1>12. CASE UNCHANGED UE!vars
  BY <1>12 DEF UE!vars, OwnAnswers, Awaited, Single, Blame,
               UE!ServerEndsOnlyAfterKill
<1>13. QED
  BY <1>1, <1>2, <1>3, <1>4, <1>5, <1>6, <1>7, <1>8, <1>9, <1>10, <1>11,
     <1>12 DEF UE!Next

\* Clients of the echo over UDP disturb each other in one way only.
THEOREM Apart == Spec => []ClientsApart
<1>1. Init => EchoInv
  BY EchoInitInv DEF Init
<1>2. EchoInv /\ [Next]_vars => EchoInv'
  BY OneProgram, EchoStepInv
<1>3. EchoInv => ClientsApart
  <2>1. ASSUME EchoInv, NEW c \in Clients, ue_client[c] = "waiting",
               ue_server = "receiving", c \notin ue_requests,
               \A r \in ue_replies : r.to # c
        PROVE  "lost" \in ue_trouble
    BY <2>1 DEF EchoInv, Awaited, UnderWay, Held, AnswerTo
  <2>2. QED
    BY <2>1 DEF EchoInv, OwnAnswers, Blame, ClientsApart, UE!ClientsApart,
                UE!AnswerIsOwn
<1>4. QED
  BY <1>1, <1>2, <1>3, PTL DEF Spec

-----------------------------------------------------------------------------
(***************************************************************************)
(* A file over UDP                                                         *)
(***************************************************************************)
Datagrams == 1 .. Len(uf_net)

DatagramTypes ==
    /\ uf_client \in {"started", "sending", "sent", "failed"}
    /\ uf_server \in UF!ServerStates
    /\ uf_trouble \subseteq UF!Troubles
    /\ uf_sent_size \in 0 .. Len(test_avi)
    /\ uf_net \in Seq(Seq(Bytes))
    /\ uf_received_size \in Nat
    /\ uf_received_test_avi \in Seq(Bytes)
    /\ uf_client \in {"started", "failed"} => uf_sent_size = 0
    /\ uf_client \in {"started", "failed"} /\ "stray" \notin uf_trouble =>
           uf_net = <<>> /\ uf_server # "receiving"
    /\ uf_client = "sent" => uf_sent_size = Len(test_avi)
    /\ uf_server \in {"started", "bound"} =>
           uf_received_size = 0 /\ uf_received_test_avi = <<>>
    /\ "misread" \notin uf_trouble /\ uf_server = "receiving" =>
           uf_total_size = Len(test_avi)

\* A piece of the file lies between the places l and u of it, in what was
\* sent; the size counts as the place before all others.
IsPlace(d, l, u, sent) ==
    /\ -1 <= l /\ l <= u /\ 0 <= u /\ u <= sent
    /\ 0 <= l => d = SubSeq(test_avi, l + 1, u)

\* The datagrams on their way lie between lo and hi, in the order of the file
\* and side by side at most.
Placed(net, sent, lo, hi) ==
    /\ \A i \in 1 .. Len(net) : IsPlace(net[i], lo[i], hi[i], sent)
    /\ \A i, j \in 1 .. Len(net) : i < j => hi[i] <= lo[j]

\* All of them lie behind h, up to where no more than h bytes can have been
\* counted, and only the right ones make up all of them.
Behind(lo, h) ==
    /\ h <= uf_sent_size
    /\ \A i \in Datagrams : h <= lo[i]
    /\ uf_received_size <= h
    /\ uf_received_size = h => uf_received_test_avi = SubSeq(test_avi, 1, h)

OnlyLosses ==
    uf_trouble \subseteq {"lost"} =>
        /\ \E lo, hi \in [Datagrams -> Int] :
             /\ Placed(uf_net, uf_sent_size, lo, hi)
             /\ uf_server = "receiving" =>
                    \E h \in Nat : Behind(lo, h)
        /\ uf_server = "received" => uf_received_test_avi = test_avi

\* The bytes on their way, those of a size datagram as well.
BytesUnderWay == Len(FlattenSeq(uf_net))

\* As long as nothing was lost, what is counted and what can be counted still
\* comes up to what was sent.
EnoughUnderWay ==
    uf_trouble \cap {"lost", "misread"} = {} =>
        /\ uf_server = "receiving" =>
               BytesUnderWay + uf_received_size >= uf_sent_size
        /\ uf_server \in {"started", "bound"}
               /\ uf_client \in {"sending", "sent"} =>
                   BytesUnderWay >= uf_sent_size + Len(size_bytes)

DatagramInv == DatagramTypes /\ OnlyLosses /\ EnoughUnderWay

LEMMA DatagramConstants ==
    /\ test_avi \in Seq(Bytes) /\ Len(test_avi) \in Nat
    /\ size_bytes \in Seq(Bytes) /\ Len(size_bytes) \in Nat
    /\ PIECE \in Nat /\ 0 < PIECE
    /\ UF!SIZE = Len(size_bytes)
    /\ Strays \subseteq Seq(Bytes)
<1>1. /\ test_avi \in Seq(Bytes) /\ size_bytes \in Seq(Bytes)
      /\ PIECE \in Nat /\ UF!SIZE < PIECE /\ Strays \subseteq Seq(Bytes)
  BY ProgramsAssumption DEF UF!UdpFileAssumption
<1>2. UF!SIZE = Len(size_bytes)
  BY DEF UF!SIZE
<1>3. Len(test_avi) \in Nat /\ Len(size_bytes) \in Nat
  BY <1>1, LenProperties
<1>4. 0 < PIECE
  BY <1>1, <1>2, <1>3
<1>5. QED
  BY <1>1, <1>2, <1>3, <1>4

\* The same operators of sequences, seen from the module of the program.
LEMMA SameOperators ==
    /\ \A s, i : UF!RemoveAt(s, i) = RemoveAt(s, i)
    /\ \A s, i, e : UF!InsertAt(s, i, e) = InsertAt(s, i, e)
BY DEF UF!RemoveAt, RemoveAt, UF!InsertAt, InsertAt

\* Where a piece ends.
UpTo(p) == IF p + PIECE <= Len(test_avi) THEN p + PIECE ELSE Len(test_avi)

LEMMA PieceUpTo ==
    ASSUME NEW p \in 0 .. Len(test_avi)
    PROVE  /\ UF!Piece(p) = SubSeq(test_avi, p + 1, UpTo(p))
           /\ UpTo(p) \in p .. Len(test_avi)
           /\ UF!Piece(p) \in Seq(Bytes)
           /\ Len(UF!Piece(p)) = UpTo(p) - p
<1>1. UF!Piece(p) = SubSeq(test_avi, p + 1, UpTo(p))
  BY DEF UF!Piece, UpTo
<1>2. UpTo(p) \in p .. Len(test_avi)
  BY DatagramConstants DEF UpTo
<1>3. UpTo(p) \in Nat /\ p \in Nat
  BY <1>2, DatagramConstants
<1>4. \A i \in p + 1 .. UpTo(p) : test_avi[i] \in Bytes
  BY <1>2, <1>3, DatagramConstants, ElementOfSeq
<1>5. /\ SubSeq(test_avi, p + 1, UpTo(p)) \in Seq(Bytes)
      /\ Len(SubSeq(test_avi, p + 1, UpTo(p)))
         = IF p + 1 <= UpTo(p) THEN UpTo(p) - (p + 1) + 1 ELSE 0
  BY <1>3, <1>4, SubSeqProperties
<1>6. (IF p + 1 <= UpTo(p) THEN UpTo(p) - (p + 1) + 1 ELSE 0) = UpTo(p) - p
  BY <1>2, <1>3
<1>7. QED
  BY <1>1, <1>2, <1>5, <1>6

LEMMA DatagramInitInv ==
    ASSUME UF!Init
    PROVE  DatagramInv
<1> USE DEF UF!Init
<1>1. DatagramTypes
  <2>1. <<>> \in Seq(Bytes) /\ <<>> \in Seq(Seq(Bytes))
    OBVIOUS
  <2>2. 0 \in 0 .. Len(test_avi)
    BY DatagramConstants
  <2>3. QED
    BY <2>1, <2>2 DEF DatagramTypes, UF!ServerStates, UF!Troubles
<1>2. OnlyLosses
  <2> DEFINE lo == [i \in Datagrams |-> 0]
  <2>1. Datagrams = {}
    BY DEF Datagrams
  <2>2. lo \in [Datagrams -> Int]
    OBVIOUS
  <2>3. Placed(uf_net, uf_sent_size, lo, lo)
    BY <2>1 DEF Placed, IsPlace, Datagrams
  <2> HIDE DEF lo
  <2>4. QED
    BY <2>2, <2>3 DEF OnlyLosses
<1>3. EnoughUnderWay
  BY DEF EnoughUnderWay
<1>4. QED
  BY <1>1, <1>2, <1>3 DEF DatagramInv

\* One datagram more at the end, behind all the others.
Comes(lo, hi, d, l, u) ==
    /\ lo \in [Datagrams -> Int] /\ hi \in [Datagrams -> Int]
    /\ l \in Int /\ u \in Int /\ d \in Seq(Bytes)
    /\ Placed(uf_net, uf_sent_size, lo, hi)
    /\ \A i \in Datagrams : hi[i] <= l
    /\ IsPlace(d, l, u, uf_sent_size')
    /\ uf_net' = Append(uf_net, d)
    /\ uf_sent_size' \in Nat /\ uf_sent_size <= uf_sent_size'

LEMMA PlacedAppend ==
    ASSUME DatagramTypes, NEW lo, NEW hi, NEW d, NEW l, NEW u,
           Comes(lo, hi, d, l, u)
    PROVE  \E lo2, hi2 \in [Datagrams' -> Int] :
              /\ Placed(uf_net', uf_sent_size', lo2, hi2)
              /\ \A i \in Datagrams : lo2[i] = lo[i]
              /\ lo2[Len(uf_net) + 1] = l
              /\ Datagrams' = Datagrams \cup {Len(uf_net) + 1}
<1> DEFINE n == Len(uf_net)
           lo2 == [i \in Datagrams' |-> IF i = n + 1 THEN l ELSE lo[i]]
           hi2 == [i \in Datagrams' |-> IF i = n + 1 THEN u ELSE hi[i]]
<1>11. /\ lo \in [Datagrams -> Int] /\ hi \in [Datagrams -> Int]
       /\ l \in Int /\ u \in Int /\ d \in Seq(Bytes)
       /\ Placed(uf_net, uf_sent_size, lo, hi)
       /\ \A i \in Datagrams : hi[i] <= l
       /\ IsPlace(d, l, u, uf_sent_size')
       /\ uf_net' = Append(uf_net, d)
       /\ uf_sent_size' \in Nat /\ uf_sent_size <= uf_sent_size'
  BY DEF Comes
<1>1. /\ Len(uf_net') = n + 1 /\ uf_net'[n + 1] = d
      /\ \A i \in 1 .. n : uf_net'[i] = uf_net[i]
  BY <1>11, AppendProperties DEF DatagramTypes
<1>2. n \in Nat
  BY LenProperties DEF DatagramTypes
<1>3. /\ Datagrams' = Datagrams \cup {n + 1} /\ n + 1 \notin Datagrams
      /\ Datagrams = 1 .. n
  BY <1>1, <1>2 DEF Datagrams
<1>4. lo2 \in [Datagrams' -> Int] /\ hi2 \in [Datagrams' -> Int]
  BY <1>3, <1>11
<1>5. /\ \A i \in Datagrams : lo2[i] = lo[i] /\ hi2[i] = hi[i]
      /\ lo2[n + 1] = l /\ hi2[n + 1] = u
  BY <1>3
<1>6. uf_sent_size \in Nat
  BY DatagramConstants DEF DatagramTypes
<1> HIDE DEF lo2, hi2
<1>7. ASSUME NEW i \in Datagrams'
      PROVE  IsPlace(uf_net'[i], lo2[i], hi2[i], uf_sent_size')
  <2>1. CASE i = n + 1
    BY <1>1, <1>5, <1>11, <2>1 DEF IsPlace
  <2>2. CASE i \in Datagrams
    <3>1. /\ lo2[i] = lo[i] /\ hi2[i] = hi[i] /\ uf_net'[i] = uf_net[i]
          /\ hi[i] \in Int
      BY <1>1, <1>3, <1>5, <1>11, <2>2
    <3>2. /\ -1 <= lo[i] /\ lo[i] <= hi[i] /\ 0 <= hi[i]
          /\ hi[i] <= uf_sent_size
          /\ 0 <= lo[i] => uf_net[i] = SubSeq(test_avi, lo[i] + 1, hi[i])
      BY <1>11, <2>2 DEF Placed, IsPlace, Datagrams
    <3>3. hi[i] <= uf_sent_size'
      BY <1>6, <1>11, <3>1, <3>2
    <3>4. QED
      BY <3>1, <3>2, <3>3 DEF IsPlace
  <2>3. QED
    BY <1>3, <2>1, <2>2
<1>8. ASSUME NEW i \in Datagrams', NEW j \in Datagrams', i < j
      PROVE  hi2[i] <= lo2[j]
  <2>1. i \in Datagrams
    BY <1>2, <1>3, <1>8
  <2>2. CASE j = n + 1
    BY <1>5, <1>11, <2>1, <2>2
  <2>3. CASE j \in Datagrams
    BY <1>5, <1>8, <1>11, <2>1, <2>3 DEF Placed, IsPlace, Datagrams
  <2>4. QED
    BY <1>3, <2>2, <2>3
<1>9. Placed(uf_net', uf_sent_size', lo2, hi2)
  BY <1>7, <1>8 DEF Placed, IsPlace, Datagrams
<1>10. QED
  BY <1>3, <1>4, <1>5, <1>9

\* One taken out: those behind it move up.
LEMMA PlacedRemove ==
    ASSUME DatagramTypes, NEW lo \in [Datagrams -> Int],
           NEW hi \in [Datagrams -> Int], Placed(uf_net, uf_sent_size, lo, hi),
           NEW k \in Datagrams, uf_net' = RemoveAt(uf_net, k),
           uf_sent_size' = uf_sent_size
    PROVE  \E lo2, hi2 \in [Datagrams' -> Int] :
              /\ Placed(uf_net', uf_sent_size', lo2, hi2)
              /\ \A i \in Datagrams' :
                   lo2[i] = IF i < k THEN lo[i] ELSE lo[i + 1]
<1> DEFINE n == Len(uf_net)
           at(i) == IF i < k THEN i ELSE i + 1
           lo2 == [i \in Datagrams' |-> lo[at(i)]]
           hi2 == [i \in Datagrams' |-> hi[at(i)]]
<1>1. /\ Len(uf_net') = n - 1
      /\ \A i \in 1 .. n - 1 :
            uf_net'[i] = IF i < k THEN uf_net[i] ELSE uf_net[i + 1]
  BY RemoveAtParts DEF DatagramTypes, Datagrams
<1>2. n \in Nat /\ Datagrams = 1 .. n /\ Datagrams' = 1 .. n - 1
  BY <1>1, LenProperties DEF DatagramTypes, Datagrams
<1>3. \A i \in Datagrams' : at(i) \in Datagrams
  BY <1>2
<1>4. \A i \in Datagrams' : uf_net'[i] = uf_net[at(i)]
  BY <1>1, <1>2
<1>5. \A i, j \in Datagrams' : i < j => at(i) < at(j)
  BY <1>2
<1>6. \A i \in Datagrams' : lo2[i] = IF i < k THEN lo[i] ELSE lo[i + 1]
  OBVIOUS
<1>7. lo2 \in [Datagrams' -> Int] /\ hi2 \in [Datagrams' -> Int]
  BY <1>3
<1>8. \A i \in Datagrams' : lo2[i] = lo[at(i)] /\ hi2[i] = hi[at(i)]
  OBVIOUS
<1> HIDE DEF lo2, hi2, at
<1>9. ASSUME NEW i \in Datagrams'
      PROVE  IsPlace(uf_net'[i], lo2[i], hi2[i], uf_sent_size')
  BY <1>3, <1>4, <1>8 DEF Placed, IsPlace, Datagrams
<1>10. ASSUME NEW i \in Datagrams', NEW j \in Datagrams', i < j
       PROVE  hi2[i] <= lo2[j]
  BY <1>3, <1>5, <1>8, <1>10 DEF Placed, IsPlace, Datagrams
<1>11. Placed(uf_net', uf_sent_size', lo2, hi2)
  BY <1>9, <1>10 DEF Placed, IsPlace, Datagrams
<1>12. QED
  BY <1>6, <1>7, <1>11

LEMMA NetTypes ==
    ASSUME DatagramTypes, NEW k \in Datagrams
    PROVE  /\ uf_net[k] \in Seq(Bytes) /\ Len(uf_net[k]) \in Nat
           /\ RemoveAt(uf_net, k) \in Seq(Seq(Bytes))
           /\ UF!RemoveAt(uf_net, k) = RemoveAt(uf_net, k)
           /\ InsertAt(uf_net, k, uf_net[k]) \in Seq(Seq(Bytes))
           /\ UF!InsertAt(uf_net, k, uf_net[k])
                = InsertAt(uf_net, k, uf_net[k])
           /\ "stray" \notin uf_trouble => uf_client \in {"sending", "sent"}
<1>1. k \in 1 .. Len(uf_net) /\ uf_net \in Seq(Seq(Bytes))
  BY DEF DatagramTypes, Datagrams
<1>2. uf_net[k] \in Seq(Bytes)
  BY <1>1, ElementOfSeq
<1>3. Len(uf_net[k]) \in Nat
  BY <1>2, LenProperties
<1>4. /\ RemoveAt(uf_net, k) \in Seq(Seq(Bytes))
      /\ InsertAt(uf_net, k, uf_net[k]) \in Seq(Seq(Bytes))
  BY <1>1, FlattenRemoved
<1>5. uf_net # <<>>
  BY <1>1, EmptySeq
<1>6. "stray" \notin uf_trouble => uf_client \in {"sending", "sent"}
  BY <1>5 DEF DatagramTypes
<1>7. QED
  BY <1>2, <1>3, <1>4, <1>6, SameOperators

\* What fwrite writes of a datagram.
LEMMA Written ==
    ASSUME DatagramTypes, NEW k \in Datagrams,
           NEW m \in 0 .. Len(uf_net[k])
    PROVE  /\ uf_received_test_avi \o SubSeq(uf_net[k], 1, m) \in Seq(Bytes)
           /\ ~(m < Len(uf_net[k])) => SubSeq(uf_net[k], 1, m) = uf_net[k]
<1>1. uf_net[k] \in Seq(Bytes) /\ Len(uf_net[k]) \in Nat
  BY NetTypes
<1>2. \A i \in 1 .. m : uf_net[k][i] \in Bytes
  BY <1>1, ElementOfSeq
<1>3. 1 \in Int /\ m \in Int
  BY <1>1
<1>4. SubSeq(uf_net[k], 1, m) \in Seq(Bytes)
  BY <1>2, <1>3, SubSeqProperties
<1>5. uf_received_test_avi \in Seq(Bytes)
  BY DEF DatagramTypes
<1>6. uf_received_test_avi \o SubSeq(uf_net[k], 1, m) \in Seq(Bytes)
  BY <1>4, <1>5, ConcatProperties
<1>7. ASSUME ~(m < Len(uf_net[k]))
      PROVE  SubSeq(uf_net[k], 1, m) = uf_net[k]
  <2>1. m = Len(uf_net[k])
    BY <1>1, <1>7
  <2>2. QED
    BY <1>1, <2>1, SubSeqFull
<1>8. QED
  BY <1>6, <1>7

\* A datagram that the server takes as a piece.
LEMMA PieceTaken ==
    ASSUME DatagramTypes, UF!ReceivePiece
    PROVE  \E k \in Datagrams :
             /\ uf_net' = RemoveAt(uf_net, k)
             /\ uf_received_test_avi' \in Seq(Bytes)
             /\ "unwritten" \notin uf_trouble' =>
                    uf_received_test_avi' = uf_received_test_avi \o uf_net[k]
             /\ uf_received_size' = uf_received_size + Len(uf_net[k])
             /\ UF!Taking(k) \subseteq uf_trouble'
             /\ uf_trouble' \subseteq UF!Taking(k) \cup {"unwritten"}
<1>n. PICK k \in Datagrams : \E m \in 0 .. Len(uf_net[k]) :
        /\ uf_net' = UF!RemoveAt(uf_net, k)
        /\ uf_received_test_avi'
             = uf_received_test_avi \o SubSeq(uf_net[k], 1, m)
        /\ uf_received_size' = uf_received_size + Len(uf_net[k])
        /\ uf_trouble' = UF!Taking(k)
             \cup (IF m < Len(uf_net[k]) THEN {"unwritten"} ELSE {})
  BY DEF UF!ReceivePiece, Datagrams
<1>1. PICK m \in 0 .. Len(uf_net[k]) :
        /\ uf_net' = UF!RemoveAt(uf_net, k)
        /\ uf_received_test_avi'
             = uf_received_test_avi \o SubSeq(uf_net[k], 1, m)
        /\ uf_received_size' = uf_received_size + Len(uf_net[k])
        /\ uf_trouble' = UF!Taking(k)
             \cup (IF m < Len(uf_net[k]) THEN {"unwritten"} ELSE {})
  BY <1>n
<1>2. uf_net' = RemoveAt(uf_net, k)
  BY <1>1, NetTypes
<1>3. uf_received_test_avi' \in Seq(Bytes)
  BY <1>1, Written
<1>4. "unwritten" \notin uf_trouble' =>
          uf_received_test_avi' = uf_received_test_avi \o uf_net[k]
  <2>1. "unwritten" \notin uf_trouble' => ~(m < Len(uf_net[k]))
    BY <1>1, Zenon
  <2>2. QED
    BY <1>1, <2>1, Written
<1>5. /\ UF!Taking(k) \subseteq uf_trouble'
      /\ uf_trouble' \subseteq UF!Taking(k) \cup {"unwritten"}
  BY <1>1
<1>6. QED
  BY <1>1, <1>2, <1>3, <1>4, <1>5

LEMMA DatagramTypesStep ==
    ASSUME DatagramTypes, [UF!Next]_(UF!vars)
    PROVE  DatagramTypes'
<1> USE DEF UF!ServerStates, UF!Troubles
<1>1. CASE UF!SendSize
  <2>1. Append(uf_net, size_bytes) \in Seq(Seq(Bytes))
    BY DatagramConstants, AppendProperties DEF DatagramTypes
  <2>2. QED
    BY <1>1, <2>1 DEF DatagramTypes, UF!SendSize
<1>2. CASE UF!SendPiece
  <2>1. UF!Piece(uf_sent_size) \in Seq(Bytes)
    BY PieceUpTo DEF DatagramTypes
  <2>2. Append(uf_net, UF!Piece(uf_sent_size)) \in Seq(Seq(Bytes))
    BY <2>1, AppendProperties DEF DatagramTypes
  <2>3. uf_sent_size + Len(UF!Piece(uf_sent_size)) = UpTo(uf_sent_size)
    <3>1. /\ Len(UF!Piece(uf_sent_size)) = UpTo(uf_sent_size) - uf_sent_size
          /\ UpTo(uf_sent_size) \in uf_sent_size .. Len(test_avi)
      BY PieceUpTo DEF DatagramTypes
    <3>2. uf_sent_size \in Nat
      BY DatagramConstants DEF DatagramTypes
    <3>3. QED
      BY <3>1, <3>2, DatagramConstants
  <2>4. UpTo(uf_sent_size) \in 0 .. Len(test_avi)
    BY PieceUpTo, DatagramConstants DEF DatagramTypes
  <2>5. uf_sent_size' \in 0 .. Len(test_avi)
    BY <1>2, <2>3, <2>4 DEF UF!SendPiece
  <2>6. QED
    BY <1>2, <2>2, <2>5 DEF DatagramTypes, UF!SendPiece
<1>3. CASE UF!Lose
  <2>1. PICK i \in Datagrams : uf_net' = UF!RemoveAt(uf_net, i)
    BY <1>3 DEF UF!Lose, Datagrams
  <2>2. QED
    BY <1>3, <2>1, NetTypes DEF DatagramTypes, UF!Lose
<1>4. CASE UF!Double
  <2>1. PICK i \in Datagrams : uf_net' = UF!InsertAt(uf_net, i, uf_net[i])
    BY <1>4 DEF UF!Double, Datagrams
  <2>2. QED
    BY <1>4, <2>1, NetTypes DEF DatagramTypes, UF!Double
<1>5. CASE UF!ReadSize
  <2>1. PICK i \in Datagrams : /\ uf_net' = UF!RemoveAt(uf_net, i)
                               /\ uf_trouble' = UF!Taking(i)
    BY <1>5 DEF UF!ReadSize, Datagrams
  <2>2. QED
    BY <1>5, <2>1, NetTypes DEF DatagramTypes, UF!ReadSize, UF!Taking
<1>6. CASE UF!MisreadSize
  <2>1. PICK i \in Datagrams : /\ uf_net' = UF!RemoveAt(uf_net, i)
                               /\ uf_trouble' = UF!Taking(i) \cup {"misread"}
    BY <1>6 DEF UF!MisreadSize, Datagrams
  <2>2. QED
    BY <1>6, <2>1, NetTypes DEF DatagramTypes, UF!MisreadSize, UF!Taking
<1>7. CASE UF!SizeFails
  <2>1. CASE uf_net' = uf_net /\ uf_trouble' = uf_trouble \cup {"recv_failed"}
    BY <1>7, <2>1 DEF DatagramTypes, UF!SizeFails
  <2>2. CASE ~(uf_net' = uf_net
               /\ uf_trouble' = uf_trouble \cup {"recv_failed"})
    <3>1. PICK i \in Datagrams : /\ uf_net' = UF!RemoveAt(uf_net, i)
                                 /\ uf_trouble' = UF!Taking(i)
      BY <1>7, <2>2 DEF UF!SizeFails, Datagrams
    <3>2. QED
      BY <1>7, <3>1, NetTypes DEF DatagramTypes, UF!SizeFails, UF!Taking
  <2>3. QED
    BY <2>1, <2>2
<1>8. CASE UF!ReceivePiece
  <2>1. PICK i \in Datagrams :
            /\ uf_net' = RemoveAt(uf_net, i)
            /\ uf_received_test_avi' \in Seq(Bytes)
            /\ uf_received_size' = uf_received_size + Len(uf_net[i])
            /\ UF!Taking(i) \subseteq uf_trouble'
            /\ uf_trouble' \subseteq UF!Taking(i) \cup {"unwritten"}
    BY <1>8, PieceTaken
  <2>2. uf_net' \in Seq(Seq(Bytes))
    BY <2>1, NetTypes
  <2>3. uf_received_size' \in Nat
    BY <2>1, NetTypes DEF DatagramTypes
  <2>4. "stray" \notin uf_trouble => uf_client \in {"sending", "sent"}
    BY NetTypes
  <2>5. uf_trouble \subseteq uf_trouble' /\ uf_trouble' \subseteq UF!Troubles
    BY <2>1 DEF UF!Taking, DatagramTypes
  <2>6. QED
    BY <1>8, <2>1, <2>2, <2>3, <2>4, <2>5
       DEF DatagramTypes, UF!ReceivePiece
<1>9. CASE UF!ClientFails \/ UF!ClientDone \/ UF!Bind \/ UF!SetupFails
           \/ UF!Report \/ UNCHANGED UF!vars
  <2>1. <<>> \in Seq(Bytes)
    OBVIOUS
  <2>2. QED
    BY <1>9, <2>1
       DEF DatagramTypes, UF!ClientFails, UF!ClientDone, UF!Bind,
           UF!SetupFails, UF!Report, UF!vars
<1>10. CASE UF!RecvFails
  <2>1. CASE uf_net' = uf_net /\ uf_trouble' = uf_trouble \cup {"recv_failed"}
    BY <1>10, <2>1 DEF DatagramTypes, UF!RecvFails
  <2>2. CASE ~(uf_net' = uf_net
               /\ uf_trouble' = uf_trouble \cup {"recv_failed"})
    <3>1. PICK i \in Datagrams :
              /\ uf_net' = UF!RemoveAt(uf_net, i)
              /\ uf_trouble' = UF!Taking(i) \cup {"recv_failed"}
      BY <1>10, <2>2 DEF UF!RecvFails, Datagrams
    <3>2. QED
      BY <1>10, <3>1, NetTypes DEF DatagramTypes, UF!RecvFails, UF!Taking
  <2>3. QED
    BY <2>1, <2>2
<1>11. CASE UF!Stray
  <2>1. PICK d \in Strays : uf_net' = Append(uf_net, d)
    BY <1>11 DEF UF!Stray
  <2>2. Append(uf_net, d) \in Seq(Seq(Bytes))
    BY DatagramConstants, AppendProperties DEF DatagramTypes
  <2>3. QED
    BY <1>11, <2>1, <2>2 DEF DatagramTypes, UF!Stray
<1>12. QED
  BY <1>1, <1>2, <1>3, <1>4, <1>5, <1>6, <1>7, <1>8, <1>9, <1>10, <1>11
     DEF UF!Next

\* What was right up to h is right up to the end of the datagram that is
\* taken next.
LEMMA TakenBehind ==
    ASSUME DatagramTypes, NEW lo \in [Datagrams -> Int],
           NEW hi \in [Datagrams -> Int],
           Placed(uf_net, uf_sent_size, lo, hi), 1 \in Datagrams,
           NEW h \in Nat,
           Behind(lo, h)
    PROVE  /\ hi[1] \in Nat /\ hi[1] <= uf_sent_size
           /\ uf_received_size + Len(uf_net[1]) <= hi[1]
           /\ uf_received_size + Len(uf_net[1]) = hi[1] =>
                  uf_received_test_avi \o uf_net[1]
                  = SubSeq(test_avi, 1, hi[1])
<1>1. /\ h <= lo[1] /\ lo[1] <= hi[1] /\ hi[1] <= Len(test_avi)
      /\ hi[1] <= uf_sent_size /\ lo[1] \in Nat /\ hi[1] \in Nat
  <2>1. uf_sent_size \in Nat /\ uf_sent_size <= Len(test_avi)
    BY DatagramConstants DEF DatagramTypes
  <2>2. lo[1] \in Int /\ hi[1] \in Int /\ h <= lo[1]
    BY DEF Behind, Datagrams
  <2>3. lo[1] <= hi[1] /\ hi[1] <= uf_sent_size
    BY DEF Placed, IsPlace, Datagrams
  <2>4. QED
    BY <2>1, <2>2, <2>3, DatagramConstants
<1>2. uf_net[1] = SubSeq(test_avi, lo[1] + 1, hi[1])
  BY <1>1 DEF Placed, IsPlace, Datagrams
<1>3. Len(uf_net[1]) = hi[1] - lo[1]
  <2>1. \A i \in lo[1] + 1 .. hi[1] : test_avi[i] \in Bytes
    BY <1>1, DatagramConstants, ElementOfSeq
  <2>2. Len(uf_net[1])
        = IF lo[1] + 1 <= hi[1] THEN hi[1] - (lo[1] + 1) + 1 ELSE 0
    BY <1>1, <1>2, <2>1, SubSeqProperties
  <2>3. QED
    BY <1>1, <2>2
<1>4. uf_received_size \in Nat /\ uf_received_size <= h
  BY DEF DatagramTypes, Behind
<1>5. ASSUME uf_received_size + Len(uf_net[1]) = hi[1]
      PROVE  uf_received_test_avi \o uf_net[1] = SubSeq(test_avi, 1, hi[1])
  <2>1. uf_received_size = h /\ h = lo[1]
    BY <1>1, <1>3, <1>4, <1>5
  <2>2. uf_received_test_avi = SubSeq(test_avi, 1, lo[1])
    BY <2>1 DEF Behind
  <2>3. /\ 1 \in 1 .. Len(test_avi) + 1 /\ lo[1] \in 1 - 1 .. Len(test_avi)
        /\ hi[1] \in lo[1] .. Len(test_avi)
    BY <1>1, DatagramConstants
  <2>4. SubSeq(test_avi, 1, lo[1]) \o SubSeq(test_avi, lo[1] + 1, hi[1])
        = SubSeq(test_avi, 1, hi[1])
    BY <2>3, DatagramConstants, ConcatAdjacentSubSeq
  <2>5. QED
    BY <1>2, <2>2, <2>4
<1>6. uf_received_size + Len(uf_net[1]) <= hi[1]
  BY <1>1, <1>3, <1>4
<1>7. QED
  BY <1>1, <1>5, <1>6

\* Behind the first lies what lies behind its end.
LEMMA RestBehind ==
    ASSUME DatagramTypes, NEW lo \in [Datagrams -> Int],
           NEW hi \in [Datagrams -> Int],
           Placed(uf_net, uf_sent_size, lo, hi), 1 \in Datagrams,
           uf_net' = RemoveAt(uf_net, 1), uf_sent_size' = uf_sent_size
    PROVE  \E lo2, hi2 \in [Datagrams' -> Int] :
              /\ Placed(uf_net', uf_sent_size', lo2, hi2)
              /\ \A i \in Datagrams' : hi[1] <= lo2[i]
<1>1. PICK lo2, hi2 \in [Datagrams' -> Int] :
          /\ Placed(uf_net', uf_sent_size', lo2, hi2)
          /\ \A i \in Datagrams' : lo2[i] = IF i < 1 THEN lo[i] ELSE lo[i + 1]
  BY PlacedRemove
<1>2. Len(uf_net') = Len(uf_net) - 1 /\ Len(uf_net) \in Nat
  BY RemoveAtParts, LenProperties DEF DatagramTypes, Datagrams
<1>3. ASSUME NEW i \in Datagrams'
      PROVE  hi[1] <= lo2[i]
  <2>1. /\ i + 1 \in Datagrams /\ 1 < i + 1 /\ lo2[i] = lo[i + 1]
    BY <1>1, <1>2 DEF Datagrams
  <2>2. QED
    BY <2>1 DEF Placed, IsPlace, Datagrams
<1>4. QED
  BY <1>1, <1>3

LEMMA OnlyLossesStep ==
    ASSUME DatagramTypes, OnlyLosses, [UF!Next]_(UF!vars), DatagramTypes'
    PROVE  OnlyLosses'
<1> SUFFICES ASSUME uf_trouble' \subseteq {"lost"}
             PROVE  /\ \E lo, hi \in [Datagrams' -> Int] :
                          /\ Placed(uf_net', uf_sent_size', lo, hi)
                          /\ uf_server' = "receiving" =>
                                \E h \in Nat :
                                    Behind(lo, h)'
                    /\ uf_server' = "received" =>
                          uf_received_test_avi' = test_avi
  BY DEF OnlyLosses
<1> DEFINE Kept(lo) == \E h \in Nat : Behind(lo, h)
           Goal(lo, hi) == /\ Placed(uf_net', uf_sent_size', lo, hi)
                           /\ uf_server' = "receiving" =>
                                \E h \in Nat :
                                    Behind(lo, h)'
<1>1. uf_trouble \subseteq uf_trouble'
  BY DEF UF!Next, UF!vars, UF!SendSize, UF!SendPiece, UF!Lose, UF!Double,
         UF!ReadSize, UF!MisreadSize, UF!SizeFails, UF!ReceivePiece,
         UF!ClientFails, UF!ClientDone, UF!Bind, UF!SetupFails, UF!RecvFails,
         UF!Report, UF!Stray, UF!Taking
<1>2. PICK lo, hi \in [Datagrams -> Int] :
          /\ Placed(uf_net, uf_sent_size, lo, hi)
          /\ uf_server = "receiving" => Kept(lo)
  BY <1>1 DEF OnlyLosses
<1>3. uf_server = "received" => uf_received_test_avi = test_avi
  BY <1>1 DEF OnlyLosses
<1>4. uf_sent_size \in Nat /\ uf_sent_size' \in Nat
  BY DatagramConstants DEF DatagramTypes
<1>5. CASE UF!SendSize
  <2>1. /\ uf_net = <<>> /\ uf_sent_size' = uf_sent_size
        /\ uf_net' = Append(uf_net, size_bytes)
        /\ UNCHANGED <<uf_server, uf_received_size, uf_received_test_avi>>
    BY <1>1, <1>5 DEF UF!SendSize, DatagramTypes
  <2>2. Comes(lo, hi, size_bytes, -1, 0)
    <3>1. uf_sent_size <= uf_sent_size' /\ 0 <= uf_sent_size'
      BY <1>4, <2>1
    <3>2. IsPlace(size_bytes, -1, 0, uf_sent_size')
      BY <3>1 DEF IsPlace
    <3>3. \A i \in Datagrams : hi[i] <= -1
      BY <2>1 DEF Datagrams
    <3>4. QED
      BY <1>2, <1>4, <2>1, <3>1, <3>2, <3>3, DatagramConstants DEF Comes
  <2>3. PICK lo2, hi2 \in [Datagrams' -> Int] :
            Placed(uf_net', uf_sent_size', lo2, hi2)
    <3>3. \E lo2, hi2 \in [Datagrams' -> Int] :
              /\ Placed(uf_net', uf_sent_size', lo2, hi2)
              /\ \A i \in Datagrams : lo2[i] = lo[i]
              /\ lo2[Len(uf_net) + 1] = -1
              /\ Datagrams' = Datagrams \cup {Len(uf_net) + 1}
      BY <2>2, PlacedAppend
    <3>4. QED
      BY <3>3
  <2>4. uf_server # "receiving"
    BY <1>1, <1>5 DEF UF!SendSize, DatagramTypes
  <2>5. QED
    BY <1>3, <2>1, <2>3, <2>4
<1>6. CASE UF!SendPiece
  <2> DEFINE p == uf_sent_size
             u == UpTo(uf_sent_size)
  <2>1. /\ UF!Piece(p) = SubSeq(test_avi, p + 1, u)
        /\ u \in p .. Len(test_avi) /\ UF!Piece(p) \in Seq(Bytes)
        /\ Len(UF!Piece(p)) = u - p
    BY PieceUpTo DEF DatagramTypes
  <2>2. /\ uf_net' = Append(uf_net, UF!Piece(p))
        /\ uf_sent_size' = p + Len(UF!Piece(p))
        /\ UNCHANGED <<uf_server, uf_received_size, uf_received_test_avi>>
    BY <1>6 DEF UF!SendPiece
  <2>3. /\ p \in Int /\ u \in Int /\ -1 <= p /\ p <= u /\ 0 <= u
        /\ u <= uf_sent_size' /\ p <= uf_sent_size'
    <3>1. p \in Nat /\ u \in Int /\ p <= u /\ Len(UF!Piece(p)) = u - p
      BY <1>4, <2>1, DatagramConstants
    <3> HIDE DEF p, u
    <3>2. uf_sent_size' = p + (u - p)
      BY <2>2, <3>1
    <3>3. QED
      BY <3>1, <3>2
  <2>4. \A i \in Datagrams : hi[i] <= p
    BY <1>2 DEF Placed, IsPlace, Datagrams
  <2>5. \E lo2, hi2 \in [Datagrams' -> Int] :
            /\ Placed(uf_net', uf_sent_size', lo2, hi2)
            /\ \A i \in Datagrams : lo2[i] = lo[i]
            /\ lo2[Len(uf_net) + 1] = p
            /\ Datagrams' = Datagrams \cup {Len(uf_net) + 1}
    <3> HIDE DEF p, u
    <3>1. 0 <= p => UF!Piece(p) = SubSeq(test_avi, p + 1, u)
      BY <2>1
    <3>2. uf_sent_size <= uf_sent_size'
      BY <2>3 DEF p
    <3>3. UF!Piece(p) \in Seq(Bytes)
      BY <2>1
    <3>4. uf_net' = Append(uf_net, UF!Piece(p))
      BY <2>2
    <3>5. QED
      <4>1. p \in Int /\ u \in Int /\ uf_sent_size' \in Nat
        BY <1>4, <2>3
      <4>2. IsPlace(UF!Piece(p), p, u, uf_sent_size')
        BY <2>3, <3>1 DEF IsPlace
      <4>3. Comes(lo, hi, UF!Piece(p), p, u)
        BY <1>2, <2>4, <3>2, <3>3, <3>4, <4>1, <4>2 DEF Comes
      <4>4. QED
        BY <4>3, PlacedAppend
  <2>6. PICK lo2, hi2 \in [Datagrams' -> Int] :
            /\ Placed(uf_net', uf_sent_size', lo2, hi2)
            /\ \A i \in Datagrams : lo2[i] = lo[i]
            /\ lo2[Len(uf_net) + 1] = p
            /\ Datagrams' = Datagrams \cup {Len(uf_net) + 1}
    BY <2>5
  <2>7. ASSUME uf_server = "receiving"
        PROVE  \E h \in Nat : Behind(lo2, h)'
    <3>1. PICK h \in Nat : Behind(lo, h)
      BY <1>2, <2>7
    <3>2. h <= p /\ h <= uf_sent_size'
      BY <1>4, <2>3, <3>1 DEF Behind
    <3>3. ASSUME NEW i \in Datagrams'
          PROVE  h <= lo2[i]
      <4>1. CASE i \in Datagrams
        BY <2>6, <3>1, <4>1 DEF Behind, Datagrams
      <4>2. CASE i = Len(uf_net) + 1
        BY <2>6, <3>2, <4>2
      <4>3. QED
        BY <2>6, <4>1, <4>2
    <3>4. Behind(lo2, h)'
      BY <2>2, <3>1, <3>2, <3>3 DEF Behind, Datagrams
    <3>5. QED
      BY <3>4
  <2>8. QED
    BY <1>3, <2>2, <2>6, <2>7
<1>7. CASE UF!Lose
  <2>1. PICK k \in Datagrams : uf_net' = RemoveAt(uf_net, k)
    BY <1>7, SameOperators DEF UF!Lose, Datagrams
  <2>2. UNCHANGED <<uf_sent_size, uf_server, uf_received_size,
                    uf_received_test_avi>>
    BY <1>7 DEF UF!Lose
  <2>3. PICK lo2, hi2 \in [Datagrams' -> Int] :
            /\ Placed(uf_net', uf_sent_size', lo2, hi2)
            /\ \A i \in Datagrams' :
                 lo2[i] = IF i < k THEN lo[i] ELSE lo[i + 1]
    BY <1>2, <2>1, <2>2, PlacedRemove
  <2>4. Len(uf_net') = Len(uf_net) - 1 /\ Len(uf_net) \in Nat
    BY <2>1, RemoveAtParts, LenProperties DEF DatagramTypes, Datagrams
  <2>5. ASSUME NEW i \in Datagrams'
        PROVE  \E j \in Datagrams : lo2[i] = lo[j]
    <3>1. i \in Datagrams /\ i + 1 \in Datagrams
      BY <2>4 DEF Datagrams
    <3>2. QED
      BY <2>3, <3>1
  <2>6. ASSUME NEW h \in Nat,
               Behind(lo, h)
        PROVE  Behind(lo2, h)'
    BY <2>2, <2>5, <2>6 DEF Behind, Datagrams
  <2>7. QED
    BY <1>2, <1>3, <2>2, <2>3, <2>6
<1>8. CASE UF!ReadSize
  <2>1. PICK k \in Datagrams : /\ uf_net' = RemoveAt(uf_net, k)
                               /\ uf_trouble' = UF!Taking(k)
    BY <1>8, SameOperators DEF UF!ReadSize, Datagrams
  <2>2. k = 1
    BY <2>1 DEF UF!Taking
  <2>3. /\ UNCHANGED <<uf_sent_size, uf_received_size, uf_received_test_avi>>
        /\ uf_server = "bound" /\ uf_server' = "receiving"
    BY <1>8 DEF UF!ReadSize
  <2>4. PICK lo2, hi2 \in [Datagrams' -> Int] :
            /\ Placed(uf_net', uf_sent_size', lo2, hi2)
            /\ \A i \in Datagrams' : hi[1] <= lo2[i]
    BY <1>2, <2>1, <2>2, <2>3, RestBehind
  <2>5. /\ 0 <= hi[1] /\ hi[1] \in Int
    BY <1>2, <2>1, <2>2 DEF Placed, IsPlace, Datagrams
  <2>6. \A i \in Datagrams' : 0 <= lo2[i]
    BY <2>4, <2>5
  <2>7. /\ uf_received_size' = 0 /\ uf_received_test_avi' = <<>>
        /\ SubSeq(test_avi, 1, 0) = <<>>
    BY <2>3, SubSeqEmpty DEF DatagramTypes
  <2>8. Behind(lo2, 0)'
    BY <1>4, <2>6, <2>7 DEF Behind, Datagrams
  <2>9. QED
    BY <2>3, <2>4, <2>8
<1>9. CASE UF!ReceivePiece
  <2>1. PICK k \in Datagrams :
            /\ uf_net' = RemoveAt(uf_net, k)
            /\ uf_received_test_avi' = uf_received_test_avi \o uf_net[k]
            /\ uf_received_size' = uf_received_size + Len(uf_net[k])
            /\ UF!Taking(k) \subseteq uf_trouble'
    BY <1>9, PieceTaken
  <2>2. k = 1
    BY <2>1 DEF UF!Taking
  <2>3. /\ UNCHANGED <<uf_sent_size, uf_server>> /\ uf_server = "receiving"
    BY <1>9 DEF UF!ReceivePiece
  <2>4. PICK lo2, hi2 \in [Datagrams' -> Int] :
            /\ Placed(uf_net', uf_sent_size', lo2, hi2)
            /\ \A i \in Datagrams' : hi[1] <= lo2[i]
    BY <1>2, <2>1, <2>2, <2>3, RestBehind
  <2>5. PICK h \in Nat :
            Behind(lo, h)
    BY <1>2, <2>3
  <2>6. /\ hi[1] \in Nat /\ hi[1] <= uf_sent_size'
        /\ uf_received_size' <= hi[1]
        /\ uf_received_size' = hi[1] =>
               uf_received_test_avi' = SubSeq(test_avi, 1, hi[1])
    BY <1>2, <2>1, <2>2, <2>3, <2>5, TakenBehind
  <2>7. Behind(lo2, hi[1])'
    BY <2>4, <2>6 DEF Behind, Datagrams
  <2>8. QED
    BY <2>3, <2>4, <2>6, <2>7
<1>10. CASE UF!Report
  <2>1. /\ UNCHANGED <<uf_net, uf_sent_size, uf_received_size,
                       uf_received_test_avi>>
        /\ uf_server = "receiving" /\ uf_server' = "received"
        /\ uf_received_size >= uf_total_size
    BY <1>10 DEF UF!Report, UF!Enough
  <2>2. PICK h \in Nat :
            Behind(lo, h)
    BY <1>2, <2>1
  <2>3. uf_total_size = Len(test_avi)
    BY <1>1, <2>1 DEF DatagramTypes
  <2>4. uf_received_size = h /\ h = Len(test_avi)
    BY <2>1, <2>2, <2>3, DatagramConstants DEF Behind, DatagramTypes
  <2>5. uf_received_test_avi = test_avi
    BY <2>2, <2>4, DatagramConstants, SubSeqFull DEF Behind
  <2>6. Placed(uf_net', uf_sent_size', lo, hi) /\ Datagrams' = Datagrams
    BY <1>2, <2>1 DEF Datagrams
  <2>7. QED
    BY <2>1, <2>5, <2>6
<1>11. CASE UF!ClientFails \/ UF!ClientDone \/ UF!Bind \/ UF!SetupFails
            \/ UNCHANGED UF!vars
  <2>1. /\ uf_net' = uf_net /\ uf_sent_size' = uf_sent_size
        /\ uf_received_size' = uf_received_size
    BY <1>11 DEF UF!ClientFails, UF!ClientDone, UF!Bind, UF!SetupFails,
         UF!vars
  <2>2. \/ /\ uf_server' = uf_server
           /\ uf_received_test_avi' = uf_received_test_avi
        \/ uf_server' \in {"bound", "failed"}
    BY <1>11 DEF UF!ClientFails, UF!ClientDone, UF!Bind, UF!SetupFails,
         UF!vars
  <2>3. Placed(uf_net', uf_sent_size', lo, hi) /\ Datagrams' = Datagrams
    BY <1>2, <2>1 DEF Datagrams
  <2>4. uf_server' = "receiving" =>
            \E h \in Nat : Behind(lo, h)'
    BY <1>2, <2>1, <2>2 DEF Behind, Datagrams
  <2>5. uf_server' = "received" => uf_received_test_avi' = test_avi
    BY <1>3, <2>2
  <2>6. QED
    BY <2>3, <2>4, <2>5
<1>12. ~UF!Double /\ ~UF!Stray /\ ~UF!MisreadSize /\ ~UF!RecvFails
  BY DEF UF!Double, UF!Stray, UF!MisreadSize, UF!RecvFails
<1>13. CASE UF!SizeFails
  <2>1. /\ UNCHANGED <<uf_sent_size, uf_received_size, uf_received_test_avi>>
        /\ uf_server' = "failed"
    BY <1>13 DEF UF!SizeFails
  <2>2. PICK k \in Datagrams : uf_net' = RemoveAt(uf_net, k)
    BY <1>13, SameOperators DEF UF!SizeFails, Datagrams
  <2>3. \E lo2, hi2 \in [Datagrams' -> Int] :
            Placed(uf_net', uf_sent_size', lo2, hi2)
    BY <1>2, <2>1, <2>2, PlacedRemove
  <2>4. QED
    BY <2>1, <2>3
<1>14. QED
  BY <1>5, <1>6, <1>7, <1>8, <1>9, <1>10, <1>11, <1>12, <1>13 DEF UF!Next

\* What is put in at the end or taken out changes the bytes on their way.
LEMMA BytesSent ==
    ASSUME DatagramTypes, NEW d \in Seq(Bytes), uf_net' = Append(uf_net, d)
    PROVE  BytesUnderWay' = BytesUnderWay + Len(d)
<1>1. FlattenSeq(uf_net') = FlattenSeq(uf_net) \o d
  BY FlattenAppend DEF DatagramTypes
<1>2. FlattenSeq(uf_net) \in Seq(Bytes)
  BY FlattenType DEF DatagramTypes
<1>3. Len(FlattenSeq(uf_net) \o d) = Len(FlattenSeq(uf_net)) + Len(d)
  BY <1>2, ConcatProperties
<1>4. QED
  BY <1>1, <1>3 DEF BytesUnderWay

LEMMA BytesTaken ==
    ASSUME DatagramTypes, NEW k \in Datagrams, uf_net' = RemoveAt(uf_net, k)
    PROVE  BytesUnderWay = BytesUnderWay' + Len(uf_net[k])
BY FlattenRemoved DEF DatagramTypes, Datagrams, BytesUnderWay

LEMMA BytesDoubled ==
    ASSUME DatagramTypes, NEW k \in Datagrams,
           uf_net' = InsertAt(uf_net, k, uf_net[k])
    PROVE  BytesUnderWay' = BytesUnderWay + Len(uf_net[k])
BY FlattenRemoved DEF DatagramTypes, Datagrams, BytesUnderWay

LEMMA BytesNat ==
    ASSUME DatagramTypes
    PROVE  BytesUnderWay \in Nat
BY FlattenType, LenProperties DEF DatagramTypes, BytesUnderWay

LEMMA EnoughStep ==
    ASSUME DatagramTypes, EnoughUnderWay, [UF!Next]_(UF!vars), DatagramTypes'
    PROVE  EnoughUnderWay'
<1> SUFFICES ASSUME uf_trouble' \cap {"lost", "misread"} = {}
             PROVE  /\ uf_server' = "receiving" =>
                          BytesUnderWay' + uf_received_size' >= uf_sent_size'
                    /\ uf_server' \in {"started", "bound"}
                           /\ uf_client' \in {"sending", "sent"} =>
                          BytesUnderWay' >= uf_sent_size' + Len(size_bytes)
  BY DEF EnoughUnderWay
<1>1. uf_trouble \subseteq uf_trouble'
  BY DEF UF!Next, UF!vars, UF!SendSize, UF!SendPiece, UF!Lose, UF!Double,
         UF!ReadSize, UF!MisreadSize, UF!SizeFails, UF!ReceivePiece,
         UF!ClientFails, UF!ClientDone, UF!Bind, UF!SetupFails, UF!RecvFails,
         UF!Report, UF!Stray, UF!Taking
<1>2. /\ uf_server = "receiving" =>
            BytesUnderWay + uf_received_size >= uf_sent_size
      /\ uf_server \in {"started", "bound"}
            /\ uf_client \in {"sending", "sent"} =>
                BytesUnderWay >= uf_sent_size + Len(size_bytes)
  BY <1>1 DEF EnoughUnderWay
<1>3. /\ uf_sent_size \in Nat /\ uf_received_size \in Nat
      /\ BytesUnderWay \in Nat /\ BytesUnderWay' \in Nat
      /\ Len(size_bytes) \in Nat
  <2>1. BytesUnderWay' \in Nat
    BY FlattenType, LenProperties DEF DatagramTypes, BytesUnderWay
  <2>2. QED
    BY <2>1, BytesNat, DatagramConstants DEF DatagramTypes
<1>4. CASE UF!SendSize
  <2>1. /\ uf_sent_size' = 0 /\ uf_received_size' = uf_received_size
        /\ uf_net' = Append(uf_net, size_bytes)
    BY <1>4 DEF UF!SendSize, DatagramTypes
  <2>2. BytesUnderWay' = BytesUnderWay + Len(size_bytes)
    BY <2>1, BytesSent, DatagramConstants
  <2>3. /\ BytesUnderWay' >= 0 + Len(size_bytes)
        /\ BytesUnderWay' + uf_received_size >= 0
    BY <1>3, <2>2
  <2>4. QED
    BY <2>1, <2>3
<1>5. CASE UF!SendPiece
  <2> DEFINE d == UF!Piece(uf_sent_size)
  <2>1. d \in Seq(Bytes)
    BY PieceUpTo DEF DatagramTypes
  <2>2. /\ uf_net' = Append(uf_net, d) /\ uf_sent_size' = uf_sent_size + Len(d)
        /\ uf_client = "sending"
        /\ UNCHANGED <<uf_client, uf_server, uf_received_size>>
    BY <1>5 DEF UF!SendPiece
  <2>3. Len(d) \in Nat
    BY <2>1, LenProperties
  <2> HIDE DEF d
  <2>4. BytesUnderWay' = BytesUnderWay + Len(d)
    BY <2>1, <2>2, BytesSent
  <2>5. BytesUnderWay + uf_received_size >= uf_sent_size =>
            BytesUnderWay' + uf_received_size >= uf_sent_size'
    BY <1>3, <2>2, <2>3, <2>4
  <2>6. BytesUnderWay >= uf_sent_size + Len(size_bytes) =>
            BytesUnderWay' >= uf_sent_size' + Len(size_bytes)
    BY <1>3, <2>2, <2>3, <2>4
  <2>7. QED
    BY <1>2, <2>2, <2>5, <2>6
<1>6. CASE UF!Double
  <2>1. PICK k \in Datagrams : uf_net' = InsertAt(uf_net, k, uf_net[k])
    BY <1>6, SameOperators DEF UF!Double, Datagrams
  <2>2. UNCHANGED <<uf_client, uf_sent_size, uf_server, uf_received_size>>
    BY <1>6 DEF UF!Double
  <2>3. BytesUnderWay' = BytesUnderWay + Len(uf_net[k])
        /\ Len(uf_net[k]) \in Nat
    BY <2>1, BytesDoubled, NetTypes
  <2>4. BytesUnderWay' >= BytesUnderWay
    BY <1>3, <2>3
  <2>5. BytesUnderWay + uf_received_size >= uf_sent_size =>
            BytesUnderWay' + uf_received_size >= uf_sent_size
    <3> DEFINE b == BytesUnderWay'
    <3>1. b \in Nat /\ b >= BytesUnderWay
      BY <1>3, <2>4
    <3> HIDE DEF b
    <3>2. b + uf_received_size >= BytesUnderWay + uf_received_size
      BY <1>3, <3>1
    <3>3. BytesUnderWay + uf_received_size >= uf_sent_size =>
              b + uf_received_size >= uf_sent_size
      BY <1>3, <3>1, <3>2
    <3>4. QED
      BY <3>3 DEF b
  <2>6. BytesUnderWay >= uf_sent_size + Len(size_bytes) =>
            BytesUnderWay' >= uf_sent_size + Len(size_bytes)
    BY <1>3, <2>4
  <2>7. QED
    BY <1>2, <2>2, <2>5, <2>6
<1>7. CASE UF!ReadSize
  <2>1. PICK k \in Datagrams : /\ uf_net[k] = size_bytes
                               /\ uf_net' = RemoveAt(uf_net, k)
    BY <1>7, SameOperators DEF UF!ReadSize, Datagrams
  <2>2. /\ UNCHANGED <<uf_client, uf_sent_size, uf_received_size>>
        /\ uf_server = "bound" /\ uf_server' = "receiving"
    BY <1>7 DEF UF!ReadSize
  <2>3. BytesUnderWay = BytesUnderWay' + Len(size_bytes)
    BY <2>1, BytesTaken
  <2>4. uf_client \in {"sending", "sent"} \/ uf_sent_size = 0
    BY DEF DatagramTypes
  <2>5. BytesUnderWay >= uf_sent_size + Len(size_bytes)
    <3>1. CASE uf_client \in {"sending", "sent"}
      BY <1>2, <2>2, <3>1
    <3>2. CASE uf_sent_size = 0
      BY <1>3, <2>3, <3>2
    <3>3. QED
      BY <2>4, <3>1, <3>2
  <2>6. BytesUnderWay' + uf_received_size >= uf_sent_size
    <3> DEFINE b == BytesUnderWay'
               n == Len(size_bytes)
    <3>1. b \in Nat /\ n \in Nat /\ BytesUnderWay = b + n
          /\ BytesUnderWay >= uf_sent_size + n
      BY <1>3, <2>3, <2>5
    <3> HIDE DEF b, n
    <3>2. b >= uf_sent_size
      BY <1>3, <3>1
    <3>3. b + uf_received_size >= uf_sent_size
      BY <1>3, <3>1, <3>2
    <3>4. QED
      BY <3>3 DEF b
  <2>7. QED
    BY <2>2, <2>6
<1>8. CASE UF!ReceivePiece
  <2>1. PICK k \in Datagrams :
            /\ uf_net' = RemoveAt(uf_net, k)
            /\ uf_received_size' = uf_received_size + Len(uf_net[k])
    BY <1>8, PieceTaken
  <2>2. /\ UNCHANGED <<uf_client, uf_sent_size, uf_server>>
        /\ uf_server = "receiving"
    BY <1>8 DEF UF!ReceivePiece
  <2>3. BytesUnderWay = BytesUnderWay' + Len(uf_net[k])
        /\ Len(uf_net[k]) \in Nat
    BY <2>1, BytesTaken, NetTypes
  <2>4. BytesUnderWay + uf_received_size >= uf_sent_size
    BY <1>2, <2>2
  <2>5. BytesUnderWay' + (uf_received_size + Len(uf_net[k])) >= uf_sent_size
    BY <1>3, <2>3, <2>4
  <2>6. QED
    BY <2>1, <2>2, <2>5
<1>9. CASE UF!ClientFails \/ UF!ClientDone \/ UF!Bind \/ UF!SetupFails
           \/ UF!Report \/ UNCHANGED UF!vars
  <2>1. /\ uf_net' = uf_net /\ uf_sent_size' = uf_sent_size
        /\ uf_received_size' = uf_received_size
    BY <1>9 DEF UF!ClientFails, UF!ClientDone, UF!Bind, UF!SetupFails,
         UF!Report, UF!vars
  <2>2. /\ uf_server' = "receiving" => uf_server = "receiving"
        /\ uf_server' \in {"started", "bound"} =>
               uf_server \in {"started", "bound"}
        /\ uf_client' \in {"sending", "sent"} =>
               uf_client \in {"sending", "sent"}
    BY <1>9 DEF UF!ClientFails, UF!ClientDone, UF!Bind, UF!SetupFails,
         UF!Report, UF!vars
  <2>3. BytesUnderWay' = BytesUnderWay
    BY <2>1 DEF BytesUnderWay
  <2>4. QED
    BY <1>2, <2>1, <2>2, <2>3
<1>10. ~UF!Lose /\ ~UF!MisreadSize
  BY DEF UF!Lose, UF!MisreadSize
<1>11. CASE UF!SizeFails \/ UF!RecvFails
  BY <1>11 DEF UF!SizeFails, UF!RecvFails
<1>12. CASE UF!Stray
  <2>1. PICK d \in Strays : uf_net' = Append(uf_net, d)
    BY <1>12 DEF UF!Stray
  <2>2. UNCHANGED <<uf_client, uf_sent_size, uf_server, uf_received_size>>
    BY <1>12 DEF UF!Stray
  <2>3. d \in Seq(Bytes) /\ Len(d) \in Nat
    BY DatagramConstants, LenProperties
  <2>4. BytesUnderWay' = BytesUnderWay + Len(d)
    BY <2>1, <2>3, BytesSent
  <2>5. BytesUnderWay + uf_received_size >= uf_sent_size =>
            BytesUnderWay' + uf_received_size >= uf_sent_size
    BY <1>3, <2>3, <2>4
  <2>6. BytesUnderWay >= uf_sent_size + Len(size_bytes) =>
            BytesUnderWay' >= uf_sent_size + Len(size_bytes)
    BY <1>3, <2>3, <2>4
  <2>7. QED
    BY <1>2, <2>2, <2>5, <2>6
<1>13. QED
  BY <1>4, <1>5, <1>6, <1>7, <1>8, <1>9, <1>10, <1>11, <1>12 DEF UF!Next

\* Losses alone never end in a message of success over a wrong file, and only
\* they, or a size misread, make the server of socketlab_udp wait for ever: for
\* every file, buffer size and datagram of another program, and whichever
\* writes fail.
THEOREM Stalls == Spec => []LossOnlyStalls
<1>1. Init => DatagramInv
  BY DatagramInitInv DEF Init
<1>2. DatagramInv /\ [Next]_vars => DatagramInv'
  BY OneProgram, DatagramTypesStep, OnlyLossesStep, EnoughStep DEF DatagramInv
<1>3. DatagramInv => LossOnlyStalls
  <2> SUFFICES ASSUME DatagramInv
               PROVE  UF!LossNeverHidden /\ UF!StuckOnlyAfterLoss
    BY DEF LossOnlyStalls, UF!LossOnlyStalls
  <2>1. UF!LossNeverHidden
    BY DEF DatagramInv, OnlyLosses, UF!LossNeverHidden
  <2>2. ASSUME uf_client = "sent", uf_net = <<>>, uf_server = "receiving",
               uf_received_size < uf_total_size,
               uf_trouble \cap {"lost", "misread"} = {}
        PROVE  FALSE
    <3>1. BytesUnderWay = 0
      BY <2>2, FlattenEmpty DEF BytesUnderWay
    <3>2. BytesUnderWay + uf_received_size >= uf_sent_size
      BY <2>2 DEF DatagramInv, EnoughUnderWay
    <3>3. uf_sent_size = Len(test_avi) /\ uf_total_size = Len(test_avi)
          /\ uf_received_size \in Nat
      BY <2>2 DEF DatagramInv, DatagramTypes
    <3>4. QED
      BY <2>2, <3>1, <3>2, <3>3, DatagramConstants
  <2>3. QED
    BY <2>1, <2>2 DEF UF!StuckOnlyAfterLoss
<1>4. QED
  BY <1>1, <1>2, <1>3, PTL DEF Spec

-----------------------------------------------------------------------------
(***************************************************************************)
(* Messages over TCP                                                       *)
(***************************************************************************)
\* The bytes printed, and the bytes typed.
Answered == FlattenSeq(te_answers)
Asked == FlattenSeq(te_sent)

TypingTypes ==
    /\ te_sent \in Seq(Seq(Nat)) /\ te_answers \in Seq(Seq(Nat))
    /\ te_to_server \in Seq(Nat) /\ te_to_client \in Seq(Nat)
    /\ te_split \in BOOLEAN

\* How far the two programs can be, given the connection.
Connection ==
    /\ te_link \in {"none", "open", "closed", "reset"}
    /\ te_link = "none" =>
           /\ te_client \in {"started", "failed"}
           /\ te_sent = <<>> /\ te_answers = <<>>
           /\ te_to_server = <<>> /\ te_to_client = <<>>
    /\ te_link = "open" => te_client \in {"typing", "waiting"}
    /\ te_link = "closed" => te_client = "exited"
    /\ te_link = "reset" => te_to_client = <<>>
    /\ te_client = "started" => te_link = "none"
    /\ te_server \in {"started", "listening"} => te_to_client = <<>>

\* On a sound connection no byte is lost: what was printed, what is on its
\* way back and what is on its way there is what was typed.
Conserved ==
    /\ te_link = "open" => (Answered \o te_to_client) \o te_to_server = Asked
    /\ IsPrefix(Answered, Asked)

\* While every recv has returned all there was, at most one message is under
\* way, whole and in one direction.
OneUnderWay ==
    \E m \in Seq(Nat) :
        /\ te_sent = Append(te_answers, m)
        /\ \/ te_to_server = m /\ te_to_client = <<>>
           \/ te_to_client = m /\ te_to_server = <<>>

Unsplit ==
    te_split = FALSE =>
        /\ IsPrefix(te_answers, te_sent)
        /\ te_link = "open" /\ te_client = "typing" =>
               /\ te_answers = te_sent
               /\ te_to_server = <<>> /\ te_to_client = <<>>
        /\ te_link = "open" /\ te_client = "waiting" => OneUnderWay

TypingInv ==
    /\ TypingTypes /\ Connection /\ Conserved /\ Unsplit
    /\ TE!NeverBothWaiting

LEMMA TypingConstants ==
    /\ \A m \in Messages : m \in Seq(Nat) /\ m # <<>>
    /\ te_BUF_SIZE \in Nat /\ te_BUF_SIZE > 1
BY ProgramsAssumption DEF TE!TcpEchoAssumption

LEMMA NothingFirst ==
    ASSUME NEW s \in Seq(Nat)
    PROVE  <<>> \o s = s /\ s \o <<>> = s
BY ConcatEmptySeq

LEMMA Regroup ==
    ASSUME NEW s \in Seq(Nat), NEW t \in Seq(Nat), NEW u \in Seq(Nat)
    PROVE  (s \o t) \o u = s \o (t \o u)
BY ConcatAssociative, SMTT(30)

LEMMA TypingInitInv ==
    ASSUME TE!Init
    PROVE  TypingInv
<1> USE DEF TE!Init
<1>1. Connection /\ TE!NeverBothWaiting
  BY DEF Connection, TE!NeverBothWaiting
<1>2. <<>> \in Seq(Nat) /\ <<>> \in Seq(Seq(Nat))
  OBVIOUS
<1>8. TypingTypes
  BY <1>2 DEF TypingTypes
<1>3. IsPrefix(te_answers, te_sent)
  BY <1>2, PrefixOfItself
<1>4. Answered = <<>> /\ Asked = <<>>
  BY FlattenEmpty DEF Answered, Asked
<1>5. Conserved
  BY <1>2, <1>4, PrefixOfItself DEF Conserved
<1>6. Unsplit
  BY <1>3 DEF Unsplit
<1>7. QED
  BY <1>1, <1>5, <1>6, <1>8 DEF TypingInv

LEMMA TypingSendInv ==
    ASSUME TypingInv, TE!Send
    PROVE  TypingInv'
<1> USE DEF TE!Send
<1>1. PICK m \in Messages :
          /\ te_sent' = Append(te_sent, m)
          /\ te_to_server' = IF te_link = "open" THEN te_to_server \o m
                             ELSE te_to_server
  OBVIOUS
<1>2. m \in Seq(Nat) /\ m # <<>>
  BY TypingConstants
<1>3. TypingTypes
  BY DEF TypingInv
<1>4. te_to_server \o m \in Seq(Nat)
  BY <1>2, <1>3, ConcatProperties DEF TypingTypes
<1>5. te_sent' \in Seq(Seq(Nat))
  BY <1>1, <1>2, <1>3, AppendProperties DEF TypingTypes
<1>6. TypingTypes'
  BY <1>1, <1>3, <1>4, <1>5 DEF TypingTypes
<1>7. Connection'
  BY DEF TypingInv, Connection
<1>8. Answered' = Answered
  BY DEF Answered
<1>9. Asked' = Asked \o m
  BY <1>1, <1>2, <1>3, FlattenAppend DEF Asked, TypingTypes
<1>10. Answered \in Seq(Nat) /\ Asked \in Seq(Nat)
  BY <1>3, FlattenType DEF Answered, Asked, TypingTypes
<1>11. Conserved'
  <2>1. IsPrefix(Answered', Asked')
    BY <1>2, <1>8, <1>9, <1>10, PrefixGrows DEF TypingInv, Conserved
  <2>2. ASSUME te_link = "open"
        PROVE  (Answered' \o te_to_client') \o te_to_server' = Asked'
    <3> DEFINE a == Answered \o te_to_client
    <3>1. a \in Seq(Nat)
      BY <1>3, <1>10, ConcatProperties DEF TypingTypes
    <3>2. a \o te_to_server = Asked
      BY <2>2 DEF TypingInv, Conserved
    <3>3. Answered' \o te_to_client' = a
      BY <1>8
    <3> HIDE DEF a
    <3>4. te_to_server' = te_to_server \o m
      BY <1>1, <2>2
    <3>7. te_to_server \in Seq(Nat)
      BY <1>3 DEF TypingTypes
    <3>5. a \o (te_to_server \o m) = (a \o te_to_server) \o m
      BY <1>2, <3>1, <3>7, Regroup
    <3>6. QED
      BY <1>9, <3>2, <3>3, <3>4, <3>5
  <2>3. QED
    BY <2>1, <2>2 DEF Conserved
<1>12. Unsplit'
  <2> SUFFICES ASSUME te_split = FALSE
               PROVE  /\ IsPrefix(te_answers', te_sent')
                      /\ te_link' = "open" => OneUnderWay'
    BY DEF Unsplit
  <2>1. IsPrefix(te_answers', te_sent')
    BY <1>1, <1>2, <1>3, PrefixAppend DEF TypingInv, Unsplit, TypingTypes
  <2>2. ASSUME te_link = "open"
        PROVE  OneUnderWay'
    <3>1. te_answers = te_sent /\ te_to_server = <<>> /\ te_to_client = <<>>
      BY <2>2 DEF TypingInv, Unsplit
    <3>2. te_to_server' = m
      BY <1>1, <1>2, <2>2, <3>1, NothingFirst
    <3>3. QED
      BY <1>1, <1>2, <3>1, <3>2 DEF OneUnderWay
  <2>3. QED
    BY <2>1, <2>2
<1>13. TE!NeverBothWaiting'
  <2> SUFFICES ASSUME te_link = "open"
               PROVE  te_to_server' # <<>>
    BY DEF TE!NeverBothWaiting
  <2>1. te_to_server' = te_to_server \o m
    BY <1>1
  <2>2. Len(te_to_server \o m) = Len(te_to_server) + Len(m)
    BY <1>2, <1>3, ConcatProperties DEF TypingTypes
  <2>3. Len(te_to_server) \in Nat /\ Len(m) \in Nat /\ Len(m) # 0
    BY <1>2, <1>3, LenProperties, EmptySeq DEF TypingTypes
  <2>4. Len(te_to_server') # 0
    BY <2>1, <2>2, <2>3
  <2>5. QED
    BY <2>4
<1>14. QED
  BY <1>6, <1>7, <1>11, <1>12, <1>13 DEF TypingInv

LEMMA TypingPrintInv ==
    ASSUME TypingInv, TE!PrintAnswer
    PROVE  TypingInv'
<1> USE DEF TE!PrintAnswer
<1>1. PICK n \in 1 .. Len(te_to_client) :
          /\ te_answers' = Append(te_answers, SubSeq(te_to_client, 1, n))
          /\ te_to_client' = SubSeq(te_to_client, n + 1, Len(te_to_client))
          /\ te_split' = (te_split \/ n < Len(te_to_client))
  OBVIOUS
<1> DEFINE got == SubSeq(te_to_client, 1, n)
           rest == SubSeq(te_to_client, n + 1, Len(te_to_client))
<1>2. TypingTypes
  BY DEF TypingInv
<1>3. te_to_client \in Seq(Nat) /\ te_to_server \in Seq(Nat)
  BY <1>2 DEF TypingTypes
<1>4. n \in 0 .. Len(te_to_client) /\ n # 0 /\ Len(te_to_client) \in Nat
  BY <1>3, LenProperties
<1>5. /\ got \in Seq(Nat) /\ rest \in Seq(Nat)
      /\ got \o rest = te_to_client
      /\ Len(got) = n /\ Len(rest) = Len(te_to_client) - n
  BY <1>3, <1>4, Cut
<1>6. te_answers' = Append(te_answers, got) /\ te_to_client' = rest
  BY <1>1
<1> HIDE DEF got, rest
<1>7. te_answers' \in Seq(Seq(Nat))
  BY <1>2, <1>5, <1>6, AppendProperties DEF TypingTypes
<1>8. TypingTypes'
  BY <1>1, <1>2, <1>5, <1>6, <1>7 DEF TypingTypes
<1>9. te_to_client # <<>>
  BY <1>4
<1>10. te_link = "open"
  BY <1>9 DEF TypingInv, Connection
<1>11. Connection'
  BY <1>9, <1>10 DEF TypingInv, Connection
<1>12. Answered \in Seq(Nat) /\ Asked \in Seq(Nat)
  BY <1>2, FlattenType DEF Answered, Asked, TypingTypes
<1>13. Answered' = Answered \o got
  BY <1>2, <1>5, <1>6, FlattenAppend DEF Answered, TypingTypes
<1>14. Asked' = Asked
  BY DEF Asked
<1>15. (Answered' \o te_to_client') \o te_to_server' = Asked'
  <2>6. Answered \in Seq(Nat) /\ got \in Seq(Nat) /\ rest \in Seq(Nat)
    BY <1>5, <1>12
  <2>1. (Answered \o got) \o rest = Answered \o (got \o rest)
    BY <2>6, Regroup
  <2>2. Answered' \o te_to_client' = Answered \o te_to_client
    BY <1>5, <1>6, <1>13, <2>1
  <2>3. (Answered \o te_to_client) \o te_to_server = Asked
    BY <1>10 DEF TypingInv, Conserved
  <2>4. te_to_server' = te_to_server
    OBVIOUS
  <2>5. QED
    BY <1>14, <2>2, <2>3, <2>4
<1>16. IsPrefix(Answered', Asked')
  <2> DEFINE a == Answered'
  <2>1. a \in Seq(Nat) /\ te_to_client' \in Seq(Nat)
        /\ te_to_server' \in Seq(Nat)
    BY <1>3, <1>5, <1>6, <1>12, <1>13, ConcatProperties
  <2>2. te_to_client' \o te_to_server' \in Seq(Nat)
    BY <2>1, ConcatProperties
  <2>3. Asked' = (a \o te_to_client') \o te_to_server'
    BY <1>15
  <2> HIDE DEF a
  <2>7. (a \o te_to_client') \o te_to_server'
        = a \o (te_to_client' \o te_to_server')
    BY <2>1, Regroup
  <2>4. Asked' = a \o (te_to_client' \o te_to_server')
    BY <2>3, <2>7
  <2>5. IsPrefix(a, Asked')
    BY <2>1, <2>2, <2>4, PrefixOfConcat
  <2>6. QED
    BY <2>5 DEF a
<1>17. Conserved'
  BY <1>15, <1>16 DEF Conserved
<1>18. Unsplit'
  <2> SUFFICES ASSUME te_split' = FALSE
               PROVE  /\ te_answers' = te_sent'
                      /\ te_to_server' = <<>> /\ te_to_client' = <<>>
    <3>1. te_answers' = te_sent' =>  IsPrefix(te_answers', te_sent')
      BY <1>7, PrefixOfItself
    <3>2. te_client' = "typing"
      OBVIOUS
    <3>3. QED
      BY <3>1, <3>2 DEF Unsplit
  <2>1. te_split = FALSE /\ ~(n < Len(te_to_client))
    BY <1>1, <1>2 DEF TypingTypes
  <2>2. n = Len(te_to_client)
    BY <1>4, <2>1
  <2>3. rest = <<>>
    <3>1. Len(rest) = 0
      BY <1>4, <1>5, <2>2
    <3>2. QED
      BY <1>5, <3>1, EmptySeq
  <2>4. got = te_to_client
    BY <1>5, <2>3, NothingFirst
  <2>5. OneUnderWay
    BY <1>10, <2>1 DEF TypingInv, Unsplit
  <2>6. PICK m \in Seq(Nat) :
            /\ te_sent = Append(te_answers, m)
            /\ \/ te_to_server = m /\ te_to_client = <<>>
               \/ te_to_client = m /\ te_to_server = <<>>
    BY <2>5 DEF OneUnderWay
  <2>7. te_to_client = m /\ te_to_server = <<>>
    BY <1>9, <2>6
  <2>8. te_answers' = te_sent
    BY <1>6, <2>4, <2>6, <2>7
  <2>9. QED
    BY <1>6, <2>3, <2>7, <2>8
<1>19. TE!NeverBothWaiting'
  BY DEF TE!NeverBothWaiting
<1>20. QED
  BY <1>8, <1>11, <1>17, <1>18, <1>19 DEF TypingInv

LEMMA TypingEchoInv ==
    ASSUME TypingInv, TE!ServerEcho
    PROVE  TypingInv'
<1> USE DEF TE!ServerEcho
<1>1. PICK n \in 1 .. Len(te_to_server) :
          /\ te_to_server' = SubSeq(te_to_server, n + 1, Len(te_to_server))
          /\ te_to_client' = IF te_link = "open"
                             THEN te_to_client \o SubSeq(te_to_server, 1, n)
                             ELSE te_to_client
          /\ te_split' = (te_split \/ n < Len(te_to_server))
  OBVIOUS
<1> DEFINE got == SubSeq(te_to_server, 1, n)
           rest == SubSeq(te_to_server, n + 1, Len(te_to_server))
<1>2. TypingTypes
  BY DEF TypingInv
<1>3. te_to_client \in Seq(Nat) /\ te_to_server \in Seq(Nat)
  BY <1>2 DEF TypingTypes
<1>4. n \in 0 .. Len(te_to_server) /\ n # 0 /\ Len(te_to_server) \in Nat
  BY <1>3, LenProperties
<1>5. /\ got \in Seq(Nat) /\ rest \in Seq(Nat)
      /\ got \o rest = te_to_server
      /\ Len(got) = n /\ Len(rest) = Len(te_to_server) - n
  BY <1>3, <1>4, Cut
<1>6. /\ te_to_server' = rest
      /\ te_to_client' = IF te_link = "open" THEN te_to_client \o got
                         ELSE te_to_client
  BY <1>1
<1> HIDE DEF got, rest
<1>7. te_to_client \o got \in Seq(Nat)
  BY <1>3, <1>5, ConcatProperties
<1>8. TypingTypes'
  BY <1>1, <1>2, <1>5, <1>6, <1>7 DEF TypingTypes
<1>9. te_to_server # <<>> /\ te_link # "none"
  <2>1. te_to_server # <<>>
    BY <1>4
  <2>2. QED
    BY <2>1 DEF TypingInv, Connection
<1>10. Connection'
  BY <1>6, <1>9 DEF TypingInv, Connection
<1>11. Answered' = Answered /\ Asked' = Asked /\ Answered \in Seq(Nat)
  BY <1>2, FlattenType DEF Answered, Asked, TypingTypes
<1>12. ASSUME te_link = "open"
       PROVE  (Answered' \o te_to_client') \o te_to_server' = Asked'
  <2> DEFINE a == Answered \o te_to_client
  <2>1. a \in Seq(Nat)
    BY <1>3, <1>11, ConcatProperties
  <2>2. a \o te_to_server = Asked
    BY <1>12 DEF TypingInv, Conserved
  <2>8. /\ Answered \in Seq(Nat) /\ te_to_client \in Seq(Nat)
        /\ got \in Seq(Nat) /\ rest \in Seq(Nat)
    BY <1>3, <1>5, <1>11
  <2>3. Answered \o (te_to_client \o got) = a \o got
    BY <2>8, Regroup
  <2> HIDE DEF a
  <2>4. a \o (got \o rest) = (a \o got) \o rest
    BY <2>1, <2>8, Regroup
  <2>5. te_to_client' = te_to_client \o got
    BY <1>6, <1>12
  <2>6. Answered' \o te_to_client' = a \o got
    BY <1>11, <2>3, <2>5
  <2>7. QED
    BY <1>5, <1>6, <1>11, <2>2, <2>4, <2>6
<1>13. Conserved'
  BY <1>11, <1>12 DEF TypingInv, Conserved
<1>14. Unsplit'
  <2> SUFFICES ASSUME te_split' = FALSE, te_link = "open"
               PROVE  te_client = "waiting" /\ OneUnderWay'
    <3>1. te_split' = FALSE => te_split = FALSE
      BY <1>1, <1>2 DEF TypingTypes
    <3>2. QED
      BY <3>1 DEF TypingInv, Unsplit
  <2>1. te_split = FALSE /\ ~(n < Len(te_to_server))
    BY <1>1, <1>2 DEF TypingTypes
  <2>2. n = Len(te_to_server)
    BY <1>4, <2>1
  <2>3. rest = <<>>
    <3>1. Len(rest) = 0
      BY <1>4, <1>5, <2>2
    <3>2. QED
      BY <1>5, <3>1, EmptySeq
  <2>4. got = te_to_server
    BY <1>5, <2>3, NothingFirst
  <2>5. te_client = "waiting"
    BY <1>9, <2>1 DEF TypingInv, Unsplit, Connection
  <2>6. OneUnderWay
    BY <2>1, <2>5 DEF TypingInv, Unsplit
  <2>7. PICK m \in Seq(Nat) :
            /\ te_sent = Append(te_answers, m)
            /\ \/ te_to_server = m /\ te_to_client = <<>>
               \/ te_to_client = m /\ te_to_server = <<>>
    BY <2>6 DEF OneUnderWay
  <2>8. te_to_server = m /\ te_to_client = <<>>
    BY <1>9, <2>7
  <2>9. te_to_client' = m
    BY <1>5, <1>6, <2>4, <2>8, NothingFirst
  <2>10. QED
    BY <1>6, <2>3, <2>5, <2>7, <2>9 DEF OneUnderWay
<1>15. TE!NeverBothWaiting'
  <2> SUFFICES ASSUME te_link = "open"
               PROVE  te_to_client' # <<>>
    BY DEF TE!NeverBothWaiting
  <2>1. Len(te_to_client \o got) = Len(te_to_client) + Len(got)
    BY <1>3, <1>5, ConcatProperties
  <2>2. Len(te_to_client) \in Nat /\ Len(got) \in Nat /\ Len(got) # 0
    BY <1>3, <1>4, <1>5, LenProperties
  <2>3. Len(te_to_client \o got) # 0
    BY <2>1, <2>2
  <2>4. te_to_client \o got # <<>>
    BY <2>3
  <2>5. QED
    BY <1>6, <2>4
<1>16. QED
  BY <1>8, <1>10, <1>13, <1>14, <1>15 DEF TypingInv

LEMMA TypingStepInv ==
    ASSUME TypingInv, [TE!Next]_(TE!vars)
    PROVE  TypingInv'
<1> USE DEF TypingInv
<1>1. CASE TE!Send
  BY <1>1, TypingSendInv
<1>2. CASE TE!PrintAnswer
  BY <1>2, TypingPrintInv
<1>3. CASE TE!ServerEcho
  BY <1>3, TypingEchoInv
<1>4. CASE /\ te_sent' = te_sent /\ te_answers' = te_answers
           /\ te_split' = te_split
           /\ \/ TE!Connect \/ TE!ConnectFails \/ TE!LoseConnection
              \/ TE!Exit \/ TE!Listen \/ TE!SetupFails \/ TE!Accept
              \/ TE!AcceptFails \/ TE!ServerEnds \/ TE!Break
              \/ UNCHANGED TE!vars
  <2> USE <1>4 DEF TE!Connect, TE!ConnectFails, TE!LoseConnection, TE!Exit,
          TE!Listen, TE!SetupFails, TE!Accept, TE!AcceptFails,
          TE!ServerEnds, TE!Break, TE!vars
  <2>1. TypingTypes'
    <3>1. /\ te_to_server' \in {te_to_server, <<>>}
          /\ te_to_client' \in {te_to_client, <<>>}
      OBVIOUS
    <3>2. <<>> \in Seq(Nat)
      OBVIOUS
    <3>3. QED
      BY <3>1, <3>2 DEF TypingTypes
  <2>2. Connection'
    BY DEF Connection
  <2>3. Answered' = Answered /\ Asked' = Asked
    BY DEF Answered, Asked
  <2>4. Conserved'
    <3>1. CASE TE!Connect
      <4>1. Answered = <<>> /\ Asked = <<>>
        BY <3>1, FlattenEmpty DEF Connection, Answered, Asked
      <4>2. te_to_client' = <<>> /\ te_to_server' = <<>>
        BY <3>1 DEF Connection
      <4>3. <<>> \o <<>> = <<>>
        BY NothingFirst
      <4>4. QED
        BY <2>3, <4>1, <4>2, <4>3 DEF Conserved
    <3>2. CASE ~TE!Connect
      <4>1. te_link' = "open" =>
                /\ te_link = "open" /\ te_to_client' = te_to_client
                /\ te_to_server' = te_to_server
        BY <3>2
      <4>2. QED
        BY <2>3, <4>1 DEF Conserved
    <3>3. QED
      BY <3>1, <3>2
  <2>5. Unsplit'
    <3>1. CASE TE!Connect
      BY <3>1 DEF Connection, Unsplit
    <3>2. CASE ~TE!Connect
      <4>1. te_link' = "open" =>
                /\ te_link = "open" /\ te_to_client' = te_to_client
                /\ te_to_server' = te_to_server
                /\ te_client' = te_client
        BY <3>2 DEF Connection
      <4>2. te_link' = "open" => (OneUnderWay <=> OneUnderWay')
        BY <4>1 DEF OneUnderWay
      <4>3. QED
        BY <4>1, <4>2 DEF Unsplit
    <3>3. QED
      BY <3>1, <3>2
  <2>6. TE!NeverBothWaiting'
    BY DEF TE!NeverBothWaiting, Connection
  <2>7. QED
    BY <2>1, <2>2, <2>4, <2>5, <2>6
<1>5. QED
  <2>1. UNCHANGED TE!vars => te_sent' = te_sent /\ te_answers' = te_answers
                             /\ te_split' = te_split
    BY DEF TE!vars
  <2>2. \/ TE!Connect \/ TE!ConnectFails \/ TE!LoseConnection
        \/ TE!Exit \/ TE!Listen \/ TE!SetupFails \/ TE!Accept
        \/ TE!AcceptFails \/ TE!ServerEnds \/ TE!Break
        => te_sent' = te_sent /\ te_answers' = te_answers
           /\ te_split' = te_split
    BY DEF TE!Connect, TE!ConnectFails, TE!LoseConnection, TE!Exit,
           TE!Listen, TE!SetupFails, TE!Accept, TE!AcceptFails,
           TE!ServerEnds, TE!Break
  <2>3. QED
    BY <1>1, <1>2, <1>3, <1>4, <2>1, <2>2 DEF TE!Next

\* The messages of socketlab_tcp come back in order, and neither program
\* waits for the other: for messages of every length and any splitting.
THEOREM InOrder == Spec => []EchoInOrder
<1>1. Init => TypingInv
  BY TypingInitInv DEF Init
<1>2. TypingInv /\ [Next]_vars => TypingInv'
  BY OneProgram, TypingStepInv
<1>3. TypingInv => EchoInOrder
  <2> SUFFICES ASSUME TypingInv
               PROVE  TE!AnswersInOrder /\ TE!NeverBothWaiting
    BY DEF EchoInOrder, TE!EchoInOrder
  <2>1. /\ TE!FlattenSeq(te_answers) = Answered
        /\ TE!FlattenSeq(te_sent) = Asked
    BY DEF TE!FlattenSeq, FlattenSeq, Answered, Asked
  <2>2. TE!IsPrefix(Answered, Asked)
    BY DEF TypingInv, Conserved, IsPrefix, TE!IsPrefix
  <2>3. IsPrefix(te_answers, te_sent) => TE!IsPrefix(te_answers, te_sent)
    BY DEF IsPrefix, TE!IsPrefix
  <2>4. ~te_split => te_split = FALSE
    BY DEF TypingInv, TypingTypes
  <2>5. ~te_split => TE!IsPrefix(te_answers, te_sent)
    BY <2>3, <2>4 DEF TypingInv, Unsplit
  <2>6. TE!AnswersInOrder
    BY <2>1, <2>2, <2>5 DEF TE!AnswersInOrder
  <2>7. QED
    BY <2>6 DEF TypingInv
<1>4. QED
  BY <1>1, <1>2, <1>3, PTL DEF Spec
=============================================================================
