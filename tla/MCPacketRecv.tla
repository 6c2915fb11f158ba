---------------------------- MODULE MCPacketRecv ----------------------------
(***************************************************************************)
(* Constants for TLC: a file of N distinct chunks and, for every chunk, a  *)
(* frame for this host; beside them a broadcast frame, a frame for someone *)
(* else, a damaged frame and a padded one.                                 *)
(***************************************************************************)
EXTENDS PacketRecv, TLC

CONSTANTS N, Other

MCContent == [i \in 1 .. N |-> <<"chunk", i - 1>>]
MCChunks == {MCContent[i] : i \in 1 .. N}

Frame(dst, index, pad) ==
    [dst |-> dst, index |-> index, data |-> MCContent[index + 1],
     crc |-> <<index, MCContent[index + 1]>>, pad |-> pad]

MCFrames ==
    {Frame(Own, i, 0) : i \in 0 .. N - 1}
    \cup {Frame(Broadcast, 0, 0), Frame(Other, 0, 0), Frame(Own, N - 1, 8)}
    \cup {[Frame(Own, 0, 0) EXCEPT !.data = MCContent[2]]}
=============================================================================
