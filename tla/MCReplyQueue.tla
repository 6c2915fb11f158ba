---------------------------- MODULE MCReplyQueue ----------------------------
(***************************************************************************)
(* Constants for TLC: the lines are told apart by their names, and a recv  *)
(* brings up to MaxBatch of them, or "\r\n" alone, which is no line.       *)
(***************************************************************************)
EXTENDS ReplyQueue

CONSTANTS MaxBatch

MCBatches == UNION {[1 .. n -> Replies] : n \in 0 .. MaxBatch}
=============================================================================
