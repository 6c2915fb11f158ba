---------------------------- MODULE ReorderBuffer ---------------------------
(***************************************************************************)
(* What the receiver of packet_transfer promises, without its list: chunks *)
(* arrive in any order, some are held, and the output is the file from its *)
(* start.                                                                  *)
(*                                                                         *)
(* Eager = TRUE is the promise of packet_transfer/readme.md, rules 1 to 3: *)
(* when the needed chunk arrives, every held chunk that follows without a  *)
(* gap goes out with it, so the needed chunk is never among the held ones. *)
(* With Eager = FALSE the buffer may stop earlier and keep a chunk it      *)
(* could have let go until that chunk arrives again.                       *)
(***************************************************************************)
EXTENDS Naturals, Sequences

CONSTANTS Content, Eager

VARIABLES need, held, output

vars == <<need, held, output>>

Init == need = 0 /\ held = {} /\ output = <<>>

\* A chunk that cannot go out yet is held.
Keep ==
    /\ \E i \in need .. Len(Content) - 1 :
         /\ Eager => i > need
         /\ held' = held \cup {i}
    /\ UNCHANGED <<need, output>>

\* The needed chunk arrives: it and the held ones up to n - 1 go out.
Deliver ==
    \E n \in need + 1 .. Len(Content) :
        /\ \A i \in need + 1 .. n - 1 : i \in held
        /\ Eager => n \notin held
        /\ need' = n
        /\ held' = {i \in held : i >= n}
        /\ output' = SubSeq(Content, 1, n)

\* A new receiver starts over.
Restart == need' = 0 /\ held' = {} /\ output' = <<>>

Next == Keep \/ Deliver \/ Restart

Spec == Init /\ [][Next]_vars
=============================================================================
