------------------------------ MODULE FileCopy ------------------------------
(***************************************************************************)
(* What a program that saves a file from the network promises: it goes     *)
(* through the file from its first byte to the place it has reached and    *)
(* appends what it comes by, until it declares the copy finished, be it    *)
(* early.  The end of a stretch may be left out, which leaves a gap; a     *)
(* copy without gaps is the beginning of the file that was reached.        *)
(***************************************************************************)
EXTENDS Naturals, Sequences

CONSTANT file

VARIABLES copy, reached, finished, gaps

vars == <<copy, reached, finished, gaps>>

Init == copy = <<>> /\ reached = 0 /\ finished = FALSE /\ gaps = FALSE

\* The next stretch of the file, or its beginning up to m, joins the copy.
Extend ==
    /\ ~finished
    /\ \E n \in reached + 1 .. Len(file) : \E m \in reached .. n :
         /\ copy' = copy \o SubSeq(file, reached + 1, m)
         /\ reached' = n
         /\ gaps' = (gaps \/ m < n)
    /\ UNCHANGED finished

Finish ==
    /\ ~finished
    /\ finished' = TRUE
    /\ UNCHANGED <<copy, reached, gaps>>

Spec == Init /\ [][Extend \/ Finish]_vars
=============================================================================
