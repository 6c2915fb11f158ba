----------------------------- MODULE ReplyQueue -----------------------------
(***************************************************************************)
(* The queue between the threads of the FTP client (ftp_client.cpp): the   *)
(* thread RecvReplyThread pushes the lines of each recv and notifies the   *)
(* condition variable cv once; any thread may call GetReplyFromQueue,      *)
(* which sleeps on cv while the queue is empty and then takes the front.   *)
(*                                                                         *)
(* Every access holds mtx, so what is done under one lock of mtx is one    *)
(* action.  A thread is in `waiting` between the call of cv.wait that found*)
(* the queue empty and its wake-up, and in `woken` until it has mtx again. *)
(* A thread in neither set that takes or blocks has just made its call: it *)
(* may be faster than a woken one.                                         *)
(***************************************************************************)
EXTENDS Naturals, Sequences, FiniteSets

CONSTANTS
    Consumers,   \* the threads that call GetReplyFromQueue
    Replies,     \* the lines a server may send
    Batches,     \* what one recv may bring: sequences of lines
    MaxReplies   \* bound: how many lines are pushed altogether

ASSUME ReplyQueueAssumption ==
    /\ IsFiniteSet(Consumers)
    /\ Batches \subseteq Seq(Replies)
    /\ MaxReplies \in Nat

VARIABLES
    msgQueue,   \* the queue of lines
    waiting,    \* the threads asleep in cv.wait
    woken,      \* the threads notified that do not have mtx yet
    pushed,     \* history: all lines in the order they were received
    taken       \* history: [by, reply], in the order they were taken

vars == <<msgQueue, waiting, woken, pushed, taken>>

Init ==
    /\ msgQueue = <<>>
    /\ waiting = {}
    /\ woken = {}
    /\ pushed = <<>>
    /\ taken = <<>>

-----------------------------------------------------------------------------
\* cv.notify_one: one sleeping thread wakes up, if there is one.
NotifyNobody == UNCHANGED <<waiting, woken>>

NotifyOne ==
    \/ /\ waiting = {}
       /\ UNCHANGED <<waiting, woken>>
    \/ \E t \in waiting :
           /\ waiting' = waiting \ {t}
           /\ woken' = woken \cup {t}

\* One recv: its lines are pushed in order, then cv is notified once.
Push(batch) ==
    /\ Len(pushed) + Len(batch) <= MaxReplies
    /\ msgQueue' = msgQueue \o batch
    /\ pushed' = pushed \o batch
    /\ NotifyOne
    /\ UNCHANGED taken

\* GetReplyFromQueue finds the queue empty, in a new call or after a wake-up.
Block(t) ==
    /\ msgQueue = <<>>
    /\ t \notin waiting
    /\ waiting' = waiting \cup {t}
    /\ woken' = woken \ {t}
    /\ UNCHANGED <<msgQueue, pushed, taken>>

\* GetReplyFromQueue returns the front.
TakeWithoutPop(t) ==
    /\ msgQueue # <<>>
    /\ t \notin waiting
    /\ taken' = Append(taken, [by |-> t, reply |-> Head(msgQueue)])
    /\ woken' = woken \ {t}
    /\ UNCHANGED <<msgQueue, waiting, pushed>>

Take(t) ==
    /\ msgQueue # <<>>
    /\ t \notin waiting
    /\ taken' = Append(taken, [by |-> t, reply |-> Head(msgQueue)])
    /\ msgQueue' = Tail(msgQueue)
    /\ woken' = woken \ {t}
    /\ UNCHANGED <<waiting, pushed>>

\* A condition variable may wake a thread for no reason.
SpuriousWake(t) ==
    /\ t \in waiting
    /\ waiting' = waiting \ {t}
    /\ woken' = woken \cup {t}
    /\ UNCHANGED <<msgQueue, pushed, taken>>

Next ==
    \/ \E batch \in Batches : Push(batch)
    \/ \E t \in Consumers : Block(t) \/ Take(t) \/ SpuriousWake(t)

Spec == Init /\ [][Next]_vars

\* A thread that was notified gets mtx in the end, as nothing is held for
\* long under it; nobody has to call, and nothing has to arrive.
Fairness ==
    \A t \in Consumers : WF_vars(t \in woken /\ (Take(t) \/ Block(t)))

LiveSpec == Spec /\ Fairness

-----------------------------------------------------------------------------
(***************************************************************************)
(* Properties.                                                             *)
(***************************************************************************)
\* Types; a thread sleeps or was woken, never both.
TypeOK ==
    /\ msgQueue \in Seq(Replies)
    /\ waiting \subseteq Consumers
    /\ woken \subseteq Consumers
    /\ waiting \cap woken = {}
    /\ pushed \in Seq(Replies)
    /\ taken \in Seq([by : Consumers, reply : Replies])

\* No line is lost, doubled or overtaken between recv and the threads that
\* take: what was received is what was taken and then what is queued.
TakenReplies == [i \in 1 .. Len(taken) |-> taken[i].reply]

NothingLost == pushed = TakenReplies \o msgQueue

\* While a thread sleeps, every queued line has a woken thread that is on its
\* way to take it (or finds that somebody was faster).  It is what calling
\* notify_one for each line promises; it holds if a recv brings one line.
NoLostWakeup == waiting # {} => Len(msgQueue) <= Cardinality(woken)

\* A thread does not sleep for ever beside a line it could take.
SleeperServed ==
    \A t \in Consumers :
        (t \in waiting /\ msgQueue # <<>>) ~>
            (t \notin waiting \/ msgQueue = <<>>)
=============================================================================
