----------------------------- MODULE LossyQueue -----------------------------
(***************************************************************************)
(* What a queue promises when its entries pass through the hands of the    *)
(* processes that serve it.  It is the queue of JobQueue, except that a    *)
(* process that dies or is refused by the store may take what it has in    *)
(* hand with it, and that an entry may come back after it left, for a      *)
(* process that took it up before.                                         *)
(***************************************************************************)
EXTENDS JobQueue

CONSTANTS Process, Nobody

VARIABLES
    hand,   \* the entry each process has in hand, or Nobody
    lost    \* the entries a process had in hand when it died or was refused

lossyVars == <<entries, queued, hand, lost>>

LossyInit ==
    /\ QueueInit
    /\ hand = [p \in Process |-> Nobody]
    /\ lost = {}

\* A process takes an entry up or puts it down.
HandsMove ==
    \/ UNCHANGED hand
    \/ \E p \in Process, i \in DOMAIN entries \cup {Nobody} : hand' = [hand EXCEPT ![p] = i]

\* A step of the queue never takes an entry out of it but a finished one.
Serve == QueueNext /\ HandsMove /\ UNCHANGED lost

\* Only what was finished or lost comes back, and into somebody's hand.
Return(i) ==
    /\ i \notin queued
    /\ Finished(i) \/ i \in lost
    /\ queued' = queued \cup {i}
    /\ HandsMove
    /\ \E p \in Process : hand'[p] = i
    /\ UNCHANGED <<entries, lost>>

\* What the process had in hand stays queued if it is in reach of another.
Lose(p) ==
    /\ hand[p] # Nobody
    /\ hand' = [hand EXCEPT ![p] = Nobody]
    /\ lost' = lost \cup {hand[p]}
    /\ queued' \in {queued, queued \ {hand[p]}}
    /\ UNCHANGED entries

LossyNext ==
    \/ Serve
    \/ \E i \in DOMAIN entries : Return(i)
    \/ \E p \in Process : Lose(p)

LossySpec == LossyInit /\ [][LossyNext]_lossyVars
=============================================================================
