-------------------------- MODULE OrderedWorkQueue --------------------------
(***************************************************************************)
(* What the thread pool of utils/include/ThreadedWorkQueue.h promises to    *)
(* the one thread that feeds it (lines 24-28 and 53-71 of that header):     *)
(* items are processed in arbitrary order, each at most once and never      *)
(* after its destruction; they are destroyed in the order in which they     *)
(* were queued; an item is destroyed unprocessed only once the queue itself *)
(* is being destroyed.  Threads, locks, counters and batches are not        *)
(* mentioned here: ThreadedWorkQueue shows that they implement this.        *)
(***************************************************************************)
EXTENDS Naturals, Sequences

CONSTANT Items

VARIABLES queued,      \* items handed over so far, in order
          processed,   \* items whose WorkProc() has returned
          destroyed,   \* items deleted so far, in order
          closing      \* the queue's destructor has been entered

vars == <<queued, processed, destroyed, closing>>

InSeq(s) == {s[k] : k \in DOMAIN s}

Init == /\ queued = <<>>
        /\ processed = {}
        /\ destroyed = <<>>
        /\ closing = FALSE

Submit(i) == /\ ~closing
             /\ i \notin InSeq(queued)
             /\ queued' = Append(queued, i)
             /\ UNCHANGED <<processed, destroyed, closing>>

Process(i) == /\ i \in InSeq(queued) \ (processed \cup InSeq(destroyed))
              /\ processed' = processed \cup {i}
              /\ UNCHANGED <<queued, destroyed, closing>>

DestroyNext == /\ Len(destroyed) < Len(queued)
               /\ LET i == queued[Len(destroyed) + 1]
                  IN  /\ i \in processed \/ closing
                      /\ destroyed' = Append(destroyed, i)
               /\ UNCHANGED <<queued, processed, closing>>

Close == /\ ~closing
         /\ closing' = TRUE
         /\ UNCHANGED <<queued, processed, destroyed>>

Next == \/ \E i \in Items : Submit(i) \/ Process(i)
        \/ DestroyNext
        \/ Close

Spec == Init /\ [][Next]_vars
=============================================================================
