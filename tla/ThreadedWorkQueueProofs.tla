----------------------- MODULE ThreadedWorkQueueProofs ----------------------
(***************************************************************************)
(* Proofs, for any number of items, workers and backlog limits, about the   *)
(* thread pool of ThreadedWorkQueue.                                        *)
(***************************************************************************)
EXTENDS ThreadedWorkQueue, FiniteSetTheorems, SequenceTheorems, TLAPS

-----------------------------------------------------------------------------
(* Facts about the operators the actions are built from. *)

(* Whatever the number of workers, the limit of a Queue() call is a natural *)
(* number: Queue() compares it with a size (line 138).                      *)
LEMMA LimitsAreNat == BacklogLimits \subseteq Nat
  <1>1. Cardinality(Threads) \in Nat
    BY FS_CardinalityType, ThreadsAssumption
  <1>2. 2 * Cardinality(Threads) \in Nat
    BY <1>1
  <1> QED
    BY <1>2, LimitsAssumption, Zenon DEF BacklogLimits

(* The batch FetchOrderedDoneItems produces is a sequence of items.         *)
LEMMA FetchType ==
  ASSUME TypeOK, FetchOrderedDoneItems
  PROVE  /\ finalizedCounter' \in Nat
         /\ done' \subseteq done
         /\ oid' \in Seq(Items)
  <1>1. PICK last \in finalizedCounter .. doneCounter :
             /\ finalizedCounter' = last
             /\ done' = {d \in done : d[1] > last}
             /\ oid' \in [1 .. last - finalizedCounter -> Items]
    BY DEF FetchOrderedDoneItems
  <1>2. last \in Nat /\ last - finalizedCounter \in Nat
    BY DEF TypeOK
  <1>3. oid' \in Seq(Items)
    BY <1>1, <1>2, SeqDef
  <1> QED
    BY <1>1, <1>2, <1>3

(* The workers that hold an item can be counted, as _working does.          *)
LEMMA BusyFinite == IsFiniteSet(Busy)
  BY FS_Subset, ThreadsAssumption DEF Busy

(* A pool just constructed satisfies the wake-up invariant.                 *)
LEMMA InitWake == Init => WakeInv
  <1> SUFFICES ASSUME Init PROVE WakeInv
    OBVIOUS
  <1>0. <<>> \in Seq(Items)
    BY EmptySeq
  <1>f. FlagsOK
    BY Zenon DEF Init, FlagsOK
  <1>1. TypeOK
    BY <1>0, <1>f DEF Init, TypeOK
  <1>2. Busy = {} /\ Workers = {}
    BY DEF Init, Busy, Workers
  <1>3. WorkingIsExact
    BY <1>2, FS_EmptySet DEF Init, WorkingIsExact
  <1> QED
    BY <1>1, <1>2, <1>3 DEF Init, WakeInv, ThreadStates, TwoWakeAll,
       BacklogIsAttended, ProducerWillBeNotified

-----------------------------------------------------------------------------
(* Type correctness.  An item in a worker's hands, or kept by the producer, *)
(* is never None: that is why it needs ThreadStates.                        *)

(* The flags and program counters keep their ranges.                        *)
LEMMA FlagsStep ==
  ASSUME FlagsOK, [Next]_vars
  PROVE  FlagsOK'
  <1>1. CASE \E w \in Threads : WorkerStep(w)
    BY <1>1, Zenon DEF WorkerStep, WorkProc, WorkerThreadProc, HandOver, FlagsOK
  <1>2. CASE CallStep
    BY <1>2, Zenon DEF CallStep, QueueWoken, ProcessSync, DeleteSync,
       FinalizeLoop, DeleteFetched, Return, Join, DiscardDone, DiscardBacklog,
       Free, FlagsOK
  <1>3. CASE \E i \in Items, lim \in BacklogLimits : Queue(i, lim)
    BY <1>3, Zenon DEF Queue, EnqueueItem, KeepItem, FlagsOK
  <1>4. CASE Finalize \/ Destroy
    BY <1>4, Zenon DEF Finalize, Destroy, FlagsOK
  <1>5. CASE \E t \in Threads \cup {Producer} : SpuriousWakeup(t)
    BY <1>5, Zenon DEF SpuriousWakeup, FlagsOK
  <1>6. CASE UNCHANGED vars
    BY <1>6, Zenon DEF vars, FlagsOK
  <1> QED
    BY <1>1, <1>2, <1>3, <1>4, <1>5, <1>6 DEF Next, Freed

(* A step of a worker keeps the types.                                      *)
LEMMA WorkerTypes ==
  ASSUME TypeOK, FlagsOK', ThreadStates, NEW w \in Threads, WorkerStep(w)
  PROVE  TypeOK'
  <1>1. CASE WorkProc(w)
    BY <1>1 DEF WorkProc, TypeOK, ThreadStates, mainVars
  <1>2. CASE WorkerThreadProc(w)
    <2>1. done' \subseteq Nat \X Items
      BY <1>2 DEF WorkerThreadProc, HandOver, TypeOK
    <2>2. WorkingAfterHandOver(w) \in Int
      BY DEF WorkingAfterHandOver, TypeOK
    <2>3. AsleepAfterHandOver(w) \subseteq Threads \cup {Producer}
      BY DEF AsleepAfterHandOver, TypeOK
    <2>4. /\ finalizedCounter' = finalizedCounter
          /\ main' = main /\ limit' = limit /\ syncItem' = syncItem
          /\ oid' = oid /\ queued' = queued /\ processed' = processed
          /\ destroyed' = destroyed /\ synced' = synced
      BY <1>2 DEF WorkerThreadProc, mainVars, histVars
    <2>5. CASE ExitLoop(w)
      BY <2>1, <2>2, <2>3, <2>4, <2>5 DEF ExitLoop, TypeOK
    <2>6. CASE WaitForWork(w)
      BY <2>1, <2>2, <2>3, <2>4, <2>6 DEF WaitForWork, TypeOK
    <2>7. CASE TakeItem(w)
      <3>1. Head(backlog) \in Items /\ Tail(backlog) \in Seq(Items)
        BY <2>7, HeadTailProperties DEF TakeItem, TypeOK
      <3> QED
        BY <2>1, <2>2, <2>3, <2>4, <2>7, <3>1 DEF TakeItem, TypeOK
    <2> QED
      BY <1>2, <2>5, <2>6, <2>7 DEF WorkerThreadProc
  <1> QED
    BY <1>1, <1>2 DEF WorkerStep

(* A call of Queue() keeps the types.                                       *)
LEMMA QueueTypes ==
  ASSUME TypeOK, FlagsOK', NEW i \in Items, NEW lim \in BacklogLimits, Queue(i, lim)
  PROVE  TypeOK'
  <1>1. Append(queued, i) \in Seq(Items) /\ Append(backlog, i) \in Seq(Items)
    BY DEF TypeOK
  <1>2. limit' \in Nat /\ queued' \in Seq(Items)
    BY <1>1, LimitsAreNat DEF Queue
  <1>3. PICK new \in NewWorkers :
            /\ pc' = [w \in Threads |-> IF w \in new THEN "lock" ELSE pc[w]]
            /\ IF Workers \cup new # {} THEN EnqueueItem(i, lim) ELSE KeepItem(i)
    BY DEF Queue
  <1>4. pc' \in [Threads -> {"off", "lock", "work", "exit"}]
    BY <1>3 DEF TypeOK
  <1>5. /\ working' = working /\ doneCounter' = doneCounter /\ twi' = twi
        /\ seq' = seq /\ processed' = processed /\ destroyed' = destroyed
    BY DEF Queue
  <1>6. CASE EnqueueItem(i, lim)
    <2>1. PICK asleep \in AsleepAfterNotify :
              \/ /\ notifyOnDone' = TRUE
                 /\ waiting' = asleep \cup {Producer}
                 /\ main' = "queue"
                 /\ UNCHANGED <<done, finalizedCounter, oid>>
              \/ /\ FetchOrderedDoneItems
                 /\ waiting' = asleep
                 /\ main' = "destroy"
                 /\ UNCHANGED notifyOnDone
      BY <1>6 DEF EnqueueItem
    <2>2. asleep \subseteq Threads \cup {Producer}
      BY DEF AsleepAfterNotify, TypeOK
    <2>3. backlog' \in Seq(Items) /\ syncItem' = syncItem /\ synced' = synced
      BY <1>1, <1>6 DEF EnqueueItem
    <2>4. /\ done' \subseteq Nat \X Items /\ finalizedCounter' \in Nat
          /\ oid' \in Seq(Items)
      BY <2>1, FetchType DEF TypeOK
    <2> QED
      BY <1>2, <1>4, <1>5, <2>1, <2>2, <2>3, <2>4 DEF TypeOK
  <1>7. CASE KeepItem(i)
    <2>1. /\ done' \subseteq Nat \X Items /\ finalizedCounter' \in Nat
          /\ oid' \in Seq(Items)
      BY <1>7, FetchType DEF KeepItem, TypeOK
    <2> QED
      BY <1>2, <1>4, <1>5, <1>7, <2>1 DEF KeepItem, TypeOK
  <1> QED
    BY <1>3, <1>6, <1>7

(* The rest of the producer's calls keep the types.                         *)
LEMMA CallTypes ==
  ASSUME TypeOK, FlagsOK', ThreadStates, CallStep
  PROVE  TypeOK'
  <1> USE DEF poolVars, mainVars, histVars
  <1>1. CASE QueueWoken
    <2>1. /\ done' \subseteq Nat \X Items /\ finalizedCounter' \in Nat
          /\ oid' \in Seq(Items)
      BY <1>1, FetchType DEF QueueWoken, TypeOK
    <2> QED
      BY <1>1, <2>1 DEF QueueWoken, TypeOK
  <1>2. CASE ProcessSync
    BY <1>2 DEF ProcessSync, TypeOK, ThreadStates
  <1>3. CASE DeleteSync
    <2>1. Append(destroyed, syncItem) \in Seq(Items)
      BY <1>3 DEF DeleteSync, TypeOK, ThreadStates
    <2> QED
      BY <1>3, <2>1 DEF DeleteSync, TypeOK
  <1>4. CASE FinalizeLoop
    <2>1. /\ done' \subseteq Nat \X Items /\ finalizedCounter' \in Nat
          /\ oid' \in Seq(Items)
      BY <1>4, FetchType DEF FinalizeLoop, TypeOK
    <2> QED
      BY <1>4, <2>1 DEF FinalizeLoop, TypeOK
  <1>5. CASE DeleteFetched
    <2>1. /\ Head(oid) \in Items /\ Tail(oid) \in Seq(Items)
      BY <1>5, HeadTailProperties DEF DeleteFetched, TypeOK
    <2>2. Append(destroyed, Head(oid)) \in Seq(Items)
      BY <2>1 DEF TypeOK
    <2> QED
      BY <1>5, <2>1, <2>2 DEF DeleteFetched, TypeOK
  <1>6. CASE Return
    BY <1>6 DEF Return, TypeOK
  <1>7. CASE Join
    BY <1>7 DEF Join, TypeOK
  <1>8. CASE DiscardDone
    <2>1. PICK d \in done : /\ destroyed' = Append(destroyed, d[2])
                            /\ done' = done \ {d}
      BY <1>8 DEF DiscardDone
    <2>2. d[2] \in Items
      BY DEF TypeOK
    <2>3. Append(destroyed, d[2]) \in Seq(Items)
      BY <2>2 DEF TypeOK
    <2> QED
      BY <1>8, <2>1, <2>3 DEF DiscardDone, TypeOK
  <1>9. CASE DiscardBacklog
    <2>1. /\ Head(backlog) \in Items /\ Tail(backlog) \in Seq(Items)
      BY <1>9, HeadTailProperties DEF DiscardBacklog, TypeOK
    <2>2. Append(destroyed, Head(backlog)) \in Seq(Items)
      BY <2>1 DEF TypeOK
    <2> QED
      BY <1>9, <2>1, <2>2 DEF DiscardBacklog, TypeOK
  <1>10. CASE Free
    BY <1>10 DEF Free, TypeOK
  <1> QED
    BY <1>1, <1>2, <1>3, <1>4, <1>5, <1>6, <1>7, <1>8, <1>9, <1>10 DEF CallStep

(* Every step keeps the types.                                              *)
LEMMA TypeStep ==
  ASSUME TypeOK, ThreadStates, [Next]_vars
  PROVE  TypeOK'
  <1> USE DEF poolVars, mainVars, histVars
  <1> FlagsOK'
    BY FlagsStep DEF TypeOK
  <1>1. CASE \E w \in Threads : WorkerStep(w)
    BY <1>1, WorkerTypes
  <1>2. CASE CallStep
    BY <1>2, CallTypes
  <1>3. CASE \E i \in Items, lim \in BacklogLimits : Queue(i, lim)
    BY <1>3, QueueTypes
  <1>4. CASE Finalize
    BY <1>4 DEF Finalize, TypeOK
  <1>5. CASE Destroy
    BY <1>5 DEF Destroy, TypeOK
  <1>6. CASE \E t \in Threads \cup {Producer} : SpuriousWakeup(t)
    BY <1>6 DEF SpuriousWakeup, TypeOK
  <1>7. CASE UNCHANGED vars
    BY <1>7 DEF vars, TypeOK
  <1> QED
    BY <1>1, <1>2, <1>3, <1>4, <1>5, <1>6, <1>7 DEF Next, Freed

-----------------------------------------------------------------------------
(* Where threads are.  Only the worker that moves changes its own place;    *)
(* only the destructor sets _stopping, and it wakes everybody.              *)

(* A worker's step keeps what each program counter implies.                 *)
LEMMA WorkerThreadStates ==
  ASSUME TypeOK, ThreadStates, NEW w \in Threads, WorkerStep(w)
  PROVE  ThreadStates'
  <1>1. CASE WorkProc(w)
    BY <1>1 DEF WorkProc, ThreadStates, TypeOK, Workers, mainVars
  <1>2. CASE WorkerThreadProc(w)
    <2>1. /\ pc[w] = "lock" /\ main' = main /\ stopping' = stopping
          /\ syncItem' = syncItem /\ w \notin waiting
      BY <1>2 DEF WorkerThreadProc, mainVars
    <2>2. AsleepAfterHandOver(w) \subseteq waiting
      BY DEF AsleepAfterHandOver
    <2>3. CASE ExitLoop(w)
      BY <2>1, <2>2, <2>3 DEF ExitLoop, ThreadStates, TypeOK, Workers
    <2>4. CASE WaitForWork(w)
      BY <2>1, <2>2, <2>4, ThreadsAssumption
         DEF WaitForWork, ThreadStates, TypeOK, Workers
    <2>5. CASE TakeItem(w)
      <3>1. Head(backlog) \in Items
        BY <2>5, HeadTailProperties DEF TakeItem, TypeOK
      <3> QED
        BY <2>1, <2>2, <2>5, <3>1, NoneAssumption
           DEF TakeItem, ThreadStates, TypeOK, Workers
    <2> QED
      BY <1>2, <2>3, <2>4, <2>5 DEF WorkerThreadProc
  <1> QED
    BY <1>1, <1>2 DEF WorkerStep

(* So does a call of Queue(): a new worker starts with empty hands.         *)
LEMMA QueueThreadStates ==
  ASSUME TypeOK, ThreadStates, NEW i \in Items, NEW lim \in BacklogLimits,
         Queue(i, lim)
  PROVE  ThreadStates'
  <1>1. PICK new \in NewWorkers :
            /\ pc' = [w \in Threads |-> IF w \in new THEN "lock" ELSE pc[w]]
            /\ IF Workers \cup new # {} THEN EnqueueItem(i, lim) ELSE KeepItem(i)
    BY DEF Queue
  <1>2. new \subseteq Threads \ Workers
    BY DEF NewWorkers
  <1>3. /\ main = "idle" /\ twi' = twi /\ stopping' = stopping
    BY DEF Queue
  <1>4. \A w \in new : pc[w] = "off" /\ twi[w] = None
    BY <1>2 DEF Workers, ThreadStates
  <1>5. CASE Workers \cup new # {}
    <2>1. PICK asleep \in AsleepAfterNotify :
              \/ main' = "queue" /\ waiting' = asleep \cup {Producer}
              \/ main' = "destroy" /\ waiting' = asleep
      BY <1>1, <1>5 DEF EnqueueItem
    <2>2. asleep \subseteq waiting
      BY DEF AsleepAfterNotify
    <2> QED
      BY <1>1, <1>2, <1>3, <1>4, <2>1, <2>2, ThreadsAssumption
         DEF ThreadStates, TypeOK
  <1>6. CASE Workers \cup new = {}
    BY <1>1, <1>3, <1>6 DEF KeepItem, ThreadStates, TypeOK, Workers
  <1> QED
    BY <1>5, <1>6

(* So do the producer's other steps.                                        *)
LEMMA CallThreadStates ==
  ASSUME TypeOK, ThreadStates, CallStep
  PROVE  ThreadStates'
  <1> USE DEF poolVars, mainVars, histVars, ThreadStates, TypeOK, Workers
  <1>1. CASE QueueWoken
    BY <1>1, ThreadsAssumption DEF QueueWoken
  <1>2. CASE ProcessSync
    BY <1>2 DEF ProcessSync
  <1>3. CASE DeleteSync
    BY <1>3 DEF DeleteSync
  <1>4. CASE FinalizeLoop
    BY <1>4, ThreadsAssumption DEF FinalizeLoop
  <1>5. CASE DeleteFetched \/ Return
    BY <1>5 DEF DeleteFetched, Return
  <1>6. CASE Join
    BY <1>6 DEF Join
  <1>7. CASE DiscardDone \/ DiscardBacklog \/ Free
    BY <1>7 DEF DiscardDone, DiscardBacklog, Free
  <1> QED
    BY <1>1, <1>2, <1>3, <1>4, <1>5, <1>6, <1>7 DEF CallStep

(* So does every step.                                                      *)
LEMMA ThreadStatesStep ==
  ASSUME TypeOK, ThreadStates, [Next]_vars
  PROVE  ThreadStates'
  <1> USE DEF poolVars, mainVars, histVars
  <1>1. CASE \E w \in Threads : WorkerStep(w)
    BY <1>1, WorkerThreadStates
  <1>2. CASE CallStep
    BY <1>2, CallThreadStates
  <1>3. CASE \E i \in Items, lim \in BacklogLimits : Queue(i, lim)
    BY <1>3, QueueThreadStates
  <1>4. CASE Finalize
    BY <1>4 DEF Finalize, ThreadStates, Workers
  <1>5. CASE Destroy
    BY <1>5 DEF Destroy, ThreadStates, Workers, TypeOK
  <1>6. CASE \E t \in Threads \cup {Producer} : SpuriousWakeup(t)
    BY <1>6 DEF SpuriousWakeup, ThreadStates, Workers
  <1>7. CASE UNCHANGED vars
    BY <1>7 DEF vars, ThreadStates, Workers
  <1> QED
    BY <1>1, <1>2, <1>3, <1>4, <1>5, <1>6, <1>7 DEF Next, Freed

-----------------------------------------------------------------------------
(* _working counts the workers that hold an item.                           *)

(* _working changes together with the set of busy workers.                  *)
LEMMA WorkingStep ==
  ASSUME TypeOK, ThreadStates, ThreadStates', WorkingIsExact, [Next]_vars
  PROVE  WorkingIsExact'
  <1> USE DEF poolVars, mainVars, histVars
  <1>1. ASSUME working' = Cardinality(Busy')
        PROVE  WorkingIsExact'
    <2>1. CASE main' \in {"discard", "freed"}
      <3>1. Busy' = {}
        BY <2>1 DEF Busy, ThreadStates
      <3> QED
        BY <1>1, <3>1, FS_EmptySet DEF WorkingIsExact
    <2> QED
      BY <1>1, <2>1 DEF WorkingIsExact
  <1>2. ASSUME UNCHANGED <<working, twi>>
        PROVE  WorkingIsExact'
    BY <1>1, <1>2 DEF WorkingIsExact, Busy
  <1>3. ASSUME NEW w \in Threads, WorkerThreadProc(w)
        PROVE  WorkingIsExact'
    <2> DEFINE others == Busy \ {w}
    <2>1. IsFiniteSet(others) /\ Cardinality(others) \in Nat
      BY BusyFinite, FS_Subset, FS_CardinalityType
    <2>2. WorkingAfterHandOver(w) = Cardinality(others)
      <3>1. CASE twi[w] = None
        <4>1. others = Busy
          BY <3>1 DEF Busy
        <4> QED
          BY <3>1, <4>1 DEF WorkingAfterHandOver, WorkingIsExact
      <3>2. CASE twi[w] # None
        <4>1. w \in Busy
          BY <3>2 DEF Busy
        <4> QED
          BY <3>2, <4>1, BusyFinite, FS_RemoveElement
             DEF WorkingAfterHandOver, WorkingIsExact
      <3> QED
        BY <3>1, <3>2
    <2>3. CASE twi' = [twi EXCEPT ![w] = None] /\ working' = WorkingAfterHandOver(w)
      <3>1. Busy' = others
        BY <2>3 DEF Busy, TypeOK
      <3> QED
        BY <1>1, <2>2, <2>3, <3>1
    <2>4. CASE TakeItem(w)
      <3>1. Head(backlog) \in Items
        BY <2>4, HeadTailProperties DEF TakeItem, TypeOK
      <3>2. Busy' = others \cup {w}
        BY <2>4, <3>1, NoneAssumption DEF TakeItem, Busy, TypeOK
      <3>3. Cardinality(others \cup {w}) = Cardinality(others) + 1
        BY <2>1, FS_AddElement
      <3> QED
        BY <1>1, <2>2, <2>4, <3>2, <3>3 DEF TakeItem
    <2> QED
      BY <1>3, <2>3, <2>4 DEF WorkerThreadProc, ExitLoop, WaitForWork
  <1>4. CASE \E w \in Threads : WorkProc(w)
    BY <1>2, <1>4 DEF WorkProc
  <1>5. CASE CallStep
    BY <1>2, <1>5 DEF CallStep, QueueWoken, ProcessSync, DeleteSync,
       FinalizeLoop, DeleteFetched, Return, Join, DiscardDone, DiscardBacklog,
       Free
  <1>6. CASE \E i \in Items, lim \in BacklogLimits : Queue(i, lim)
    BY <1>2, <1>6 DEF Queue
  <1>7. CASE \/ Finalize \/ Destroy \/ UNCHANGED vars
             \/ \E t \in Threads \cup {Producer} : SpuriousWakeup(t)
    BY <1>2, <1>7 DEF Finalize, Destroy, SpuriousWakeup, vars
  <1> QED
    BY <1>3, <1>4, <1>5, <1>6, <1>7 DEF Next, WorkerStep, Freed

-----------------------------------------------------------------------------
(* Wake-ups.  A worker only goes to sleep over an empty backlog; an item    *)
(* that joins an empty backlog wakes one sleeper, one that joins others     *)
(* wakes them all.                                                          *)

Attendance == TwoWakeAll /\ BacklogIsAttended

(* A worker goes to sleep only when _backlog is empty, and takes an item    *)
(* only with its hands free: the backlog stays attended.                    *)
LEMMA WorkerAttendance ==
  ASSUME TypeOK, ThreadStates, ThreadStates', Attendance,
         NEW w \in Threads, WorkerThreadProc(w)
  PROVE  Attendance'
  <1> USE DEF Attendance, TwoWakeAll, BacklogIsAttended
  <1>1. /\ pc[w] = "lock" /\ w \notin waiting
        /\ AsleepAfterHandOver(w) \subseteq waiting
    BY DEF WorkerThreadProc, AsleepAfterHandOver
  <1>2. CASE WaitForWork(w)
    <2>1. backlog' = <<>> /\ Len(backlog') = 0
      BY <1>2 DEF WaitForWork
    <2> QED
      BY <2>1
  <1>3. CASE ExitLoop(w)
    <2>1. Workers' = Workers /\ Workers # {}
      BY <1>1, <1>3 DEF ExitLoop, Workers, TypeOK
    <2>2. waiting' = {}
      BY <1>3 DEF ExitLoop, WorkerThreadProc, ThreadStates
    <2> QED
      BY <2>1, <2>2
  <1>4. CASE TakeItem(w)
    <2>1. Len(backlog') = Len(backlog) - 1 /\ Len(backlog) \in Nat
      BY <1>4, HeadTailProperties DEF TakeItem, TypeOK
    <2>2. Workers' = Workers /\ waiting' \subseteq waiting /\ w \in Workers
      BY <1>1, <1>4 DEF TakeItem, Workers, TypeOK
    <2>3. backlog' \in Seq(Items)
      BY <1>4, HeadTailProperties DEF TakeItem, TypeOK
    <2>4. CASE backlog' = <<>>
      BY <2>4
    <2>5. CASE backlog' # <<>>
      <3>1. Len(backlog) >= 2
        BY <2>1, <2>3, <2>5, EmptySeq
      <3> QED
        BY <2>2, <3>1
    <2> QED
      BY <2>4, <2>5
  <1> QED
    BY <1>2, <1>3, <1>4 DEF WorkerThreadProc

(* The notification of a new item reaches a sleeper if the backlog was      *)
(* empty, and all of them otherwise: the backlog stays attended.            *)
LEMMA QueueAttendance ==
  ASSUME TypeOK, ThreadStates, Attendance,
         NEW i \in Items, NEW lim \in BacklogLimits, Queue(i, lim)
  PROVE  Attendance'
  <1> USE DEF Attendance, TwoWakeAll, BacklogIsAttended
  <1>1. PICK new \in NewWorkers :
            /\ pc' = [w \in Threads |-> IF w \in new THEN "lock" ELSE pc[w]]
            /\ IF Workers \cup new # {} THEN EnqueueItem(i, lim) ELSE KeepItem(i)
    BY DEF Queue
  <1>2. new \subseteq Threads \ Workers
    BY DEF NewWorkers
  <1>3. Workers' = Workers \cup new
    BY <1>1, <1>2 DEF Workers, TypeOK
  <1>4. twi' = twi /\ Producer \notin waiting
    BY DEF Queue, ThreadStates
  <1>5. CASE Workers \cup new # {}
    <2>1. backlog' = Append(backlog, i)
      BY <1>1, <1>5 DEF EnqueueItem
    <2>2. PICK asleep \in AsleepAfterNotify :
              waiting' = asleep \cup {Producer} \/ waiting' = asleep
      BY <1>1, <1>5 DEF EnqueueItem
    <2>3. Workers' \cap waiting' \subseteq asleep
      BY <2>2, ThreadsAssumption DEF Workers
    <2>4. CASE asleep = {}
      BY <1>3, <1>5, <2>3, <2>4
    <2>5. CASE asleep # {}
      <3>1. backlog = <<>> /\ \E t \in waiting : asleep = waiting \ {t}
        BY <2>5 DEF AsleepAfterNotify
      <3>2. PICK t \in waiting : asleep = waiting \ {t}
        BY <3>1
      <3>3. t \in Threads /\ pc[t] = "lock" /\ twi[t] = None
        BY <1>4, <3>2 DEF ThreadStates, TypeOK
      <3>4. pc'[t] = "lock" /\ twi'[t] = None /\ t \in Workers' /\ t \notin waiting'
        BY <1>1, <1>3, <1>4, <2>2, <3>2, <3>3, ThreadsAssumption DEF Workers
      <3>5. Len(backlog') = 1
        BY <2>1, <3>1
      <3> QED
        BY <3>4, <3>5
    <2> QED
      BY <2>4, <2>5
  <1>6. CASE Workers \cup new = {}
    <2>1. backlog' = backlog /\ waiting' = waiting /\ backlog = <<>>
      BY <1>1, <1>6 DEF KeepItem
    <2> QED
      BY <2>1
  <1> QED
    BY <1>5, <1>6

(* Waking threads, or going on with a call, leaves no item unattended.      *)
LEMMA FewerSleepersAttendance ==
  ASSUME Attendance, Workers' \cap waiting' \subseteq waiting,
         UNCHANGED <<backlog, pc, twi>>
  PROVE  Attendance'
  BY DEF Attendance, TwoWakeAll, BacklogIsAttended, Workers

(* Every step keeps the backlog attended.                                   *)
LEMMA AttendanceStep ==
  ASSUME TypeOK, ThreadStates, ThreadStates', Attendance, [Next]_vars
  PROVE  Attendance'
  <1> USE DEF poolVars, mainVars, histVars
  <1>1. CASE \E w \in Threads : WorkerThreadProc(w)
    BY <1>1, WorkerAttendance
  <1>2. ASSUME NEW w \in Threads, WorkProc(w)
        PROVE  Attendance'
    <2>1. /\ pc' = [pc EXCEPT ![w] = "lock"] /\ pc[w] = "work"
          /\ UNCHANGED <<backlog, waiting, twi>>
      BY <1>2 DEF WorkProc
    <2>2. Workers' = Workers
      BY <2>1 DEF Workers, TypeOK
    <2> QED
      BY <2>1, <2>2 DEF Attendance, TwoWakeAll, BacklogIsAttended, TypeOK
  <1>3. CASE QueueWoken \/ FinalizeLoop
    <2>1. Workers' \cap waiting' \subseteq waiting
      BY <1>3, ThreadsAssumption DEF QueueWoken, FinalizeLoop, Workers
    <2> QED
      BY <1>3, <2>1, FewerSleepersAttendance DEF QueueWoken, FinalizeLoop
  <1>4. CASE ProcessSync \/ DeleteSync \/ DeleteFetched \/ Return \/ Join \/ Free
    BY <1>4, FewerSleepersAttendance
       DEF ProcessSync, DeleteSync, DeleteFetched, Return, Join, Free
  <1>5. CASE DiscardDone
    BY <1>5, FewerSleepersAttendance DEF DiscardDone
  <1>6. CASE DiscardBacklog
    <2>1. Workers' = Workers /\ UNCHANGED <<waiting, pc, twi>>
      BY <1>6 DEF DiscardBacklog, Workers
    <2>2. Workers \cap waiting = {} /\ Workers # {}
      BY <1>6 DEF DiscardBacklog, ThreadStates, Attendance, BacklogIsAttended,
         Workers
    <2> QED
      BY <2>1, <2>2 DEF Attendance, TwoWakeAll, BacklogIsAttended
  <1>7. CASE \E i \in Items, lim \in BacklogLimits : Queue(i, lim)
    BY <1>7, QueueAttendance
  <1>8. CASE \/ Finalize \/ Destroy \/ UNCHANGED vars
             \/ \E t \in Threads \cup {Producer} : SpuriousWakeup(t)
    BY <1>8, FewerSleepersAttendance
       DEF Finalize, Destroy, SpuriousWakeup, vars
  <1> QED
    BY <1>1, <1>2, <1>3, <1>4, <1>5, <1>6, <1>7, <1>8
       DEF Next, WorkerStep, CallStep, Freed

(* The producer never sleeps over its request: it sets _notify_on_done      *)
(* before it waits, and whoever clears the flag wakes everybody.            *)
LEMMA NotifiedStep ==
  ASSUME TypeOK, ThreadStates, ThreadStates', WorkingIsExact,
         ProducerWillBeNotified, [Next]_vars
  PROVE  ProducerWillBeNotified'
  <1> USE DEF poolVars, mainVars, histVars, ProducerWillBeNotified
  <1>0. working \in Nat
    BY BusyFinite, FS_CardinalityType DEF WorkingIsExact
  <1>1. ASSUME NEW w \in Threads, WorkerThreadProc(w), Producer \in waiting'
        PROVE  notifyOnDone' /\ (working' > 0 \/ backlog' # <<>>)
    <2>1. Producer \in AsleepAfterHandOver(w)
      BY <1>1, ThreadsAssumption
         DEF WorkerThreadProc, ExitLoop, WaitForWork, TakeItem
    <2>2. Producer \in waiting /\ notifyOnDone
      BY <2>1 DEF AsleepAfterHandOver
    <2>3. twi[w] = None
      BY <2>1, <2>2 DEF AsleepAfterHandOver
    <2>4. notifyOnDone'
      BY <1>1, <2>2, <2>3 DEF WorkerThreadProc, HandOver
    <2>5. CASE WaitForWork(w)
      BY <2>2, <2>3, <2>4, <2>5 DEF WaitForWork, WorkingAfterHandOver
    <2>6. CASE TakeItem(w)
      BY <1>0, <2>3, <2>4, <2>6 DEF TakeItem, WorkingAfterHandOver
    <2>7. CASE ExitLoop(w)
      BY <2>2, <2>7 DEF ExitLoop, ThreadStates
    <2> QED
      BY <1>1, <2>5, <2>6, <2>7 DEF WorkerThreadProc
  <1>2. CASE \E w \in Threads : WorkProc(w)
    BY <1>2 DEF WorkProc
  <1>3. CASE QueueWoken
    <2>1. Len(backlog) > limit => backlog # <<>>
      BY DEF TypeOK
    <2> QED
      BY <1>3, <2>1 DEF QueueWoken
  <1>4. CASE FinalizeLoop
    BY <1>0, <1>4 DEF FinalizeLoop
  <1>5. CASE ProcessSync \/ DeleteSync \/ DeleteFetched \/ Return \/ Join \/ Free
    BY <1>5 DEF ProcessSync, DeleteSync, DeleteFetched, Return, Join, Free
  <1>6. CASE DiscardDone \/ DiscardBacklog
    BY <1>6 DEF DiscardDone, DiscardBacklog, ThreadStates
  <1>7. ASSUME NEW i \in Items, NEW lim \in BacklogLimits, Queue(i, lim)
        PROVE  ProducerWillBeNotified'
    <2>1. Producer \notin waiting
      BY <1>7 DEF Queue, ThreadStates
    <2>2. PICK new \in NewWorkers :
             IF Workers \cup new # {} THEN EnqueueItem(i, lim) ELSE KeepItem(i)
      BY <1>7 DEF Queue
    <2>3. CASE EnqueueItem(i, lim)
      <3>1. backlog' # <<>>
        BY <2>3 DEF EnqueueItem, TypeOK
      <3>2. \A asleep \in AsleepAfterNotify : Producer \notin asleep
        BY <2>1 DEF AsleepAfterNotify
      <3> QED
        BY <2>3, <3>1, <3>2 DEF EnqueueItem
    <2>4. CASE KeepItem(i)
      BY <2>1, <2>4 DEF KeepItem
    <2> QED
      BY <2>2, <2>3, <2>4
  <1>8. CASE \/ Finalize \/ Destroy \/ UNCHANGED vars
             \/ \E t \in Threads \cup {Producer} : SpuriousWakeup(t)
    BY <1>8 DEF Finalize, Destroy, SpuriousWakeup, vars
  <1> QED
    BY <1>1, <1>2, <1>3, <1>4, <1>5, <1>6, <1>7, <1>8
       DEF Next, WorkerStep, CallStep, Freed

(* THEOREM: in every reachable state the types are right, the counters of   *)
(* the pool are exact, and neither a worker nor the producer sleeps through *)
(* the event it waits for.                                                  *)
THEOREM WakeUpsAreNotLost == Spec => []WakeInv
  <1>1. WakeInv /\ [Next]_vars => WakeInv'
    <2> SUFFICES ASSUME WakeInv, [Next]_vars PROVE WakeInv'
      OBVIOUS
    <2>1. TypeOK /\ ThreadStates /\ WorkingIsExact /\ Attendance
          /\ ProducerWillBeNotified
      BY DEF WakeInv, Attendance
    <2>2. TypeOK' /\ ThreadStates'
      BY <2>1, TypeStep, ThreadStatesStep
    <2> QED
      BY <2>1, <2>2, WorkingStep, AttendanceStep, NotifiedStep
         DEF WakeInv, Attendance
  <1> QED
    BY InitWake, <1>1, PTL DEF Spec

-----------------------------------------------------------------------------
(* Order.  Where an item stands in `queued` tells which of destroyed, oid,  *)
(* _done or a worker, and _backlog holds it.                                *)

(* The lengths and positions the order invariant is about are integers.     *)
LEMMA Lengths ==
  ASSUME TypeOK
  PROVE  /\ Len(backlog) \in Nat /\ Len(queued) \in Nat
         /\ Len(destroyed) \in Nat /\ Len(oid) \in Nat
         /\ Numbered \in Int /\ Fetched \in Nat
  BY LenProperties DEF TypeOK, Numbered, Fetched

(* A pool just constructed satisfies the order invariant.                   *)
LEMMA InitOrder == Init => OrderInv
  <1> SUFFICES ASSUME Init PROVE OrderInv
    OBVIOUS
  <1>1. Busy = {} /\ Workers = {} /\ Numbered = 0 /\ Fetched = 0
    BY DEF Init, Busy, Workers, Numbered, Fetched
  <1>2. Positions
    BY <1>1 DEF Init, Positions, DestroyedInQueueOrder
  <1>3. Counters
    BY <1>1 DEF Init, Counters
  <1>4. InFlight
    BY <1>1 DEF Init, InFlight
  <1> QED
    BY <1>2, <1>3, <1>4 DEF OrderInv

(* A step that touches none of the sequences, numbers and holders.          *)
LEMMA SameOrder ==
  ASSUME OrderInv, Workers' = Workers,
         UNCHANGED <<backlog, done, doneCounter, twi, seq, finalizedCounter,
                     oid, queued, destroyed, synced, syncItem>>,
         \/ main' = main
         \/ main \in {"idle", "queue", "finalize", "join"} /\
            main' \in {"idle", "queue", "finalize", "join", "discard"}
         \/ main = "destroy" /\ oid = <<>> /\ main' = "idle"
  PROVE  OrderInv'
  <1>1. Busy' = Busy /\ Numbered' = Numbered /\ Fetched' = Fetched
    BY DEF Busy, Numbered, Fetched
  <1>2. Positions'
    BY <1>1 DEF OrderInv, Positions, DestroyedInQueueOrder
  <1>3. Counters'
    BY <1>1 DEF OrderInv, Counters
  <1>4. InFlight'
    BY <1>1 DEF OrderInv, InFlight, DoneHas, BusyHas
  <1> QED
    BY <1>2, <1>3, <1>4 DEF OrderInv

(* What the other places hold while worker w's hands are emptied into _done *)
LEMMA HandOverOrder ==
  ASSUME TypeOK, InFlight, NEW w \in Threads, HandOver(w)
  PROVE  LET others == Busy \ {w}
         IN  /\ \A d \in done' : /\ Fetched < synced + d[1]
                                 /\ synced + d[1] <= Numbered
                                 /\ d[2] = queued[synced + d[1]]
             /\ \A v \in others : ~ \E d \in done' : synced + d[1] = synced + seq[v]
             /\ \A n \in Nat : DoneHas(n) \/ BusyHas(n) =>
                   \/ \E d \in done' : synced + d[1] = n
                   \/ \E v \in others : synced + seq[v] = n
  <1> DEFINE others == Busy \ {w}
  <1>0. synced \in Nat /\ \A v \in Threads : seq[v] \in Nat
    BY DEF TypeOK
  <1>00. \A d \in done : d[1] \in Nat
    BY DEF TypeOK
  <1>1. CASE twi[w] = None
    <2>1. done' = done /\ others = Busy
      BY <1>1 DEF HandOver, Busy
    <2> QED
      BY <2>1 DEF InFlight, DoneHas, BusyHas
  <1>2. CASE twi[w] # None
    <2>1. done' = done \cup {<<seq[w], twi[w]>>} /\ w \in Busy
      BY <1>2 DEF HandOver, Busy
    <2>2. \A d \in done' : /\ Fetched < synced + d[1]
                           /\ synced + d[1] <= Numbered
                           /\ d[2] = queued[synced + d[1]]
      BY <2>1 DEF InFlight
    <2>3. \A v \in others : ~ \E d \in done' : synced + d[1] = synced + seq[v]
      <3> SUFFICES ASSUME NEW v \in others, NEW d \in done',
                          synced + d[1] = synced + seq[v]
                   PROVE  FALSE
        OBVIOUS
      <3>1. v \in Busy /\ v \in Threads /\ w \in Busy
        BY <2>1 DEF Busy
      <3>2. CASE d \in done
        BY <3>1, <3>2 DEF InFlight, DoneHas
      <3>3. CASE d = <<seq[w], twi[w]>>
        <4>1. seq[v] = seq[w]
          BY <3>1, <3>3, <1>0
        <4> QED
          BY <3>1, <4>1 DEF InFlight
      <3> QED
        BY <2>1, <3>2, <3>3
    <2>4. \A n \in Nat : DoneHas(n) \/ BusyHas(n) =>
             \/ \E d \in done' : synced + d[1] = n
             \/ \E v \in others : synced + seq[v] = n
      <3> SUFFICES ASSUME NEW n \in Nat, DoneHas(n) \/ BusyHas(n),
                          ~ \E v \in others : synced + seq[v] = n
                   PROVE  \E d \in done' : synced + d[1] = n
        OBVIOUS
      <3>1. CASE DoneHas(n)
        BY <2>1, <3>1 DEF DoneHas
      <3>2. CASE BusyHas(n)
        <4>1. synced + seq[w] = n
          BY <3>2 DEF BusyHas
        <4>2. <<seq[w], twi[w]>> \in done' /\ <<seq[w], twi[w]>>[1] = seq[w]
          BY <2>1
        <4> QED
          BY <4>1, <4>2
      <3> QED
        BY <3>1, <3>2
    <2> QED
      BY <2>2, <2>3, <2>4
  <1> QED
    BY <1>1, <1>2

(* Emptying w's hands keeps the order invariant; if w then takes the head   *)
(* of the backlog, that item gets the next number and the numbered part     *)
(* grows by it.                                                             *)
LEMMA WorkerOrder ==
  ASSUME TypeOK, ThreadStates, OrderInv, NEW w \in Threads, WorkerThreadProc(w)
  PROVE  OrderInv'
  <1> DEFINE others == Busy \ {w}
  <1> USE DEF mainVars, histVars
  <1>1. /\ pc[w] = "lock" /\ HandOver(w)
        /\ UNCHANGED <<finalizedCounter, main, syncItem, oid, queued,
                       destroyed, synced>>
    BY DEF WorkerThreadProc
  <1>2. /\ main \notin {"discard", "freed", "sync"} /\ w \in Workers
    BY <1>1 DEF ThreadStates, Workers
  <1>3. /\ \A d \in done' : /\ Fetched < synced + d[1]
                            /\ synced + d[1] <= Numbered
                            /\ d[2] = queued[synced + d[1]]
        /\ \A v \in others : ~ \E d \in done' : synced + d[1] = synced + seq[v]
        /\ \A n \in Nat : DoneHas(n) \/ BusyHas(n) =>
              \/ \E d \in done' : synced + d[1] = n
              \/ \E v \in others : synced + seq[v] = n
    BY <1>1, HandOverOrder DEF OrderInv
  <1>4. Fetched' = Fetched
    BY <1>1 DEF Fetched
  <1>5. \A n \in Fetched + 1 .. Numbered :
              \/ \E d \in done' : synced + d[1] = n
              \/ \E v \in others : synced + seq[v] = n
    BY <1>2, <1>3, Lengths DEF OrderInv, InFlight
  <1>6. CASE ExitLoop(w) \/ WaitForWork(w)
    <2>1. /\ twi' = [twi EXCEPT ![w] = None]
          /\ UNCHANGED <<backlog, doneCounter, seq>>
      BY <1>6 DEF ExitLoop, WaitForWork
    <2>2. Busy' = others /\ Numbered' = Numbered
      BY <1>1, <2>1 DEF Busy, Numbered, TypeOK
    <2>3. Workers' = Workers
      BY <1>1, <1>6 DEF ExitLoop, WaitForWork, Workers, TypeOK
    <2>4. Positions'
      BY <1>1, <1>4, <2>1, <2>2 DEF OrderInv, Positions, DestroyedInQueueOrder
    <2>5. Counters'
      BY <1>1, <1>2, <1>4, <2>1, <2>2, <2>3 DEF OrderInv, Counters
    <2>6. InFlight'
      <3>1. \A v \in others : twi'[v] = twi[v] /\ v \in Busy
        BY <2>1 DEF Busy, TypeOK
      <3> QED
        BY <1>1, <1>3, <1>4, <1>5, <2>1, <2>2, <3>1
           DEF OrderInv, InFlight, DoneHas, BusyHas
    <2> QED
      BY <2>4, <2>5, <2>6 DEF OrderInv
  <1>7. CASE TakeItem(w)
    <2>1. /\ backlog # <<>> /\ doneCounter' = doneCounter + 1
          /\ seq' = [seq EXCEPT ![w] = doneCounter + 1]
          /\ twi' = [twi EXCEPT ![w] = Head(backlog)]
          /\ backlog' = Tail(backlog)
          /\ pc' = [pc EXCEPT ![w] = "work"]
      BY <1>7 DEF TakeItem
    <2>2. /\ Len(backlog') = Len(backlog) - 1 /\ Len(backlog) >= 1
          /\ Head(backlog) = backlog[1] /\ Head(backlog) \in Items
          /\ \A k \in 1 .. Len(backlog') : backlog'[k] = backlog[k + 1]
      BY <2>1, HeadTailProperties, EmptySeq DEF TypeOK
    <2>3. Numbered' = Numbered + 1
      BY <1>1, <2>2, Lengths DEF Numbered
    <2>4. Numbered = synced + doneCounter
      BY <1>2 DEF OrderInv, Counters
    <2>5. Busy' = others \cup {w} /\ Workers' = Workers
      BY <1>1, <2>1, <2>2, NoneAssumption DEF Busy, Workers, TypeOK
    <2>6. twi'[w] = queued[synced + doneCounter + 1]
      BY <2>1, <2>2, <2>4, Lengths DEF OrderInv, Positions, TypeOK
    <2>7. seq'[w] = doneCounter + 1
      BY <2>1 DEF TypeOK
    <2>8. \A v \in others : twi'[v] = twi[v] /\ seq'[v] = seq[v] /\ v \in Busy
      BY <2>1 DEF Busy, TypeOK
    <2>9. Positions'
      <3>1. \A k \in 1 .. Len(backlog') : backlog'[k] = queued'[Numbered' + k]
        BY <1>1, <2>2, <2>3, Lengths DEF OrderInv, Positions
      <3>2. Fetched' <= Numbered'
        BY <1>4, <2>3, Lengths DEF OrderInv, Positions
      <3> QED
        BY <1>1, <3>1, <3>2 DEF OrderInv, Positions, DestroyedInQueueOrder
    <2>10. Counters'
      BY <1>1, <1>2, <1>4, <2>1, <2>3, <2>4, <2>5 DEF OrderInv, Counters, TypeOK
    <2>11. InFlight'
      <3>0. /\ synced \in Nat /\ doneCounter \in Nat /\ Fetched \in Nat
            /\ \A v \in Threads : seq[v] \in Nat
            /\ \A v \in Threads : seq'[v] \in Nat
            /\ \A d \in done' : d[1] \in Nat
            /\ Fetched <= Numbered
        BY <1>1, <2>1, Lengths DEF TypeOK, HandOver, OrderInv, Positions
      <3>1. \A d \in done' : /\ Fetched' < synced' + d[1]
                             /\ synced' + d[1] <= Numbered'
                             /\ d[2] = queued'[synced' + d[1]]
        BY <1>1, <1>3, <1>4, <2>3, <2>4, <3>0
      <3>2. \A v \in others : /\ Fetched' < synced' + seq'[v]
                              /\ synced' + seq'[v] <= Numbered
                              /\ twi'[v] = queued'[synced' + seq'[v]]
                              /\ ~ DoneHas(synced + seq[v])'
        BY <1>1, <1>3, <1>4, <2>8 DEF OrderInv, InFlight, DoneHas
      <3>3. \A v \in others : seq'[v] # seq'[w]
        <4> SUFFICES ASSUME NEW v \in others PROVE seq'[v] # seq'[w]
          OBVIOUS
        <4>1. synced + seq[v] <= synced + doneCounter /\ seq[v] \in Nat
          BY <1>1, <2>4, <2>8, <3>0, <3>2 DEF Busy
        <4> QED
          BY <2>7, <2>8, <3>0, <4>1
      <3>4. /\ Fetched' < synced' + seq'[w]
            /\ synced' + seq'[w] <= Numbered'
            /\ twi'[w] = queued'[synced' + seq'[w]]
        BY <1>1, <1>4, <2>3, <2>4, <2>6, <2>7, <3>0
      <3>5. ~ \E d \in done' : synced' + d[1] = synced' + seq'[w]
        BY <1>1, <1>3, <2>4, <2>7, <3>0
      <3>6. \A v, u \in Busy' : seq'[v] = seq'[u] => v = u
        BY <2>5, <2>8, <3>3 DEF OrderInv, InFlight
      <3>7. \A n \in Fetched' + 1 .. Numbered' :
                \/ \E d \in done' : synced' + d[1] = n
                \/ \E v \in Busy' : synced' + seq'[v] = n
        <4> SUFFICES ASSUME NEW n \in Fetched' + 1 .. Numbered'
                     PROVE  \/ \E d \in done' : synced' + d[1] = n
                            \/ \E v \in Busy' : synced' + seq'[v] = n
          OBVIOUS
        <4>1. CASE n = Numbered + 1
          BY <1>1, <2>4, <2>5, <2>7, <3>0, <4>1
        <4>2. CASE n # Numbered + 1
          <5>1. n \in Fetched + 1 .. Numbered
            BY <1>4, <2>3, <2>4, <3>0, <4>2
          <5> QED
            BY <1>1, <1>5, <2>5, <2>8, <5>1
        <4> QED
          BY <4>1, <4>2
      <3>8. \A v \in Busy' : /\ Fetched' < synced' + seq'[v]
                             /\ synced' + seq'[v] <= Numbered'
                             /\ twi'[v] = queued'[synced' + seq'[v]]
                             /\ ~ \E d \in done' : synced' + d[1] = synced' + seq'[v]
        BY <1>1, <2>3, <2>4, <2>5, <2>8, <3>0, <3>2, <3>4, <3>5
           DEF DoneHas, Busy
      <3> QED
        BY <3>1, <3>6, <3>7, <3>8 DEF InFlight, DoneHas, BusyHas
    <2> QED
      BY <2>9, <2>10, <2>11 DEF OrderInv
  <1> QED
    BY <1>6, <1>7 DEF WorkerThreadProc

(* What FetchOrderedDoneItems moves: the positions right after the fetched  *)
(* part, up to the first one that is still in a worker's hands.             *)
LEMMA FetchOrder ==
  ASSUME TypeOK, OrderInv, FetchOrderedDoneItems,
         main \in {"idle", "queue", "finalize"}
  PROVE  /\ Len(oid') \in Nat
         /\ Len(destroyed) + Len(oid') = synced + finalizedCounter'
         /\ Len(destroyed) + Len(oid') <= Numbered
         /\ \A k \in 1 .. Len(oid') : oid'[k] = queued[Len(destroyed) + k]
         /\ \A d \in done' : d \in done /\ Len(destroyed) + Len(oid') < synced + d[1]
         /\ \A d \in done : Len(destroyed) + Len(oid') < synced + d[1] => d \in done'
         /\ \A w \in Busy : Len(destroyed) + Len(oid') < synced + seq[w]
         /\ Fetched <= Len(destroyed) + Len(oid')
  <1>1. PICK last \in finalizedCounter .. doneCounter :
            /\ \A k \in finalizedCounter + 1 .. last : \E d \in done : d[1] = k
            /\ finalizedCounter' = last
            /\ done' = {d \in done : d[1] > last}
            /\ oid' \in [1 .. last - finalizedCounter -> Items]
            /\ \A k \in DOMAIN oid' : <<finalizedCounter + k, oid'[k]>> \in done
    BY DEF FetchOrderedDoneItems
  <1>2. /\ synced \in Nat /\ finalizedCounter \in Nat /\ last \in Nat
        /\ doneCounter \in Nat /\ last - finalizedCounter \in Nat
        /\ Len(destroyed) \in Nat
        /\ \A d \in done : d[1] \in Nat
        /\ \A w \in Busy : seq[w] \in Nat
    BY <1>1, Lengths DEF TypeOK, Busy
  <1>3. /\ oid' \in Seq(Items) /\ Len(oid') = last - finalizedCounter
        /\ DOMAIN oid' = 1 .. Len(oid')
    BY <1>1, <1>2, SeqDef
  <1>4. /\ Fetched = synced + finalizedCounter /\ Fetched = Len(destroyed)
        /\ Numbered = synced + doneCounter
    BY <1>2 DEF OrderInv, Counters, Fetched
  <1>5. Len(destroyed) + Len(oid') = synced + last
    BY <1>2, <1>3, <1>4
  <1>6. \A k \in 1 .. Len(oid') : oid'[k] = queued[Len(destroyed) + k]
    <2> SUFFICES ASSUME NEW k \in 1 .. Len(oid')
                 PROVE  oid'[k] = queued[Len(destroyed) + k]
      OBVIOUS
    <2> DEFINE d == <<finalizedCounter + k, oid'[k]>>
    <2>1. d \in done
      BY <1>1, <1>3
    <2>2. d[2] = queued[synced + d[1]]
      BY <2>1 DEF OrderInv, InFlight
    <2>3. synced + d[1] = Len(destroyed) + k
      BY <1>2, <1>4
    <2> QED
      BY <2>2, <2>3
  <1>7. \A w \in Busy : synced + last < synced + seq[w]
    <2> SUFFICES ASSUME NEW w \in Busy, seq[w] <= last
                 PROVE  FALSE
      BY <1>2
    <2>1. finalizedCounter < seq[w]
      BY <1>2, <1>4 DEF OrderInv, InFlight
    <2>2. PICK d \in done : d[1] = seq[w]
      BY <1>1, <1>2, <2>1
    <2> QED
      BY <2>2 DEF OrderInv, InFlight, DoneHas
  <1>8. \A d \in done' : d \in done /\ synced + last < synced + d[1]
    BY <1>1, <1>2
  <1>9. \A d \in done : synced + last < synced + d[1] => d \in done'
    BY <1>1, <1>2
  <1>10. /\ Len(oid') \in Nat /\ synced + last <= Numbered
         /\ Fetched <= synced + last
    BY <1>1, <1>2, <1>3, <1>4
  <1> QED
    BY <1>1, <1>5, <1>6, <1>7, <1>8, <1>9, <1>10

(* The calls that fetch while nothing else moves.                           *)
LEMMA FetchStep ==
  ASSUME TypeOK, OrderInv, FetchOrderedDoneItems,
         main \in {"queue", "finalize"}, main' = "destroy",
         UNCHANGED <<backlog, doneCounter, pc, twi, seq, queued, destroyed,
                     synced, syncItem>>
  PROVE  OrderInv'
  <1> DEFINE F == Len(destroyed) + Len(oid')
  <1>1. /\ Len(oid') \in Nat
        /\ F = synced + finalizedCounter'
        /\ F <= Numbered
        /\ \A k \in 1 .. Len(oid') : oid'[k] = queued[Len(destroyed) + k]
        /\ \A d \in done' : d \in done /\ F < synced + d[1]
        /\ \A d \in done : F < synced + d[1] => d \in done'
        /\ \A w \in Busy : F < synced + seq[w]
        /\ Fetched <= F
    BY FetchOrder
  <1>2. /\ Busy' = Busy /\ Workers' = Workers /\ Numbered' = Numbered
        /\ Fetched' = F
    BY DEF Busy, Workers, Numbered, Fetched
  <1>3. Positions'
    BY <1>1, <1>2 DEF OrderInv, Positions, DestroyedInQueueOrder
  <1>4. Counters'
    BY <1>1, <1>2 DEF OrderInv, Counters
  <1>5. InFlight'
    <2>1. \A n \in F + 1 .. Numbered : DoneHas(n)' \/ BusyHas(n)'
      <3> SUFFICES ASSUME NEW n \in F + 1 .. Numbered, ~ BusyHas(n)
                   PROVE  DoneHas(n)'
        BY <1>2 DEF BusyHas
      <3>1. F \in Nat /\ Fetched \in Nat /\ Numbered \in Int
        BY <1>1, Lengths
      <3>2. n \in Fetched + 1 .. Numbered /\ F < n
        BY <1>1, <3>1
      <3>3. PICK d \in done : synced + d[1] = n
        BY <3>2 DEF OrderInv, InFlight, DoneHas
      <3>4. d \in done'
        BY <1>1, <3>2, <3>3
      <3> QED
        BY <3>3, <3>4 DEF DoneHas
    <2>2. \A w \in Busy : ~ DoneHas(synced + seq[w])'
      BY <1>1 DEF OrderInv, InFlight, DoneHas
    <2> QED
      BY <1>1, <1>2, <2>1, <2>2 DEF OrderInv, InFlight
  <1> QED
    BY <1>3, <1>4, <1>5 DEF OrderInv

(* Queue() with a worker: the new position is the last one of the backlog.  *)
LEMMA EnqueueOrder ==
  ASSUME TypeOK, ThreadStates, OrderInv, NEW i \in Items, NEW lim \in BacklogLimits,
         Queue(i, lim), EnqueueItem(i, lim), Workers' # {}
  PROVE  OrderInv'
  <1>1. /\ main = "idle" /\ i \notin InSeq(queued)
        /\ queued' = Append(queued, i) /\ backlog' = Append(backlog, i)
        /\ UNCHANGED <<doneCounter, twi, seq, destroyed, synced, syncItem>>
    BY DEF Queue, EnqueueItem
  <1>2. /\ Len(backlog) \in Nat /\ Len(queued) \in Nat
        /\ Len(queued') = Len(queued) + 1 /\ Len(backlog') = Len(backlog) + 1
        /\ \A k \in 1 .. Len(queued) : queued'[k] = queued[k]
        /\ \A k \in 1 .. Len(backlog) : backlog'[k] = backlog[k]
        /\ queued'[Len(queued) + 1] = i /\ backlog'[Len(backlog) + 1] = i
    BY <1>1, Lengths DEF TypeOK
  <1>3. Numbered' = Numbered /\ Busy' = Busy /\ Numbered <= Len(queued)
    BY <1>1, <1>2 DEF Numbered, Busy
  <1>4. oid = <<>> /\ Fetched = Len(destroyed) /\ Fetched = synced + finalizedCounter
        /\ Numbered = synced + doneCounter
    BY <1>1, Lengths DEF OrderInv, Counters, Fetched
  <1> DEFINE F == Len(destroyed) + Len(oid')
  <1>5. /\ Len(oid') \in Nat
        /\ F = synced + finalizedCounter'
        /\ F <= Numbered
        /\ \A k \in 1 .. Len(oid') : oid'[k] = queued[Len(destroyed) + k]
        /\ \A d \in done' : d \in done /\ F < synced + d[1]
        /\ \A d \in done : F < synced + d[1] => d \in done'
        /\ \A w \in Busy : F < synced + seq[w]
        /\ Fetched <= F
        /\ \/ main' = "queue" /\ oid' = <<>>
           \/ main' = "destroy"
    <2>1. CASE FetchOrderedDoneItems /\ main' = "destroy"
      BY <1>1, <2>1, FetchOrder
    <2>2. CASE UNCHANGED <<done, finalizedCounter, oid>> /\ main' = "queue"
      BY <1>1, <1>4, <2>2, Lengths DEF OrderInv, Positions, InFlight
    <2> QED
      BY <2>1, <2>2 DEF EnqueueItem
  <1>6. Fetched' = F /\ Len(destroyed) \in Nat /\ synced \in Nat
    BY <1>1, Lengths DEF Fetched, TypeOK
  <1>10. /\ F \in Nat /\ Numbered \in Nat
         /\ \A n \in Nat : F < n /\ n <= Numbered => n \in 1 .. Len(queued)
    <2>1. F \in Nat /\ Numbered \in Nat
      BY <1>2, <1>4, <1>5, <1>6, Lengths DEF Numbered, TypeOK
    <2> HIDE DEF F
    <2> QED
      BY <1>2, <1>3, <2>1
  <1>7. Positions'
    <2>1. \A k \in 1 .. Len(backlog') : backlog'[k] = queued'[Numbered' + k]
      <3> SUFFICES ASSUME NEW k \in 1 .. Len(backlog')
                   PROVE  backlog'[k] = queued'[Numbered + k]
        BY <1>3
      <3>1. CASE k = Len(backlog) + 1
        BY <1>2, <3>1 DEF Numbered
      <3>2. CASE k \in 1 .. Len(backlog)
        <4>1. backlog[k] = queued[Numbered + k]
          BY <3>2 DEF OrderInv, Positions
        <4>2. Numbered + k \in 1 .. Len(queued)
          BY <1>2, <1>4, <3>2 DEF Numbered, TypeOK
        <4> QED
          BY <1>2, <3>2, <4>1, <4>2
      <3> QED
        BY <1>2, <3>1, <3>2
    <2>2. \A k \in 1 .. Len(oid') : oid'[k] = queued'[Len(destroyed') + k]
      <3> SUFFICES ASSUME NEW k \in 1 .. Len(oid')
                   PROVE  oid'[k] = queued'[Len(destroyed) + k]
        BY <1>1
      <3>1. Len(destroyed) + k \in 1 .. Len(queued)
        BY <1>2, <1>3, <1>4, <1>5, <1>6 DEF TypeOK
      <3> QED
        BY <1>2, <1>5, <3>1
    <2>3. \A j, k \in 1 .. Len(queued') : queued'[j] = queued'[k] => j = k
      <3>1. \A k \in 1 .. Len(queued) : queued[k] # i
        BY <1>1, LenProperties DEF InSeq, TypeOK
      <3> QED
        BY <1>2, <3>1 DEF OrderInv, Positions
    <2>4. DestroyedInQueueOrder'
      BY <1>1, <1>2, <1>6 DEF OrderInv, Positions, DestroyedInQueueOrder
    <2> QED
      BY <1>3, <1>5, <1>6, <2>1, <2>2, <2>3, <2>4 DEF Positions
  <1>8. Counters'
    BY <1>1, <1>3, <1>4, <1>5, <1>6 DEF Counters
  <1>9. InFlight'
    <2>1. \A d \in done' : /\ F < synced + d[1]
                           /\ synced + d[1] <= Numbered
                           /\ d[2] = queued'[synced + d[1]]
      <3> SUFFICES ASSUME NEW d \in done'
                   PROVE  /\ F < synced + d[1]
                          /\ synced + d[1] <= Numbered
                          /\ d[2] = queued'[synced + d[1]]
        OBVIOUS
      <3>1. d \in done /\ F < synced + d[1] /\ d[1] \in Nat
        BY <1>5 DEF TypeOK
      <3>2. synced + d[1] <= Numbered /\ d[2] = queued[synced + d[1]]
        BY <3>1 DEF OrderInv, InFlight
      <3>3. synced + d[1] \in 1 .. Len(queued)
        BY <1>6, <1>10, <3>1, <3>2
      <3> QED
        BY <1>2, <3>1, <3>2, <3>3
    <2>2. \A w \in Busy : twi[w] = queued'[synced + seq[w]]
      <3> SUFFICES ASSUME NEW w \in Busy
                   PROVE  twi[w] = queued'[synced + seq[w]]
        OBVIOUS
      <3>1. F < synced + seq[w] /\ seq[w] \in Nat
        BY <1>5 DEF TypeOK, Busy
      <3>2. synced + seq[w] <= Numbered /\ twi[w] = queued[synced + seq[w]]
        BY DEF OrderInv, InFlight
      <3>3. synced + seq[w] \in 1 .. Len(queued)
        BY <1>6, <1>10, <3>1, <3>2
      <3>4. queued'[synced + seq[w]] = queued[synced + seq[w]]
        BY <1>2, <3>3
      <3> QED
        BY <3>2, <3>4
    <2>3. \A w \in Busy : ~ DoneHas(synced + seq[w])'
      BY <1>1, <1>5 DEF OrderInv, InFlight, DoneHas
    <2>4. \A n \in F + 1 .. Numbered : DoneHas(n)' \/ BusyHas(n)'
      <3> SUFFICES ASSUME NEW n \in F + 1 .. Numbered, ~ BusyHas(n)
                   PROVE  DoneHas(n)'
        BY <1>1, <1>3 DEF BusyHas
      <3>1. n \in Fetched + 1 .. Numbered /\ F < n
        BY <1>4, <1>5, <1>6
      <3>2. PICK d \in done : synced + d[1] = n
        BY <1>1, <3>1 DEF OrderInv, InFlight, DoneHas
      <3>3. d \in done'
        BY <1>5, <3>1, <3>2
      <3> QED
        BY <1>1, <3>2, <3>3 DEF DoneHas
    <2> QED
      BY <1>1, <1>3, <1>5, <1>6, <2>1, <2>2, <2>3, <2>4 DEF OrderInv, InFlight
  <1> QED
    BY <1>7, <1>8, <1>9 DEF OrderInv

(* Queue() without one: nothing is in flight, and the producer's item is    *)
(* the only one that is not deleted yet.                                    *)
LEMMA KeepOrder ==
  ASSUME TypeOK, ThreadStates, OrderInv, NEW i \in Items, NEW lim \in BacklogLimits,
         Queue(i, lim), KeepItem(i), Workers = {}, Workers' = {}
  PROVE  OrderInv'
  <1>1. /\ main = "idle" /\ main' = "sync" /\ i \notin InSeq(queued)
        /\ queued' = Append(queued, i) /\ syncItem' = i
        /\ synced' = synced + 1
        /\ UNCHANGED <<backlog, doneCounter, twi, seq, destroyed>>
    BY DEF Queue, KeepItem
  <1>2. /\ Len(queued) \in Nat /\ Len(destroyed) \in Nat
        /\ Len(queued') = Len(queued) + 1
        /\ \A k \in 1 .. Len(queued) : queued'[k] = queued[k]
        /\ queued'[Len(queued) + 1] = i
    BY <1>1, Lengths DEF TypeOK
  <1>3. doneCounter = 0 /\ backlog = <<>> /\ oid = <<>>
    BY <1>1 DEF OrderInv, Counters
  <1>4. Numbered = Len(queued) /\ Numbered = synced /\ Fetched = Len(destroyed)
    BY <1>1, <1>2, <1>3 DEF OrderInv, Counters, Numbered, Fetched, TypeOK
  <1>5. Fetched = synced + finalizedCounter /\ Fetched <= Numbered
    BY <1>1 DEF OrderInv, Counters, Positions
  <1>6. finalizedCounter = 0 /\ Len(destroyed) = Len(queued)
    BY <1>4, <1>5 DEF TypeOK
  <1>7. Busy = {} /\ Busy' = {}
    BY <1>1 DEF Busy, Workers, ThreadStates, TypeOK
  <1>8. done = {}
    <2> SUFFICES ASSUME NEW d \in done PROVE FALSE
      OBVIOUS
    <2>1. Fetched < synced + d[1] /\ synced + d[1] <= Numbered
      BY DEF OrderInv, InFlight
    <2>2. d[1] \in Nat /\ synced \in Nat /\ Fetched = Numbered
      BY <1>4, <1>6 DEF TypeOK
    <2> QED
      BY <2>1, <2>2, Lengths
  <1>9. Len(oid') = 0 /\ done' = {} /\ finalizedCounter' = 0
    <2>1. /\ Len(destroyed) + Len(oid') = synced + finalizedCounter'
          /\ Len(oid') \in Nat /\ Len(destroyed) + Len(oid') <= Numbered
          /\ \A d \in done' : d \in done
      BY <1>1, FetchOrder DEF KeepItem
    <2>2. Len(oid') = 0
      <3>1. Numbered = Len(destroyed)
        BY <1>4, <1>6
      <3>2. Len(oid') \in Nat /\ Len(destroyed) + Len(oid') <= Len(destroyed)
        BY <2>1, <3>1
      <3> QED
        BY <1>2, <3>2
    <2>3. done' = {}
      BY <1>8, <2>1
    <2>4. finalizedCounter' = 0
      <3>1. PICK f \in Nat : f = finalizedCounter'
        BY FetchType DEF KeepItem
      <3>2. synced \in Nat /\ Len(destroyed) = synced
        BY <1>4, <1>6 DEF TypeOK
      <3>3. Len(destroyed) + 0 = synced + f
        BY <2>1, <2>2, <3>1, Zenon
      <3>4. f = 0
        BY <3>2, <3>3
      <3> QED
        BY <3>1, <3>4
    <2> QED
      BY <2>2, <2>3, <2>4
  <1>10. oid' = <<>>
    BY <1>9, FetchType, EmptySeq DEF KeepItem
  <1>11. Fetched' = Len(destroyed) /\ Numbered' = Len(queued) + 1
    BY <1>1, <1>2, <1>3, <1>9 DEF Fetched, Numbered
  <1>12. Positions'
    <2>1. \A k \in 1 .. Len(queued) : queued[k] # i
      BY <1>1, LenProperties DEF InSeq, TypeOK
    <2>2. \A j, k \in 1 .. Len(queued') : queued'[j] = queued'[k] => j = k
      BY <1>2, <2>1 DEF OrderInv, Positions
    <2>3. DestroyedInQueueOrder'
      BY <1>1, <1>2, <1>6 DEF OrderInv, Positions, DestroyedInQueueOrder
    <2>4. Fetched' <= Numbered'
      BY <1>2, <1>6, <1>11
    <2>5. /\ \A k \in 1 .. Len(backlog') : backlog'[k] = queued'[Numbered' + k]
          /\ \A k \in 1 .. Len(oid') : oid'[k] = queued'[Len(destroyed') + k]
      BY <1>1, <1>3, <1>9
    <2> QED
      BY <2>2, <2>3, <2>4, <2>5 DEF Positions
  <1>13. Counters'
    BY <1>1, <1>2, <1>3, <1>4, <1>6, <1>9, <1>10, <1>11 DEF Counters, TypeOK
  <1>14. InFlight'
    BY <1>1, <1>7, <1>9 DEF InFlight
  <1> QED
    BY <1>12, <1>13, <1>14 DEF OrderInv

(* Deletions advance along `queued'. *)
LEMMA DeleteFetchedOrder ==
  ASSUME TypeOK, OrderInv, DeleteFetched
  PROVE  OrderInv'
  <1> USE DEF poolVars
  <1>1. /\ main = "destroy" /\ main' = "destroy" /\ oid # <<>>
        /\ destroyed' = Append(destroyed, Head(oid)) /\ oid' = Tail(oid)
        /\ UNCHANGED <<backlog, done, doneCounter, pc, twi, seq, queued, synced,
                       finalizedCounter, syncItem>>
    BY DEF DeleteFetched
  <1>2. /\ Head(oid) = oid[1] /\ Len(oid) \in Nat /\ Len(oid) >= 1
        /\ Len(oid') = Len(oid) - 1
        /\ \A k \in 1 .. Len(oid') : oid'[k] = oid[k + 1]
    BY <1>1, HeadTailProperties, EmptySeq, Lengths DEF TypeOK
  <1>3. /\ Len(destroyed) \in Nat /\ Len(destroyed') = Len(destroyed) + 1
        /\ \A k \in 1 .. Len(destroyed) : destroyed'[k] = destroyed[k]
        /\ destroyed'[Len(destroyed) + 1] = oid[1]
    BY <1>1, <1>2, Lengths DEF TypeOK
  <1>4. /\ Fetched' = Fetched /\ Numbered' = Numbered /\ Busy' = Busy
        /\ Workers' = Workers
    BY <1>1, <1>2, <1>3 DEF Fetched, Numbered, Busy, Workers
  <1>5. oid[1] = queued[Len(destroyed) + 1] /\ Len(destroyed) + 1 <= Len(queued)
    BY <1>2, <1>3, Lengths DEF OrderInv, Positions, Fetched, Numbered
  <1>6. Positions'
    <2>1. \A k \in 1 .. Len(oid') : oid'[k] = queued'[Len(destroyed') + k]
      BY <1>1, <1>2, <1>3 DEF OrderInv, Positions
    <2>2. DestroyedInQueueOrder'
      BY <1>1, <1>3, <1>5 DEF OrderInv, Positions, DestroyedInQueueOrder
    <2> QED
      BY <1>1, <1>4, <2>1, <2>2 DEF OrderInv, Positions
  <1>7. Counters' /\ InFlight'
    BY <1>1, <1>4 DEF OrderInv, Counters, InFlight, DoneHas, BusyHas
  <1> QED
    BY <1>6, <1>7 DEF OrderInv

(* The item Queue() processed itself is the next one in the order.          *)
LEMMA DeleteSyncOrder ==
  ASSUME TypeOK, ThreadStates, OrderInv, DeleteSync
  PROVE  OrderInv'
  <1> USE DEF poolVars
  <1>1. /\ main = "sync" /\ main' = "destroy"
        /\ destroyed' = Append(destroyed, syncItem)
        /\ UNCHANGED <<backlog, done, doneCounter, pc, twi, seq, queued, synced,
                       finalizedCounter, oid>>
    BY DEF DeleteSync
  <1>2. /\ Workers = {} /\ doneCounter = 0 /\ backlog = <<>> /\ oid = <<>>
        /\ syncItem = queued[Len(queued)] /\ syncItem \in Items
        /\ Len(queued) = Len(destroyed) + 1
        /\ Numbered = synced + doneCounter
        /\ finalizedCounter = 0 /\ done = {}
    BY <1>1 DEF OrderInv, Counters, ThreadStates
  <1>3. /\ Len(destroyed) \in Nat /\ Len(destroyed') = Len(destroyed) + 1
        /\ \A k \in 1 .. Len(destroyed) : destroyed'[k] = destroyed[k]
        /\ destroyed'[Len(destroyed) + 1] = syncItem
    BY <1>1, <1>2, Lengths DEF TypeOK
  <1>4. /\ Fetched' = Len(queued) /\ Numbered' = Len(queued)
        /\ Numbered = Len(queued) /\ synced = Len(queued)
    BY <1>1, <1>2, <1>3, Lengths DEF Fetched, Numbered, TypeOK
  <1>5. Busy = {} /\ Busy' = {} /\ Workers' = {}
    BY <1>1, <1>2 DEF Busy, Workers, ThreadStates, TypeOK
  <1>6. Positions'
    <2>1. DestroyedInQueueOrder'
      BY <1>1, <1>2, <1>3 DEF OrderInv, Positions, DestroyedInQueueOrder
    <2>2. Fetched' <= Numbered'
      BY <1>4, Lengths
    <2> QED
      BY <1>1, <1>2, <2>1, <2>2 DEF OrderInv, Positions
  <1>7. Counters'
    BY <1>1, <1>2, <1>4, Lengths DEF Counters
  <1>8. InFlight'
    BY <1>1, <1>2, <1>4, <1>5, Lengths DEF InFlight
  <1> QED
    BY <1>6, <1>7, <1>8 DEF OrderInv

(* The destructor takes _done by ascending key: the lowest key stands right *)
(* after the deleted part, because nobody holds a lower one any more.       *)
LEMMA DiscardDoneOrder ==
  ASSUME TypeOK, ThreadStates, OrderInv, DiscardDone
  PROVE  OrderInv'
  <1> USE DEF mainVars
  <1>1. PICK d \in done : /\ \A e \in done : d[1] <= e[1]
                          /\ destroyed' = Append(destroyed, d[2])
                          /\ done' = done \ {d}
    BY DEF DiscardDone
  <1>2. /\ main = "discard" /\ oid = <<>>
        /\ UNCHANGED <<backlog, doneCounter, pc, twi, seq, queued, synced,
                       finalizedCounter, main, syncItem, oid>>
    BY DEF DiscardDone, OrderInv, Counters
  <1>3. Busy = {} /\ Busy' = {} /\ Workers' = Workers
    BY <1>2 DEF Busy, Workers, ThreadStates
  <1>4. /\ synced \in Nat /\ d[1] \in Nat /\ d[2] \in Items
        /\ \A e \in done : e[1] \in Nat
        /\ Len(destroyed) \in Nat /\ Len(oid) = 0 /\ Fetched = Len(destroyed)
        /\ Len(queued) \in Nat /\ Len(backlog) \in Nat
        /\ Numbered \in Int /\ Numbered <= Len(queued)
    BY <1>2, Lengths DEF TypeOK, Fetched, Numbered
  <1>5. synced + d[1] = Fetched + 1
    <2>1. Fetched < synced + d[1] /\ synced + d[1] <= Numbered
      BY DEF OrderInv, InFlight
    <2>2. Fetched + 1 \in Fetched + 1 .. Numbered
      BY <1>4, <2>1
    <2>3. DoneHas(Fetched + 1)
      BY <1>2, <1>3, <2>2 DEF OrderInv, InFlight, BusyHas
    <2>4. PICK e \in done : synced + e[1] = Fetched + 1
      BY <2>3 DEF DoneHas
    <2> QED
      BY <1>1, <1>4, <2>1, <2>4
  <1>6. d[2] = queued[Len(destroyed) + 1] /\ Len(destroyed) + 1 <= Numbered
    BY <1>4, <1>5 DEF OrderInv, InFlight
  <1>7. /\ Len(destroyed') = Len(destroyed) + 1
        /\ \A k \in 1 .. Len(destroyed) : destroyed'[k] = destroyed[k]
        /\ destroyed'[Len(destroyed) + 1] = d[2]
    BY <1>1, <1>4 DEF TypeOK
  <1>8. Fetched' = Fetched + 1 /\ Numbered' = Numbered
    BY <1>2, <1>4, <1>7 DEF Fetched, Numbered
  <1>9. Positions'
    <2>1. DestroyedInQueueOrder'
      BY <1>2, <1>4, <1>6, <1>7 DEF OrderInv, Positions, DestroyedInQueueOrder
    <2>2. Fetched' <= Numbered'
      BY <1>4, <1>6, <1>8
    <2> QED
      BY <1>2, <1>4, <1>8, <2>1, <2>2 DEF OrderInv, Positions
  <1>10. Counters'
    BY <1>2, <1>3 DEF OrderInv, Counters
  <1>11. \A e \in done' : e \in done /\ e[1] # d[1]
    <2> SUFFICES ASSUME NEW e \in done, e # d, e[1] = d[1]
                 PROVE  FALSE
      BY <1>1
    <2>1. e[2] = d[2]
      BY DEF OrderInv, InFlight
    <2>2. e = <<e[1], e[2]>> /\ d = <<d[1], d[2]>>
      BY DEF TypeOK
    <2> QED
      BY <2>1, <2>2
  <1>12. InFlight'
    <2>1. \A e \in done' : /\ Fetched' < synced + e[1]
                           /\ synced + e[1] <= Numbered
                           /\ e[2] = queued[synced + e[1]]
      BY <1>1, <1>4, <1>5, <1>8, <1>11 DEF OrderInv, InFlight
    <2>2. \A n \in Fetched' + 1 .. Numbered : DoneHas(n)'
      <3> SUFFICES ASSUME NEW n \in Fetched' + 1 .. Numbered
                   PROVE  DoneHas(n)'
        OBVIOUS
      <3>1. n \in Fetched + 1 .. Numbered /\ n # Fetched + 1
        BY <1>4, <1>8
      <3>2. PICK e \in done : synced + e[1] = n
        BY <1>2, <1>3, <3>1 DEF OrderInv, InFlight, DoneHas, BusyHas
      <3>3. e # d
        BY <1>5, <3>1, <3>2
      <3> QED
        BY <1>1, <1>2, <3>2, <3>3 DEF DoneHas
    <2> QED
      BY <1>2, <1>3, <1>8, <2>1, <2>2 DEF InFlight
  <1> QED
    BY <1>9, <1>10, <1>12 DEF OrderInv

(* The destructor deletes _backlog only when _done is empty: its head is    *)
(* then the next item in the order of queueing.                             *)
LEMMA DiscardBacklogOrder ==
  ASSUME TypeOK, ThreadStates, OrderInv, DiscardBacklog
  PROVE  OrderInv'
  <1> USE DEF mainVars
  <1>1. /\ main = "discard" /\ oid = <<>> /\ done = {} /\ backlog # <<>>
        /\ destroyed' = Append(destroyed, Head(backlog))
        /\ backlog' = Tail(backlog)
        /\ UNCHANGED <<done, doneCounter, pc, twi, seq, queued, synced,
                       finalizedCounter, main, syncItem, oid>>
    BY DEF DiscardBacklog, OrderInv, Counters
  <1>2. Busy = {} /\ Busy' = {} /\ Workers' = Workers
    BY <1>1 DEF Busy, Workers, ThreadStates
  <1>3. /\ Head(backlog) = backlog[1] /\ Len(backlog) \in Nat
        /\ Len(backlog) >= 1 /\ Len(backlog') = Len(backlog) - 1
        /\ \A k \in 1 .. Len(backlog') : backlog'[k] = backlog[k + 1]
    BY <1>1, HeadTailProperties, EmptySeq, Lengths DEF TypeOK
  <1>4. /\ Len(destroyed) \in Nat /\ Len(oid) = 0 /\ Fetched = Len(destroyed)
        /\ Len(queued) \in Nat /\ Numbered \in Int
        /\ Numbered' = Numbered + 1 /\ Fetched' = Fetched + 1
    <2>1. Len(destroyed') = Len(destroyed) + 1
      BY <1>1, <1>3, Lengths DEF TypeOK
    <2> QED
      BY <1>1, <1>3, <2>1, Lengths DEF Fetched, Numbered
  <1>5. Fetched = Numbered
    <2>1. ~ (Fetched + 1 \in Fetched + 1 .. Numbered)
      BY <1>1, <1>2 DEF OrderInv, InFlight, DoneHas, BusyHas
    <2>2. Fetched <= Numbered
      BY DEF OrderInv, Positions
    <2> QED
      BY <1>4, <2>1, <2>2
  <1>6. backlog[1] = queued[Len(destroyed) + 1] /\ Len(destroyed) + 1 <= Len(queued)
    BY <1>3, <1>4, <1>5 DEF OrderInv, Positions, Numbered
  <1>7. /\ \A k \in 1 .. Len(destroyed) : destroyed'[k] = destroyed[k]
        /\ destroyed'[Len(destroyed) + 1] = backlog[1]
        /\ Len(destroyed') = Len(destroyed) + 1
    BY <1>1, <1>3, <1>4 DEF TypeOK
  <1>8. Positions'
    <2>1. DestroyedInQueueOrder'
      BY <1>1, <1>4, <1>6, <1>7 DEF OrderInv, Positions, DestroyedInQueueOrder
    <2>2. \A k \in 1 .. Len(backlog') : backlog'[k] = queued'[Numbered' + k]
      BY <1>1, <1>3, <1>4 DEF OrderInv, Positions
    <2> QED
      BY <1>1, <1>4, <1>5, <2>1, <2>2 DEF OrderInv, Positions
  <1>9. Counters'
    BY <1>1, <1>2 DEF OrderInv, Counters
  <1>10. InFlight'
    BY <1>1, <1>2, <1>4, <1>5 DEF InFlight
  <1> QED
    BY <1>8, <1>9, <1>10 DEF OrderInv

(* Every step of the pool keeps the order invariant.                        *)
LEMMA OrderStep ==
  ASSUME TypeOK, ThreadStates, OrderInv, [Next]_vars
  PROVE  OrderInv'
  <1> USE DEF poolVars, mainVars, histVars
  <1>1. CASE \E w \in Threads : WorkerThreadProc(w)
    BY <1>1, WorkerOrder
  <1>2. ASSUME NEW w \in Threads, WorkProc(w)
        PROVE  OrderInv'
    <2>1. Workers' = Workers
      BY <1>2 DEF WorkProc, Workers, TypeOK
    <2> QED
      BY <1>2, <2>1, SameOrder DEF WorkProc
  <1>3. ASSUME NEW i \in Items, NEW lim \in BacklogLimits, Queue(i, lim)
        PROVE  OrderInv'
    <2>1. PICK new \in NewWorkers :
            /\ pc' = [w \in Threads |-> IF w \in new THEN "lock" ELSE pc[w]]
            /\ IF Workers \cup new # {} THEN EnqueueItem(i, lim) ELSE KeepItem(i)
      BY <1>3 DEF Queue
    <2>2. Workers' = Workers \cup new
      BY <2>1 DEF NewWorkers, Workers, TypeOK
    <2>3. CASE Workers \cup new # {}
      BY <1>3, <2>1, <2>2, <2>3, EnqueueOrder
    <2>4. CASE Workers \cup new = {}
      BY <1>3, <2>1, <2>2, <2>4, KeepOrder
    <2> QED
      BY <2>3, <2>4
  <1>4. CASE QueueWoken
    <2>1. CASE FetchOrderedDoneItems /\ main' = "destroy"
      BY <1>4, <2>1, FetchStep DEF QueueWoken
    <2>2. CASE UNCHANGED <<main, done, finalizedCounter, oid>>
      BY <1>4, <2>2, SameOrder DEF QueueWoken, Workers
    <2> QED
      BY <1>4, <2>1, <2>2 DEF QueueWoken
  <1>5. CASE FinalizeLoop
    <2>1. CASE FetchOrderedDoneItems /\ main' = "destroy"
      BY <1>5, <2>1, FetchStep DEF FinalizeLoop
    <2>2. CASE UNCHANGED <<main, done, finalizedCounter, oid>>
      BY <1>5, <2>2, SameOrder DEF FinalizeLoop, Workers
    <2> QED
      BY <1>5, <2>1, <2>2 DEF FinalizeLoop
  <1>6. CASE ProcessSync
    BY <1>6, SameOrder DEF ProcessSync, Workers
  <1>7. CASE DeleteSync
    BY <1>7, DeleteSyncOrder
  <1>8. CASE DeleteFetched
    BY <1>8, DeleteFetchedOrder
  <1>9. CASE Return
    BY <1>9, SameOrder DEF Return, Workers
  <1>10. CASE Join
    BY <1>10, SameOrder DEF Join, Workers
  <1>11. CASE DiscardDone
    BY <1>11, DiscardDoneOrder
  <1>12. CASE DiscardBacklog
    BY <1>12, DiscardBacklogOrder
  <1>13. CASE Free
    <2>1. Busy' = Busy /\ Numbered' = Numbered /\ Fetched' = Fetched /\ Workers' = Workers
      BY <1>13 DEF Free, Busy, Numbered, Fetched, Workers
    <2>2. Positions' /\ InFlight'
      BY <1>13, <2>1 DEF Free, OrderInv, Positions, InFlight, DoneHas, BusyHas,
         DestroyedInQueueOrder
    <2>3. Counters'
      BY <1>13, <2>1 DEF Free, OrderInv, Counters
    <2> QED
      BY <2>2, <2>3 DEF OrderInv
  <1>14. CASE Finalize
    BY <1>14, SameOrder DEF Finalize, Workers
  <1>15. CASE Destroy
    BY <1>15, SameOrder DEF Destroy, Workers
  <1>16. CASE \E t \in Threads \cup {Producer} : SpuriousWakeup(t)
    BY <1>16, SameOrder DEF SpuriousWakeup, Workers
  <1>17. CASE UNCHANGED vars
    BY <1>17, SameOrder DEF vars, Workers
  <1> QED
    BY <1>1, <1>2, <1>3, <1>4, <1>5, <1>6, <1>7, <1>8, <1>9, <1>10, <1>11,
       <1>12, <1>13, <1>14, <1>15, <1>16, <1>17
       DEF Next, WorkerStep, CallStep, Freed

(* The place of every item follows from its position among the queued ones  *)
(* in all reachable states.                                                 *)
LEMMA OrderInvariant == Spec => []OrderInv
  <1>1. WakeInv /\ OrderInv /\ [Next]_vars => OrderInv'
    BY OrderStep DEF WakeInv
  <1> QED
    BY InitOrder, WakeUpsAreNotLost, <1>1, PTL DEF Spec

(* Whatever the number of workers and however they interleave, items are    *)
(* deleted in the order in which Queue() got them.                          *)
THEOREM DeletionFollowsQueueing == Spec => []DestroyedInQueueOrder
  <1>1. OrderInv => DestroyedInQueueOrder
    BY DEF OrderInv, Positions
  <1> QED
    BY OrderInvariant, <1>1, PTL

(* No item is deleted while a worker has it.                                *)
THEOREM NoUseAfterDeletion == Spec => []NoUseAfterDelete
  <1>1. TypeOK /\ OrderInv => NoUseAfterDelete
    <2> SUFFICES ASSUME TypeOK, OrderInv, NEW w \in Threads, twi[w] # None,
                        NEW k \in 1 .. Len(destroyed), twi[w] = destroyed[k]
                 PROVE  FALSE
      BY LenProperties DEF NoUseAfterDelete, InSeq, TypeOK
    <2>1. w \in Busy /\ seq[w] \in Nat /\ synced \in Nat
      BY DEF Busy, TypeOK
    <2>2. /\ Fetched < synced + seq[w] /\ synced + seq[w] <= Numbered
          /\ twi[w] = queued[synced + seq[w]]
      BY <2>1 DEF OrderInv, InFlight
    <2>3. k <= Len(queued) /\ destroyed[k] = queued[k]
      BY DEF OrderInv, Positions, DestroyedInQueueOrder
    <2>4. k <= Fetched /\ Numbered <= Len(queued) /\ Len(queued) \in Nat
          /\ Fetched \in Nat /\ Numbered \in Int
      BY Lengths DEF Fetched, Numbered
    <2>5. synced + seq[w] \in 1 .. Len(queued) /\ k \in 1 .. Len(queued)
          /\ synced + seq[w] # k
      BY <2>1, <2>2, <2>3, <2>4
    <2> QED
      BY <2>2, <2>3, <2>5 DEF OrderInv, Positions
  <1>2. WakeInv => TypeOK
    BY DEF WakeInv
  <1> QED
    BY OrderInvariant, WakeUpsAreNotLost, <1>1, <1>2, PTL

(* When the destructor is through, every item ever queued is deleted.       *)
THEOREM DestructorLeavesNothing == Spec => []NothingLeaked
  <1>1. TypeOK /\ ThreadStates /\ OrderInv => NothingLeaked
    <2> SUFFICES ASSUME TypeOK, ThreadStates, OrderInv, main = "freed"
                 PROVE  Len(destroyed) = Len(queued)
      BY DEF NothingLeaked
    <2>1. Busy = {} /\ done = {} /\ backlog = <<>> /\ oid = <<>>
      BY DEF Busy, ThreadStates, OrderInv, Counters
    <2>2. Fetched = Len(destroyed) /\ Numbered = Len(queued)
      BY <2>1, Lengths DEF Fetched, Numbered
    <2>3. ~ (Fetched + 1 \in Fetched + 1 .. Numbered)
      BY <2>1 DEF OrderInv, InFlight, DoneHas, BusyHas
    <2>4. Fetched <= Numbered
      BY DEF OrderInv, Positions
    <2> QED
      BY <2>2, <2>3, <2>4, Lengths
  <1>2. WakeInv => TypeOK /\ ThreadStates
    BY DEF WakeInv
  <1> QED
    BY OrderInvariant, WakeUpsAreNotLost, <1>1, <1>2, PTL

(* The fields of the pool, the locals of its threads and the histories keep *)
(* their types under every interleaving.                                    *)
THEOREM TypeCorrect == Spec => []TypeOK
  BY WakeUpsAreNotLost, PTL DEF WakeInv

(* No item waits in _backlog while the workers that could take it sleep: the*)
(* mix of notify_one() and notify_all() in Queue() loses no wake-up.        *)
THEOREM BacklogAttended == Spec => []BacklogIsAttended
  BY WakeUpsAreNotLost, PTL DEF WakeInv

(* A producer asleep in Queue() or Finalize() has _notify_on_done set and an*)
(* item on its way that will honour it.                                     *)
THEOREM ProducerNotified == Spec => []ProducerWillBeNotified
  BY WakeUpsAreNotLost, PTL DEF WakeInv

(* _working counts the items in the hands of the workers, hence the         *)
(* ASSERT(_working == 0) of the destructor (line 53) never fails.           *)
THEOREM WorkingExact == Spec => []WorkingIsExact
  BY WakeUpsAreNotLost, PTL DEF WakeInv

-----------------------------------------------------------------------------
(* What is processed when, and the promise of the header. *)

(* Items of a sequence are told by their positions.                         *)
LEMMA InSeqIs ==
  ASSUME NEW s \in Seq(Items)
  PROVE  /\ InSeq(s) \subseteq Items
         /\ \A x : x \in InSeq(s) <=> \E k \in 1 .. Len(s) : x = s[k]
  BY LenProperties, ElementOfSeq DEF InSeq

(* A longer sequence holds one more item, a shorter one at most the same.   *)
LEMMA InAppend ==
  ASSUME NEW s \in Seq(Items), NEW i \in Items
  PROVE  InSeq(Append(s, i)) = InSeq(s) \cup {i}
  <1>1. /\ Append(s, i) \in Seq(Items) /\ Len(Append(s, i)) = Len(s) + 1
        /\ \A k \in 1 .. Len(s) : Append(s, i)[k] = s[k]
        /\ Append(s, i)[Len(s) + 1] = i /\ Len(s) \in Nat
    BY AppendProperties, LenProperties
  <1>2. 1 .. Len(s) + 1 = (1 .. Len(s)) \cup {Len(s) + 1}
    BY <1>1
  <1> DEFINE t == Append(s, i)
  <1>3. \A x : x \in InSeq(s) <=> \E k \in 1 .. Len(s) : x = s[k]
    BY InSeqIs, Zenon
  <1> HIDE DEF t
  <1>4. t \in Seq(Items)
    BY <1>1 DEF t
  <1>5. \A x : x \in InSeq(t) <=> \E k \in 1 .. Len(t) : x = t[k]
    BY <1>4, InSeqIs, Zenon
  <1>6. /\ Len(t) = Len(s) + 1 /\ t[Len(s) + 1] = i
        /\ \A k \in 1 .. Len(s) : t[k] = s[k]
    BY <1>1 DEF t
  <1>7. InSeq(t) = InSeq(s) \cup {i}
    BY <1>2, <1>3, <1>5, <1>6
  <1> QED
    BY <1>7 DEF t

LEMMA InTail ==
  ASSUME NEW s \in Seq(Items), s # <<>>
  PROVE  /\ InSeq(Tail(s)) \subseteq InSeq(s) /\ Head(s) \in InSeq(s)
         /\ Head(s) = s[1] /\ Tail(s) \in Seq(Items)
  <1>1. /\ Tail(s) \in Seq(Items) /\ Len(Tail(s)) = Len(s) - 1
        /\ \A k \in 1 .. Len(s) - 1 : Tail(s)[k] = s[k + 1]
        /\ Head(s) = s[1] /\ Len(s) \in Nat /\ Len(s) # 0
    BY HeadTailProperties, EmptySeq, LenProperties
  <1>2. 1 \in 1 .. Len(s) /\ \A k \in 1 .. Len(s) - 1 : k + 1 \in 1 .. Len(s)
    BY <1>1
  <1> DEFINE t == Tail(s)
  <1>3. \A x : x \in InSeq(s) <=> \E k \in 1 .. Len(s) : x = s[k]
    BY InSeqIs, Zenon
  <1> HIDE DEF t
  <1>4. t \in Seq(Items)
    BY <1>1 DEF t
  <1>5. \A x : x \in InSeq(t) <=> \E k \in 1 .. Len(t) : x = t[k]
    BY <1>4, InSeqIs, Zenon
  <1>6. Len(t) = Len(s) - 1 /\ \A k \in 1 .. Len(s) - 1 : t[k] = s[k + 1]
    BY <1>1 DEF t
  <1>7. InSeq(t) \subseteq InSeq(s)
    BY <1>2, <1>3, <1>5, <1>6
  <1>8. Head(s) \in InSeq(s)
    BY <1>1, <1>2, <1>3
  <1> QED
    BY <1>1, <1>7, <1>8 DEF t

(* Two places of the pool never hold the same item: they stand for          *)
(* different positions of `queued`.                                         *)
LEMMA HeldOnce ==
  ASSUME TypeOK, OrderInv, NEW w \in Threads, twi[w] # None
  PROVE  /\ twi[w] \in InSeq(queued)
         /\ \A v \in Threads : twi[v] = twi[w] => v = w
         /\ twi[w] \notin InSeq(backlog)
         /\ twi[w] \notin InSeq(destroyed)
  <1> DEFINE n == synced + seq[w]
  <1>0. /\ Len(backlog) \in Nat /\ Len(queued) \in Nat /\ Len(destroyed) \in Nat
        /\ Len(oid) \in Nat /\ synced \in Nat /\ \A v \in Threads : seq[v] \in Nat
        /\ Numbered = Len(queued) - Len(backlog)
        /\ Fetched = Len(destroyed) + Len(oid)
    BY Lengths DEF TypeOK, Numbered, Fetched
  <1>1. /\ Fetched < n /\ n <= Numbered /\ twi[w] = queued[n]
        /\ \A v \in Busy : seq[v] = seq[w] => v = w
    BY DEF OrderInv, InFlight, Busy
  <1>2. n \in 1 .. Len(queued)
    BY <1>0, <1>1
  <1>3. ASSUME NEW v \in Threads, twi[v] = twi[w] PROVE v = w
    <2>1. /\ Fetched < synced + seq[v] /\ synced + seq[v] <= Numbered
          /\ twi[v] = queued[synced + seq[v]] /\ v \in Busy
      BY <1>3 DEF OrderInv, InFlight, Busy
    <2>2. synced + seq[v] \in 1 .. Len(queued)
      BY <1>0, <2>1
    <2>3. synced + seq[v] = n
      BY <1>1, <1>2, <1>3, <2>1, <2>2 DEF OrderInv, Positions
    <2> QED
      BY <1>0, <1>1, <2>1, <2>3
  <1>4. ASSUME NEW k \in 1 .. Len(backlog) PROVE backlog[k] # twi[w]
    <2>1. Numbered + k \in 1 .. Len(queued) /\ Numbered + k # n
      BY <1>0, <1>1, <1>2
    <2>2. backlog[k] = queued[Numbered + k]
      BY DEF OrderInv, Positions
    <2> QED
      BY <1>1, <1>2, <2>1, <2>2 DEF OrderInv, Positions
  <1>5. ASSUME NEW k \in 1 .. Len(destroyed) PROVE destroyed[k] # twi[w]
    <2>1. k <= Len(queued) /\ destroyed[k] = queued[k]
      BY DEF OrderInv, Positions, DestroyedInQueueOrder
    <2>2. k \in 1 .. Len(queued) /\ k # n
      BY <1>0, <1>1, <1>2, <2>1
    <2> QED
      BY <1>1, <1>2, <2>1, <2>2 DEF OrderInv, Positions
  <1>6. backlog \in Seq(Items) /\ queued \in Seq(Items) /\ destroyed \in Seq(Items)
    BY DEF TypeOK
  <1> HIDE DEF n
  <1>7. twi[w] \in InSeq(queued)
    BY <1>1, <1>2, <1>6, InSeqIs
  <1>8. twi[w] \notin InSeq(backlog)
    BY <1>4, <1>6, InSeqIs
  <1>9. twi[w] \notin InSeq(destroyed)
    BY <1>5, <1>6, InSeqIs
  <1> QED
    BY <1>3, <1>7, <1>8, <1>9

(* A step that moves no item keeps the invariant of the processed ones.     *)
LEMMA SameProcessed ==
  ASSUME ProcessedInv, done' \subseteq done,
         UNCHANGED <<backlog, twi, pc, queued, processed, destroyed, oid>>,
         main \in {"discard", "freed"} => main' \in {"discard", "freed"}
  PROVE  ProcessedInv'
  BY DEF ProcessedInv

(* FetchOrderedDoneItems takes what it gives to oid from _done.             *)
LEMMA FetchProcessed ==
  ASSUME TypeOK, ProcessedInv, FetchOrderedDoneItems
  PROVE  done' \subseteq done /\ InSeq(oid') \subseteq processed
  <1>1. PICK last \in finalizedCounter .. doneCounter :
            /\ done' = {d \in done : d[1] > last}
            /\ \A k \in DOMAIN oid' : <<finalizedCounter + k, oid'[k]>> \in done
    BY DEF FetchOrderedDoneItems
  <1>2. ASSUME NEW k \in DOMAIN oid' PROVE oid'[k] \in processed
    <2> DEFINE d == <<finalizedCounter + k, oid'[k]>>
    <2>1. d \in done /\ d[2] = oid'[k]
      BY <1>1
    <2>2. d[2] \in processed
      BY <2>1 DEF ProcessedInv
    <2> QED
      BY <2>1, <2>2
  <1> QED
    BY <1>1, <1>2 DEF InSeq

(* What a worker hands over was processed, what it takes was not.           *)
LEMMA WorkerProcessed ==
  ASSUME TypeOK, ThreadStates, OrderInv, ProcessedInv,
         NEW w \in Threads, WorkerThreadProc(w)
  PROVE  ProcessedInv'
  <1> USE DEF mainVars, histVars
  <1>1. pc[w] = "lock" /\ HandOver(w) /\ UNCHANGED <<main, oid, queued, processed, destroyed>>
    BY DEF WorkerThreadProc
  <1>2. \A d \in done' : d[2] \in processed'
    <2>1. CASE twi[w] = None
      BY <1>1, <2>1 DEF HandOver, ProcessedInv
    <2>2. CASE twi[w] # None
      <3>1. done' = done \cup {<<seq[w], twi[w]>>} /\ twi[w] \in processed
        BY <1>1, <2>2 DEF HandOver, ProcessedInv
      <3> QED
        BY <1>1, <3>1 DEF ProcessedInv
    <2> QED
      BY <2>1, <2>2
  <1>3. ASSUME twi' = [twi EXCEPT ![w] = None], backlog' = backlog,
               pc' = pc \/ pc' = [pc EXCEPT ![w] = "exit"]
        PROVE  ProcessedInv'
    <2>1. /\ \A v \in Threads \ {w} : twi'[v] = twi[v] /\ pc'[v] = pc[v]
          /\ twi'[w] = None /\ pc'[w] # "work"
      BY <1>1, <1>3 DEF TypeOK
    <2>2. \A v \in Threads :
              /\ pc'[v] = "lock" /\ twi'[v] # None => twi'[v] \in processed'
              /\ pc'[v] = "work" => twi'[v] \notin processed'
      BY <1>1, <2>1 DEF ProcessedInv
    <2> QED
      BY <1>1, <1>2, <1>3, <2>2 DEF ProcessedInv
  <1>4. CASE TakeItem(w)
    <2>1. /\ backlog # <<>> /\ backlog \in Seq(Items) /\ backlog' = Tail(backlog)
          /\ twi' = [twi EXCEPT ![w] = Head(backlog)]
          /\ pc' = [pc EXCEPT ![w] = "work"]
      BY <1>4 DEF TakeItem, TypeOK
    <2>2. InSeq(backlog') \subseteq InSeq(backlog) /\ Head(backlog) \in InSeq(backlog)
      BY <2>1, InTail
    <2>3. Head(backlog) \notin processed /\ InSeq(backlog') \cap processed = {}
      BY <2>2 DEF ProcessedInv
    <2>4. /\ \A v \in Threads \ {w} : twi'[v] = twi[v] /\ pc'[v] = pc[v]
          /\ twi'[w] = Head(backlog) /\ pc'[w] = "work"
      BY <2>1 DEF TypeOK
    <2>5. \A v \in Threads :
              /\ pc'[v] = "lock" /\ twi'[v] # None => twi'[v] \in processed'
              /\ pc'[v] = "work" => twi'[v] \notin processed'
      BY <1>1, <2>3, <2>4 DEF ProcessedInv
    <2> QED
      BY <1>1, <1>2, <2>3, <2>5 DEF ProcessedInv
  <1>5. CASE ExitLoop(w)
    BY <1>3, <1>5 DEF ExitLoop
  <1>6. CASE WaitForWork(w)
    BY <1>3, <1>6 DEF WaitForWork
  <1> QED
    BY <1>4, <1>5, <1>6 DEF WorkerThreadProc

(* WorkProc() adds the worker's own item, which nobody else has.            *)
LEMMA WorkProcProcessed ==
  ASSUME TypeOK, ThreadStates, OrderInv, ProcessedInv,
         NEW w \in Threads, WorkProc(w)
  PROVE  ProcessedInv'
  <1> USE DEF mainVars
  <1>1. /\ pc[w] = "work" /\ pc' = [pc EXCEPT ![w] = "lock"]
        /\ processed' = processed \cup {twi[w]}
        /\ UNCHANGED <<backlog, done, twi, queued, destroyed, oid, main>>
    BY DEF WorkProc
  <1>2. twi[w] # None
    BY <1>1 DEF ThreadStates
  <1>3. /\ twi[w] \in InSeq(queued) /\ twi[w] \notin InSeq(backlog)
        /\ \A v \in Threads : twi[v] = twi[w] => v = w
    BY <1>2, HeldOnce
  <1>4. pc'[w] = "lock" /\ \A v \in Threads \ {w} : pc'[v] = pc[v]
    BY <1>1 DEF TypeOK
  <1>5. \A v \in Threads :
            /\ pc'[v] = "lock" /\ twi'[v] # None => twi'[v] \in processed'
            /\ pc'[v] = "work" => twi'[v] \notin processed'
    BY <1>1, <1>3, <1>4 DEF ProcessedInv
  <1> QED
    BY <1>1, <1>3, <1>5 DEF ProcessedInv

(* Queue() brings an item that nobody has processed.                        *)
LEMMA QueueProcessed ==
  ASSUME TypeOK, ThreadStates, ProcessedInv, NEW i \in Items,
         NEW lim \in BacklogLimits, Queue(i, lim)
  PROVE  ProcessedInv'
  <1>1. PICK new \in NewWorkers :
          /\ pc' = [w \in Threads |-> IF w \in new THEN "lock" ELSE pc[w]]
          /\ IF Workers \cup new # {} THEN EnqueueItem(i, lim) ELSE KeepItem(i)
    BY DEF Queue
  <1>2. /\ main = "idle" /\ i \notin InSeq(queued) /\ queued' = Append(queued, i)
        /\ UNCHANGED <<twi, processed, destroyed>>
    BY DEF Queue
  <1>3. i \notin processed
    BY <1>2 DEF ProcessedInv
  <1>4. done' \subseteq done /\ InSeq(oid') \subseteq processed
    <2>1. FetchOrderedDoneItems \/ UNCHANGED <<done, oid>>
      BY <1>1 DEF EnqueueItem, KeepItem
    <2> QED
      BY <2>1, FetchProcessed DEF ProcessedInv
  <1>5. InSeq(backlog') \cap processed' = {}
    <2>1. backlog' = backlog \/ backlog' = Append(backlog, i)
      BY <1>1 DEF EnqueueItem, KeepItem
    <2>2. InSeq(backlog) \cap processed = {}
      BY DEF ProcessedInv
    <2>3. CASE backlog' = backlog
      BY <1>2, <2>2, <2>3
    <2>4. CASE backlog' = Append(backlog, i)
      <3>1. InSeq(backlog') = InSeq(backlog) \cup {i}
        BY <2>4, InAppend DEF TypeOK
      <3> QED
        BY <1>2, <1>3, <2>2, <3>1
    <2> QED
      BY <2>1, <2>3, <2>4
  <1>6. processed' \subseteq InSeq(queued')
    BY <1>2, InAppend DEF ProcessedInv, TypeOK
  <1>7. \A v \in Threads :
            /\ pc'[v] = "lock" /\ twi'[v] # None => twi'[v] \in processed'
            /\ pc'[v] = "work" => twi'[v] \notin processed'
    <2> SUFFICES ASSUME NEW v \in Threads
                 PROVE  /\ pc'[v] = "lock" /\ twi'[v] # None => twi'[v] \in processed'
                        /\ pc'[v] = "work" => twi'[v] \notin processed'
      OBVIOUS
    <2>1. CASE v \in new
      <3>1. pc[v] = "off"
        BY <2>1 DEF NewWorkers, Workers
      <3> QED
        BY <1>1, <1>2, <2>1, <3>1 DEF ThreadStates
    <2>2. CASE v \notin new
      BY <1>1, <1>2, <2>2 DEF ProcessedInv
    <2> QED
      BY <2>1, <2>2
  <1>8. InSeq(destroyed') \subseteq processed'
    BY <1>2 DEF ProcessedInv
  <1> QED
    BY <1>2, <1>4, <1>5, <1>6, <1>7, <1>8 DEF ProcessedInv

(* The producer's steps inside its calls.                                   *)
LEMMA CallProcessed ==
  ASSUME TypeOK, ThreadStates, OrderInv, ProcessedInv, CallStep
  PROVE  ProcessedInv'
  <1> USE DEF poolVars, mainVars, histVars
  <1>1. ASSUME QueueWoken \/ FinalizeLoop PROVE ProcessedInv'
    <2>1. /\ FetchOrderedDoneItems \/ UNCHANGED <<done, oid>>
          /\ UNCHANGED <<backlog, pc, twi, queued, processed, destroyed>>
          /\ main \in {"queue", "finalize"}
      BY <1>1 DEF QueueWoken, FinalizeLoop
    <2>2. done' \subseteq done /\ InSeq(oid') \subseteq processed
      BY <2>1, FetchProcessed DEF ProcessedInv
    <2> QED
      BY <2>1, <2>2 DEF ProcessedInv
  <1>2. CASE ProcessSync
    <2>1. /\ main = "sync" /\ processed' = processed \cup {syncItem}
          /\ UNCHANGED <<backlog, done, pc, twi, queued, destroyed, oid, main>>
      BY <1>2 DEF ProcessSync
    <2>2. /\ \A w \in Threads : pc[w] = "off" /\ twi[w] = None
          /\ backlog = <<>> /\ syncItem = queued[Len(queued)]
          /\ Len(queued) = Len(destroyed) + 1
      BY <2>1 DEF ThreadStates, Workers, OrderInv, Counters
    <2>3. syncItem \in InSeq(queued) /\ InSeq(backlog) = {}
      <3>1. Len(queued) \in 1 .. Len(queued) /\ Len(queued) \in Nat
            /\ queued \in Seq(Items)
        BY <2>2, Lengths DEF TypeOK
      <3> QED
        BY <2>2, <3>1, InSeqIs DEF InSeq
    <2> QED
      BY <2>1, <2>2, <2>3 DEF ProcessedInv
  <1>3. ASSUME NEW x, destroyed' = Append(destroyed, x), x \in Items,
               main \in {"discard"} \/ x \in processed, main' # main => main = "sync",
               done' \subseteq done, InSeq(oid') \subseteq InSeq(oid),
               InSeq(backlog') \subseteq InSeq(backlog),
               UNCHANGED <<pc, twi, queued, processed>>
        PROVE  ProcessedInv'
    <2>1. InSeq(destroyed') = InSeq(destroyed) \cup {x}
      BY <1>3, InAppend DEF TypeOK
    <2> QED
      BY <1>3, <2>1 DEF ProcessedInv
  <1>4. CASE DeleteSync
    <2>1. syncItem \in Items
      BY <1>4 DEF DeleteSync, ThreadStates
    <2> QED
      BY <1>3, <1>4, <2>1 DEF DeleteSync
  <1>5. CASE DeleteFetched
    <2>1. /\ oid \in Seq(Items) /\ oid # <<>> /\ oid' = Tail(oid)
          /\ destroyed' = Append(destroyed, Head(oid))
          /\ UNCHANGED <<backlog, done, pc, twi, queued, processed, main>>
      BY <1>5 DEF DeleteFetched, TypeOK
    <2>2. Head(oid) \in InSeq(oid) /\ InSeq(oid') \subseteq InSeq(oid)
      BY <2>1, InTail
    <2>3. Head(oid) \in processed /\ Head(oid) \in Items
      BY <2>1, <2>2, InSeqIs DEF ProcessedInv
    <2> QED
      BY <1>3, <2>1, <2>2, <2>3
  <1>6. CASE DiscardDone
    <2>1. PICK d \in done : /\ destroyed' = Append(destroyed, d[2])
                            /\ done' = done \ {d}
      BY <1>6 DEF DiscardDone
    <2>2. d[2] \in Items
      BY DEF TypeOK
    <2> QED
      BY <1>3, <1>6, <2>1, <2>2 DEF DiscardDone
  <1>7. CASE DiscardBacklog
    <2>1. /\ backlog \in Seq(Items) /\ backlog # <<>> /\ backlog' = Tail(backlog)
          /\ destroyed' = Append(destroyed, Head(backlog)) /\ main = "discard"
          /\ UNCHANGED <<oid, done, pc, twi, queued, processed, main>>
      BY <1>7 DEF DiscardBacklog, TypeOK
    <2>2. Head(backlog) \in InSeq(backlog) /\ InSeq(backlog') \subseteq InSeq(backlog)
          /\ Head(backlog) \in Items
      BY <2>1, InTail, InSeqIs
    <2> QED
      BY <1>3, <2>1, <2>2
  <1>8. CASE Return \/ Join \/ Free
    BY <1>8, SameProcessed DEF Return, Join, Free
  <1> QED
    BY <1>1, <1>2, <1>4, <1>5, <1>6, <1>7, <1>8 DEF CallStep

LEMMA ProcessedStep ==
  ASSUME TypeOK, ThreadStates, OrderInv, ProcessedInv, [Next]_vars
  PROVE  ProcessedInv'
  <1> USE DEF poolVars, mainVars, histVars
  <1>1. CASE \E w \in Threads : WorkerStep(w)
    BY <1>1, WorkerProcessed, WorkProcProcessed DEF WorkerStep
  <1>2. CASE CallStep
    BY <1>2, CallProcessed
  <1>3. CASE \E i \in Items, lim \in BacklogLimits : Queue(i, lim)
    BY <1>3, QueueProcessed
  <1>4. CASE Finalize \/ Destroy
    BY <1>4, SameProcessed DEF Finalize, Destroy
  <1>5. CASE \E t \in Threads \cup {Producer} : SpuriousWakeup(t)
    BY <1>5, SameProcessed DEF SpuriousWakeup
  <1>6. CASE UNCHANGED vars
    BY <1>6, SameProcessed DEF vars
  <1> QED
    BY <1>1, <1>2, <1>3, <1>4, <1>5, <1>6 DEF Next, Freed

(* WorkProc() is called at most once for an item, and always before the     *)
(* item gets to _done.                                                      *)
LEMMA ProcessedInvariant == Spec => []ProcessedInv
  <1>1. Init => ProcessedInv
    <2> SUFFICES ASSUME Init PROVE ProcessedInv
      OBVIOUS
    <2>1. InSeq(<<>>) = {}
      BY EmptySeq DEF InSeq
    <2> QED
      BY <2>1 DEF Init, ProcessedInv
  <1>2. WakeInv /\ OrderInv /\ ProcessedInv /\ [Next]_vars => ProcessedInv'
    BY ProcessedStep DEF WakeInv
  <1> QED
    BY <1>1, <1>2, OrderInvariant, WakeUpsAreNotLost, PTL DEF Spec

(* Where the numbers of two positions differ by one, so do the positions.   *)
LEMMA NextAfter ==
  ASSUME NEW a \in Nat, NEW b \in Nat, NEW e \in Nat, a + e = (a + b) + 1
  PROVE  e = b + 1
  OBVIOUS

(* The end of Finalize()'s loop: no worker holds an item, hence nothing is  *)
(* behind a gap in the sequence numbers and one batch takes all there is.   *)
LEMMA DrainStep ==
  ASSUME WakeInv, WakeInv', OrderInv, OrderInv', ProcessedInv, ProcessedInv',
         [Next]_vars, main = "finalize", main' = "destroy"
  PROVE  /\ Len(destroyed) + Len(oid') = Len(queued)
         /\ InSeq(queued) \subseteq processed
  <1> USE DEF poolVars, mainVars, histVars
  <1>1. FinalizeLoop
    BY DEF Next, WorkerStep, WorkProc, WorkerThreadProc, CallStep, QueueWoken,
       ProcessSync, DeleteSync, DeleteFetched, Return, Join, DiscardDone,
       DiscardBacklog, Free, Queue, Finalize, Destroy, SpuriousWakeup, Freed, vars
  <1>2. /\ backlog = <<>> /\ working = 0 /\ FetchOrderedDoneItems
        /\ UNCHANGED <<backlog, doneCounter, twi, queued, destroyed, processed, synced>>
    BY <1>1 DEF FinalizeLoop
  <1>3. TypeOK /\ TypeOK' /\ WorkingIsExact
    BY DEF WakeInv
  <1>4. Busy = {} /\ Busy' = {}
    BY <1>2, <1>3, BusyFinite, FS_EmptySet DEF WorkingIsExact, Busy
  <1>5. /\ Len(queued) \in Nat /\ Len(destroyed) \in Nat /\ Len(oid') \in Nat
        /\ synced \in Nat /\ finalizedCounter' \in Nat
        /\ Numbered = Len(queued) /\ Numbered' = Len(queued)
        /\ Fetched' = Len(destroyed) + Len(oid')
    <2>1. Len(oid') \in Nat
      BY <1>3, LenProperties DEF TypeOK
    <2>2. Len(backlog) = 0
      BY <1>2, EmptySeq
    <2> QED
      BY <1>2, <1>3, <2>1, <2>2, Lengths DEF Numbered, Fetched, TypeOK
  <1>6. Fetched' <= Numbered' /\ Fetched' = synced + finalizedCounter'
    BY <1>2 DEF OrderInv, Positions, Counters
  <1>7. Fetched' = Numbered'
    <2> SUFFICES ASSUME Fetched' # Numbered' PROVE FALSE
      OBVIOUS
    <2> DEFINE n == Fetched' + 1
    <2>1. n \in Fetched' + 1 .. Numbered'
      BY <1>5, <1>6
    <2>2. (\A m \in Fetched + 1 .. Numbered : DoneHas(m) \/ BusyHas(m))'
      <3>1. main' # "sync"
        OBVIOUS
      <3> QED
        BY <3>1 DEF OrderInv, InFlight
    <2>3. PICK d \in done' : synced' + d[1] = n
      BY <1>4, <2>1, <2>2 DEF DoneHas, BusyHas
    <2>4. synced' = synced
      BY <1>2
    <2>5. d[1] \in Nat
      BY <1>3 DEF TypeOK
    <2> DEFINE e == d[1]
    <2>6. e = finalizedCounter' + 1
      <3>1. synced + e = (synced + finalizedCounter') + 1 /\ e \in Nat
        BY <1>6, <2>3, <2>4, <2>5
      <3>2. synced \in Nat /\ finalizedCounter' \in Nat
        BY <1>5
      <3> HIDE DEF e
      <3> QED
        BY <3>1, <3>2, NextAfter
    <2>7. PICK last \in finalizedCounter .. doneCounter :
              /\ \A x \in done : x[1] # last + 1
              /\ finalizedCounter' = last
              /\ done' \subseteq done
      BY <1>2 DEF FetchOrderedDoneItems
    <2> QED
      BY <2>6, <2>7
  <1>8. Len(destroyed) + Len(oid') = Len(queued)
    BY <1>5, <1>7
  <1>9. ASSUME NEW k \in 1 .. Len(queued) PROVE queued[k] \in processed
    <2>1. CASE k <= Len(destroyed)
      <3>1. k \in 1 .. Len(destroyed)
        BY <1>5, <2>1
      <3>2. destroyed[k] = queued[k] /\ destroyed[k] \in InSeq(destroyed)
        BY <1>3, <3>1, InSeqIs DEF OrderInv, Positions, DestroyedInQueueOrder, TypeOK
      <3> QED
        BY <3>2 DEF ProcessedInv
    <2>2. CASE ~ (k <= Len(destroyed))
      <3> DEFINE j == k - Len(destroyed)
      <3>1. j \in 1 .. Len(oid') /\ Len(destroyed) + j = k
        BY <1>5, <1>8, <2>2
      <3>2. oid'[j] = queued[k]
        BY <1>2, <3>1 DEF OrderInv, Positions
      <3>3. oid'[j] \in InSeq(oid')
        <4> DEFINE o == oid'
        <4>1. o \in Seq(Items) /\ j \in 1 .. Len(o)
          BY <1>3, <3>1 DEF TypeOK
        <4> HIDE DEF o, j
        <4>2. o[j] \in InSeq(o)
          BY <4>1, InSeqIs
        <4> QED
          BY <4>2 DEF o
      <3> QED
        BY <1>2, <3>2, <3>3 DEF ProcessedInv
    <2> QED
      BY <2>1, <2>2
  <1>10. \A x : x \in InSeq(queued) <=> \E k \in 1 .. Len(queued) : x = queued[k]
    <2>1. queued \in Seq(Items)
      BY <1>3 DEF TypeOK
    <2> QED
      BY <2>1, InSeqIs, Zenon
  <1> QED
    BY <1>8, <1>9, <1>10

(* When Finalize() returns, every item queued before has been processed and *)
(* is handed to the caller or was deleted, however many workers there are.  *)
THEOREM FinalizeLeavesNothing == Spec => FinalizeDrains
  <1>1. WakeInv /\ WakeInv' /\ OrderInv /\ OrderInv' /\ ProcessedInv /\ ProcessedInv'
        /\ [Next]_vars =>
           [main = "finalize" /\ main' = "destroy" =>
               Len(destroyed) + Len(oid') = Len(queued) /\ InSeq(queued) \subseteq processed]_vars
    BY DrainStep
  <1> QED
    BY <1>1, OrderInvariant, WakeUpsAreNotLost, ProcessedInvariant, PTL
       DEF Spec, FinalizeDrains

-----------------------------------------------------------------------------
(* The refinement of OrderedWorkQueue, step by step. *)

closing == main \in {"join", "discard", "freed"}

(* A deletion is the next one in order.                                     *)
LEMMA DeletionRefines ==
  ASSUME TypeOK, TypeOK', OrderInv', NEW x \in Items,
         destroyed' = Append(destroyed, x), x \in processed \/ main = "discard",
         closing' <=> closing, UNCHANGED <<queued, processed>>
  PROVE  Abstract!DestroyNext
  <1>1. /\ Len(destroyed) \in Nat /\ Len(destroyed') = Len(destroyed) + 1
        /\ destroyed'[Len(destroyed) + 1] = x
    BY AppendProperties, LenProperties DEF TypeOK
  <1>2. /\ Len(destroyed) + 1 <= Len(queued)
        /\ x = queued[Len(destroyed) + 1]
    BY <1>1 DEF OrderInv, Positions, DestroyedInQueueOrder
  <1>3. Len(queued) \in Nat
    BY Lengths
  <1>4. Len(destroyed) < Len(queued)
    BY <1>1, <1>2, <1>3
  <1>5. (main \in {"join", "discard", "freed"})' = (main \in {"join", "discard", "freed"})
    BY DEF closing
  <1> QED
    BY <1>2, <1>4, <1>5 DEF Abstract!DestroyNext

(* Every step of the pool is one of its header's promise, or invisible.     *)
LEMMA RefinementStep ==
  ASSUME WakeInv, WakeInv', OrderInv, OrderInv', ProcessedInv, [Next]_vars
  PROVE  [Abstract!Next]_(Abstract!vars)
  <1> USE DEF poolVars, mainVars, histVars
  <1>0. TypeOK /\ TypeOK' /\ ThreadStates
    BY DEF WakeInv
  <1>1. ASSUME UNCHANGED <<queued, processed, destroyed>>, closing' <=> closing
        PROVE  UNCHANGED Abstract!vars
    <2>1. (main \in {"join", "discard", "freed"})' = (main \in {"join", "discard", "freed"})
      BY <1>1 DEF closing
    <2> QED
      BY <1>1, <2>1 DEF Abstract!vars
  <1>2. ASSUME NEW w \in Threads, WorkerThreadProc(w)
        PROVE  UNCHANGED Abstract!vars
    BY <1>1, <1>2 DEF WorkerThreadProc, closing
  <1>3. ASSUME NEW w \in Threads, WorkProc(w)
        PROVE  Abstract!Process(twi[w])
    <2>1. pc[w] = "work" /\ processed' = processed \cup {twi[w]}
          /\ UNCHANGED <<queued, destroyed, main>>
      BY <1>3 DEF WorkProc
    <2>2. twi[w] # None /\ twi[w] \notin processed
      BY <1>0, <2>1 DEF ThreadStates, ProcessedInv
    <2>3. twi[w] \in InSeq(queued) /\ twi[w] \notin InSeq(destroyed)
      BY <1>0, <2>2, HeldOnce
    <2> QED
      BY <2>1, <2>2, <2>3 DEF Abstract!Process, Abstract!InSeq, InSeq
  <1>4. ASSUME NEW i \in Items, NEW lim \in BacklogLimits, Queue(i, lim)
        PROVE  Abstract!Submit(i)
    <2>1. PICK new \in NewWorkers :
            IF Workers \cup new # {} THEN EnqueueItem(i, lim) ELSE KeepItem(i)
      BY <1>4 DEF Queue
    <2>2. main' \in {"queue", "destroy", "sync"}
      BY <2>1 DEF EnqueueItem, KeepItem
    <2>3. main = "idle" /\ i \notin InSeq(queued) /\ queued' = Append(queued, i)
          /\ UNCHANGED <<processed, destroyed>>
      BY <1>4 DEF Queue
    <2> QED
      BY <2>2, <2>3 DEF Abstract!Submit, Abstract!InSeq, InSeq
  <1>5. CASE QueueWoken \/ FinalizeLoop \/ Return \/ Join \/ Free \/ Finalize
    BY <1>1, <1>5 DEF QueueWoken, FinalizeLoop, Return, Join, Free, Finalize, closing
  <1>6. CASE ProcessSync
    <2>1. /\ main = "sync" /\ syncItem \notin processed
          /\ processed' = processed \cup {syncItem}
          /\ UNCHANGED <<queued, destroyed, main>>
      BY <1>6 DEF ProcessSync
    <2>2. syncItem = queued[Len(queued)] /\ Len(queued) = Len(destroyed) + 1
      BY <2>1 DEF OrderInv, Counters
    <2>3. /\ Len(destroyed) \in Nat /\ Len(queued) \in 1 .. Len(queued)
          /\ queued \in Seq(Items) /\ destroyed \in Seq(Items)
      BY <1>0, <2>2, Lengths DEF TypeOK
    <2>4. syncItem \in InSeq(queued)
      BY <2>2, <2>3, InSeqIs
    <2>5. ASSUME NEW k \in 1 .. Len(destroyed) PROVE destroyed[k] # syncItem
      <3>1. destroyed[k] = queued[k] /\ k \in 1 .. Len(queued) /\ k # Len(queued)
        BY <2>2, <2>3 DEF OrderInv, Positions, DestroyedInQueueOrder
      <3> QED
        BY <2>2, <2>3, <3>1 DEF OrderInv, Positions
    <2>6. syncItem \notin InSeq(destroyed)
      BY <2>3, <2>5, InSeqIs
    <2>7. Abstract!Process(syncItem) /\ syncItem \in Items
      BY <1>0, <2>1, <2>4, <2>6 DEF Abstract!Process, Abstract!InSeq, InSeq, ThreadStates
    <2> QED
      BY <2>7 DEF Abstract!Next
  <1>7. CASE DeleteSync
    <2>1. syncItem \in Items /\ syncItem \in processed
      BY <1>0, <1>7 DEF DeleteSync, ThreadStates
    <2>2. Abstract!DestroyNext
      BY <1>0, <1>7, <2>1, DeletionRefines DEF DeleteSync, closing
    <2> QED
      BY <2>2 DEF Abstract!Next
  <1>8. CASE DeleteFetched
    <2>1. oid \in Seq(Items) /\ oid # <<>>
      BY <1>0, <1>8 DEF DeleteFetched, TypeOK
    <2>2. Head(oid) \in processed /\ Head(oid) \in Items
      BY <2>1, InTail, InSeqIs DEF ProcessedInv
    <2>3. Abstract!DestroyNext
      BY <1>0, <1>8, <2>2, DeletionRefines DEF DeleteFetched, closing
    <2> QED
      BY <2>3 DEF Abstract!Next
  <1>9. CASE DiscardDone
    <2>1. PICK d \in done : destroyed' = Append(destroyed, d[2])
      BY <1>9 DEF DiscardDone
    <2>2. d[2] \in Items
      BY <1>0 DEF TypeOK
    <2>3. Abstract!DestroyNext
      BY <1>0, <1>9, <2>1, <2>2, DeletionRefines DEF DiscardDone, closing
    <2> QED
      BY <2>3 DEF Abstract!Next
  <1>10. CASE DiscardBacklog
    <2>1. backlog \in Seq(Items) /\ backlog # <<>>
      BY <1>0, <1>10 DEF DiscardBacklog, TypeOK
    <2>2. Head(backlog) \in Items
      BY <2>1, InTail, InSeqIs
    <2>3. Abstract!DestroyNext
      BY <1>0, <1>10, <2>2, DeletionRefines DEF DiscardBacklog, closing
    <2> QED
      BY <2>3 DEF Abstract!Next
  <1>11. CASE Destroy
    <2>1. Abstract!Close
      BY <1>11 DEF Destroy, Abstract!Close
    <2> QED
      BY <2>1 DEF Abstract!Next
  <1>12. CASE \E t \in Threads \cup {Producer} : SpuriousWakeup(t)
    BY <1>1, <1>12 DEF SpuriousWakeup, closing
  <1>13. CASE UNCHANGED vars
    BY <1>1, <1>13 DEF vars, closing
  <1>14. ASSUME NEW w \in Threads, WorkerStep(w)
         PROVE  [Abstract!Next]_(Abstract!vars)
    <2>1. CASE WorkProc(w)
      <3>1. twi[w] \in Items
        BY <1>0, <2>1 DEF WorkProc, ThreadStates, TypeOK
      <3> QED
        BY <1>3, <2>1, <3>1 DEF Abstract!Next
    <2> QED
      BY <1>2, <1>14, <2>1 DEF WorkerStep
  <1>15. CASE \E i \in Items, lim \in BacklogLimits : Queue(i, lim)
    BY <1>4, <1>15 DEF Abstract!Next
  <1> QED
    BY <1>5, <1>6, <1>7, <1>8, <1>9, <1>10, <1>11, <1>12, <1>13, <1>14, <1>15
       DEF Next, CallStep, Freed

(* The pool keeps the promise of its header: whatever its threads do, items *)
(* are processed at most once, not after their deletion, deleted in the     *)
(* order of queueing, and unprocessed ones only by the destructor.          *)
THEOREM PoolIsAnOrderedQueue == Spec => ImplementsOrderedWorkQueue
  <1>1. Init => Abstract!Init
    BY DEF Init, Abstract!Init
  <1>2. WakeInv /\ WakeInv' /\ OrderInv /\ OrderInv' /\ ProcessedInv /\ [Next]_vars
        => [Abstract!Next]_(Abstract!vars)
    BY RefinementStep
  <1> QED
    BY <1>1, <1>2, OrderInvariant, WakeUpsAreNotLost, ProcessedInvariant, PTL
       DEF Spec, ImplementsOrderedWorkQueue, Abstract!Spec
=============================================================================
