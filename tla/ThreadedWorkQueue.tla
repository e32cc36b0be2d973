------------------------- MODULE ThreadedWorkQueue --------------------------
(***************************************************************************)
(* utils/src/ThreadedWorkQueue.cpp: the pool that scans files for the       *)
(* Find-file dialog.  One producer thread (FindFileThread of                *)
(* far/src/findfile.cpp) calls Queue(), Finalize() and the destructor;      *)
(* worker threads run WorkerThreadProc().  Everything between taking and    *)
(* leaving `_mtx` (an unlock or a wait) is one atomic step.  Workers and    *)
(* producer sleep on the same condition variable `_cond`: `waiting` is the  *)
(* set of its sleepers.  Sleepers may also wake up spuriously.              *)
(***************************************************************************)
EXTENDS Integers, Sequences, FiniteSets

CONSTANTS Items,      \* the work items the producer may create
          Threads,    \* one name for each of the _threads_count workers
          Producer,   \* the producer thread
          Limits,     \* explicit backlog_limit arguments
          None        \* a null IThreadedWorkItem pointer

ASSUME ThreadsAssumption == /\ IsFiniteSet(Threads)
                            /\ Threads # {}
                            /\ Producer \notin Threads
ASSUME LimitsAssumption == Limits \subseteq Nat
ASSUME NoneAssumption == None \notin Items

VARIABLES
    backlog,           \* _backlog: items no worker has taken yet
    done,              \* _done: pairs <<sequence number, item>>
    working,           \* _working
    stopping,          \* _stopping
    notifyOnDone,      \* _notify_on_done
    doneCounter,       \* _done_counter: the last sequence number given out
    finalizedCounter,  \* _finalized_counter: the last one fetched from _done
    pc,                \* worker: "off", "lock" (wants _mtx), "work", "exit"
    twi,               \* worker's local twi
    seq,               \* worker's local seq
    waiting,           \* threads asleep on _cond
    main,              \* where the producer is
    limit,             \* backlog_limit of the Queue() call in progress
    syncItem,          \* producer's twi when Queue() processes it itself
    oid,               \* OrderedItemsDestroyer of the call in progress
    queued,            \* history: every item passed to Queue(), in order
    processed,         \* history: items whose WorkProc() has returned
    destroyed,         \* history: items deleted, in order
    synced             \* history: how many items Queue() processed itself

poolVars == <<backlog, done, working, doneCounter, pc, twi, seq>>
mainVars == <<main, limit, syncItem, oid>>
histVars == <<queued, processed, destroyed, synced>>
vars == <<poolVars, stopping, notifyOnDone, finalizedCounter, waiting,
          mainVars, histVars>>

InSeq(s) == {s[k] : k \in DOMAIN s}

(* _workers: the threads started so far *)
Workers == {w \in Threads : pc[w] # "off"}

(* Queue()'s default argument, size_t(-1), stands for 2 * _threads_count *)
BacklogLimits == Limits \cup {2 * Cardinality(Threads)}

Init == /\ backlog = <<>>
        /\ done = {}
        /\ working = 0
        /\ stopping = FALSE
        /\ notifyOnDone = FALSE
        /\ doneCounter = 0
        /\ finalizedCounter = 0
        /\ pc = [w \in Threads |-> "off"]
        /\ twi = [w \in Threads |-> None]
        /\ seq = [w \in Threads |-> 0]
        /\ waiting = {}
        /\ main = "idle"
        /\ limit = 0
        /\ syncItem = None
        /\ oid = <<>>
        /\ queued = <<>>
        /\ processed = {}
        /\ destroyed = <<>>
        /\ synced = 0

-----------------------------------------------------------------------------
(* Variants of the definitions below with one plausible mistake each; the   *)
(* properties must tell them from the code.                                 *)

(* Nobody is notified of a finished item. *)
BugNoNotifyOnDone(w) == waiting

(* _backlog.pop_front() is forgotten. *)
BugTakeWithoutPop(w) ==
    /\ ~stopping
    /\ backlog # <<>>
    /\ doneCounter' = doneCounter + 1
    /\ seq' = [seq EXCEPT ![w] = doneCounter + 1]
    /\ twi' = [twi EXCEPT ![w] = Head(backlog)]
    /\ working' = (IF twi[w] = None THEN working ELSE working - 1) + 1
    /\ waiting' = IF twi[w] # None /\ notifyOnDone THEN {} ELSE waiting
    /\ pc' = [pc EXCEPT ![w] = "work"]
    /\ UNCHANGED backlog

(* Fetches the lowest finished item although earlier ones are missing. *)
BugFetchOverGaps ==
    \/ /\ done = {}
       /\ UNCHANGED <<finalizedCounter, done>>
       /\ oid' = <<>>
    \/ \E d \in done : /\ \A e \in done : d[1] <= e[1]
                       /\ finalizedCounter' = d[1]
                       /\ done' = done \ {d}
                       /\ oid' = <<d[2]>>

(* Only the first item of the backlog is announced. *)
BugNotifyFirstOnly ==
    IF backlog = <<>> /\ waiting # {}
    THEN {waiting \ {t} : t \in waiting}
    ELSE {waiting}

(* Finalize() waits without asking to be notified. *)
BugFinalizeWithoutRequest ==
    /\ main = "finalize"
    /\ Producer \notin waiting
    /\ IF backlog = <<>> /\ working = 0
       THEN main' = "destroy" /\ UNCHANGED waiting
       ELSE waiting' = waiting \cup {Producer} /\ UNCHANGED main
    /\ UNCHANGED <<poolVars, stopping, notifyOnDone, finalizedCounter,
                   limit, syncItem, oid, histVars>>

(* Finalize() only looks at the backlog. *)
BugFinalizeIgnoresWorking ==
    /\ main = "finalize"
    /\ Producer \notin waiting
    /\ backlog = <<>>
    /\ main' = "destroy"
    /\ UNCHANGED <<poolVars, stopping, notifyOnDone, finalizedCounter,
                   waiting, limit, syncItem, oid, histVars>>

(* The destructor sets _stopping but does not wake the workers. *)
BugDestroyWithoutNotify ==
    /\ main = "idle"
    /\ main' = "join"
    /\ stopping' = (Workers # {})
    /\ UNCHANGED <<poolVars, notifyOnDone, finalizedCounter, waiting, limit,
                   syncItem, oid, histVars>>

(* The destructor forgets the backlog. *)
BugFreeWithBacklog ==
    /\ main = "discard"
    /\ done = {}
    /\ main' = "freed"
    /\ UNCHANGED <<poolVars, stopping, notifyOnDone, finalizedCounter,
                   waiting, limit, syncItem, oid, histVars>>

-----------------------------------------------------------------------------
(* Worker threads *)

(* WorkProc() returns (or throws, which the loop catches) outside the lock. *)
WorkProc(w) ==
    /\ pc[w] = "work"
    /\ pc' = [pc EXCEPT ![w] = "lock"]
    /\ processed' = processed \cup {twi[w]}
    /\ UNCHANGED <<backlog, done, working, doneCounter, twi, seq, stopping,
                   notifyOnDone, finalizedCounter, waiting, mainVars, queued,
                   destroyed, synced>>

(* `while (twi)`: a worker that comes back with a finished item hands it    *)
(* over and wakes every sleeper if somebody asked for it.                   *)
HandOver(w) ==
    IF twi[w] = None
    THEN UNCHANGED <<done, notifyOnDone>>
    ELSE /\ done' = done \cup {<<seq[w], twi[w]>>}
         /\ notifyOnDone' = FALSE

WorkingAfterHandOver(w) == IF twi[w] = None THEN working ELSE working - 1
AsleepAfterHandOver(w)  == IF twi[w] # None /\ notifyOnDone THEN {} ELSE waiting

(* The three ways the rest of the locked part can end.                      *)
ExitLoop(w) ==
    /\ stopping
    /\ pc' = [pc EXCEPT ![w] = "exit"]
    /\ twi' = [twi EXCEPT ![w] = None]
    /\ working' = WorkingAfterHandOver(w)
    /\ waiting' = AsleepAfterHandOver(w)
    /\ UNCHANGED <<backlog, doneCounter, seq>>

WaitForWork(w) ==
    /\ ~stopping
    /\ backlog = <<>>
    /\ twi' = [twi EXCEPT ![w] = None]
    /\ working' = WorkingAfterHandOver(w)
    /\ waiting' = AsleepAfterHandOver(w) \cup {w}
    /\ UNCHANGED <<pc, backlog, doneCounter, seq>>

TakeItem(w) ==
    /\ ~stopping
    /\ backlog # <<>>
    /\ doneCounter' = doneCounter + 1
    /\ seq' = [seq EXCEPT ![w] = doneCounter + 1]
    /\ twi' = [twi EXCEPT ![w] = Head(backlog)]
    /\ backlog' = Tail(backlog)
    /\ working' = WorkingAfterHandOver(w) + 1
    /\ waiting' = AsleepAfterHandOver(w)
    /\ pc' = [pc EXCEPT ![w] = "work"]

WorkerThreadProc(w) ==
    /\ pc[w] = "lock"
    /\ w \notin waiting
    /\ HandOver(w)
    /\ ExitLoop(w) \/ WaitForWork(w) \/ TakeItem(w)
    /\ UNCHANGED <<stopping, finalizedCounter, mainVars, histVars>>

-----------------------------------------------------------------------------
(* The producer *)

(* Moves the done items that directly follow the last fetched one, in       *)
(* sequence order, to the caller's oid.                                     *)
FetchOrderedDoneItems ==
    \E last \in finalizedCounter .. doneCounter :
        /\ \A k \in finalizedCounter + 1 .. last : \E d \in done : d[1] = k
        /\ \A d \in done : d[1] # last + 1
        /\ finalizedCounter' = last
        /\ done' = {d \in done : d[1] > last}
        /\ oid' \in [1 .. last - finalizedCounter -> Items]
        /\ \A k \in DOMAIN oid' : <<finalizedCounter + k, oid'[k]>> \in done

(* `_workers.emplace_back(this)`: the sets of workers it may add, the empty *)
(* one when no worker is wanted or its thread fails to start.               *)
NewWorkers ==
    IF Workers = {} \/ (backlog # <<>> /\ Workers # Threads)
    THEN {{}} \cup {{w} : w \in Threads \ Workers}
    ELSE {{}}

(* The threads that may still be asleep after the new item was announced:   *)
(* notify_one() if it is alone in the backlog, else notify_all().           *)
AsleepAfterNotify ==
    IF backlog = <<>> /\ waiting # {}
    THEN {waiting \ {t} : t \in waiting}
    ELSE {{}}

(* Queue(i, lim) with a worker to process the item: it joins the backlog;   *)
(* beyond the limit the producer sleeps until workers drain the backlog.    *)
EnqueueItem(i, lim) ==
    /\ backlog' = Append(backlog, i)
    /\ \E asleep \in AsleepAfterNotify :
          IF Len(backlog) + 1 > lim
          THEN /\ notifyOnDone' = TRUE
               /\ waiting' = asleep \cup {Producer}
               /\ main' = "queue"
               /\ UNCHANGED <<done, finalizedCounter, oid>>
          ELSE /\ FetchOrderedDoneItems
               /\ waiting' = asleep
               /\ main' = "destroy"
               /\ UNCHANGED notifyOnDone
    /\ UNCHANGED <<syncItem, synced>>

(* Without a worker the producer is left with the item.                     *)
KeepItem(i) ==
    /\ syncItem' = i
    /\ synced' = synced + 1
    /\ main' = "sync"
    /\ FetchOrderedDoneItems
    /\ UNCHANGED <<backlog, notifyOnDone, waiting>>

Queue(i, lim) ==
    /\ main = "idle"
    /\ i \notin InSeq(queued)
    /\ queued' = Append(queued, i)
    /\ limit' = lim
    /\ \E new \in NewWorkers :
          /\ pc' = [w \in Threads |-> IF w \in new THEN "lock" ELSE pc[w]]
          /\ IF Workers \cup new # {} THEN EnqueueItem(i, lim) ELSE KeepItem(i)
    /\ UNCHANGED <<working, doneCounter, twi, seq, stopping, processed,
                   destroyed>>

(* One more pass of Queue()'s do-while loop, after a wake-up.               *)
QueueWoken ==
    /\ main = "queue"
    /\ Producer \notin waiting
    /\ IF Len(backlog) > limit
       THEN /\ notifyOnDone' = TRUE
            /\ waiting' = waiting \cup {Producer}
            /\ UNCHANGED <<main, done, finalizedCounter, oid>>
       ELSE /\ FetchOrderedDoneItems
            /\ main' = "destroy"
            /\ UNCHANGED <<notifyOnDone, waiting>>
    /\ UNCHANGED <<backlog, working, doneCounter, pc, twi, seq, stopping,
                   limit, syncItem, histVars>>

(* `no workers? fallback to synchronous processing', outside the lock.      *)
ProcessSync ==
    /\ main = "sync"
    /\ syncItem \notin processed
    /\ processed' = processed \cup {syncItem}
    /\ UNCHANGED <<poolVars, stopping, notifyOnDone, finalizedCounter,
                   waiting, mainVars, queued, destroyed, synced>>

DeleteSync ==
    /\ main = "sync"
    /\ syncItem \in processed
    /\ destroyed' = Append(destroyed, syncItem)
    /\ syncItem' = None
    /\ main' = "destroy"
    /\ UNCHANGED <<poolVars, stopping, notifyOnDone, finalizedCounter,
                   waiting, limit, oid, queued, processed, synced>>

(* A call of Finalize(), and one pass of its loop.                          *)
Finalize ==
    /\ main = "idle"
    /\ main' = "finalize"
    /\ UNCHANGED <<poolVars, stopping, notifyOnDone, finalizedCounter,
                   waiting, limit, syncItem, oid, histVars>>

FinalizeLoop ==
    /\ main = "finalize"
    /\ Producer \notin waiting
    /\ IF backlog = <<>> /\ working = 0
       THEN /\ FetchOrderedDoneItems
            /\ main' = "destroy"
            /\ UNCHANGED <<notifyOnDone, waiting>>
       ELSE /\ notifyOnDone' = TRUE
            /\ waiting' = waiting \cup {Producer}
            /\ UNCHANGED <<main, done, finalizedCounter, oid>>
    /\ UNCHANGED <<backlog, working, doneCounter, pc, twi, seq, stopping,
                   limit, syncItem, histVars>>

(* ~OrderedItemsDestroyer, with the lock released: item by item.            *)
DeleteFetched ==
    /\ main = "destroy"
    /\ oid # <<>>
    /\ destroyed' = Append(destroyed, Head(oid))
    /\ oid' = Tail(oid)
    /\ UNCHANGED <<poolVars, stopping, notifyOnDone, finalizedCounter,
                   waiting, main, limit, syncItem, queued, processed, synced>>

Return ==
    /\ main = "destroy"
    /\ oid = <<>>
    /\ main' = "idle"
    /\ UNCHANGED <<poolVars, stopping, notifyOnDone, finalizedCounter,
                   waiting, limit, syncItem, oid, histVars>>

(* ~ThreadedWorkQueue stops the workers, if any, ...                        *)
Destroy ==
    /\ main = "idle"
    /\ main' = "join"
    /\ IF Workers = {}
       THEN UNCHANGED <<stopping, waiting>>
       ELSE stopping' = TRUE /\ waiting' = {}
    /\ UNCHANGED <<poolVars, notifyOnDone, finalizedCounter, limit, syncItem,
                   oid, histVars>>

(* ... joins them ...                                                       *)
Join ==
    /\ main = "join"
    /\ \A w \in Workers : pc[w] = "exit"
    /\ main' = "discard"
    /\ UNCHANGED <<poolVars, stopping, notifyOnDone, finalizedCounter,
                   waiting, limit, syncItem, oid, histVars>>

(* ... and deletes what is left: _done by ascending key, then _backlog.     *)
DiscardDone ==
    /\ main = "discard"
    /\ \E d \in done :
          /\ \A e \in done : d[1] <= e[1]
          /\ destroyed' = Append(destroyed, d[2])
          /\ done' = done \ {d}
    /\ UNCHANGED <<backlog, working, doneCounter, pc, twi, seq, stopping,
                   notifyOnDone, finalizedCounter, waiting, mainVars, queued,
                   processed, synced>>

DiscardBacklog ==
    /\ main = "discard"
    /\ done = {}
    /\ backlog # <<>>
    /\ destroyed' = Append(destroyed, Head(backlog))
    /\ backlog' = Tail(backlog)
    /\ UNCHANGED <<done, working, doneCounter, pc, twi, seq, stopping,
                   notifyOnDone, finalizedCounter, waiting, mainVars, queued,
                   processed, synced>>

Free ==
    /\ main = "discard"
    /\ done = {}
    /\ backlog = <<>>
    /\ main' = "freed"
    /\ UNCHANGED <<poolVars, stopping, notifyOnDone, finalizedCounter,
                   waiting, limit, syncItem, oid, histVars>>

-----------------------------------------------------------------------------
(* _cond.wait() may return without a notification.                          *)
SpuriousWakeup(t) ==
    /\ t \in waiting
    /\ waiting' = waiting \ {t}
    /\ UNCHANGED <<poolVars, stopping, notifyOnDone, finalizedCounter,
                   mainVars, histVars>>

(* After the destructor nothing is left to run.                             *)
Freed == main = "freed" /\ UNCHANGED vars

WorkerStep(w) == WorkProc(w) \/ WorkerThreadProc(w)

(* The producer's steps inside a call; which call it makes next is open.    *)
CallStep == \/ QueueWoken \/ ProcessSync \/ DeleteSync
            \/ FinalizeLoop \/ DeleteFetched \/ Return
            \/ Join \/ DiscardDone \/ DiscardBacklog \/ Free

Next == \/ \E w \in Threads : WorkerStep(w)
        \/ CallStep
        \/ \E i \in Items, lim \in BacklogLimits : Queue(i, lim)
        \/ Finalize
        \/ Destroy
        \/ \E t \in Threads \cup {Producer} : SpuriousWakeup(t)
        \/ Freed

Spec == Init /\ [][Next]_vars

(* Threads are scheduled, `_mtx` is handed to whoever keeps asking for it,  *)
(* and every WorkProc() returns.  No fairness for spurious wake-ups nor for *)
(* the calls the producer may make.                                         *)
Fairness == /\ \A w \in Threads : WF_vars(WorkerStep(w))
            /\ WF_vars(CallStep)

FairSpec == Spec /\ Fairness

-----------------------------------------------------------------------------
(* Properties *)

FlagsOK == stopping \in BOOLEAN /\ notifyOnDone \in BOOLEAN

TypeOK ==
    /\ FlagsOK
    /\ backlog \in Seq(Items)
    /\ done \subseteq Nat \X Items
    /\ working \in Int
    /\ doneCounter \in Nat
    /\ finalizedCounter \in Nat
    /\ pc \in [Threads -> {"off", "lock", "work", "exit"}]
    /\ twi \in [Threads -> Items \cup {None}]
    /\ seq \in [Threads -> Nat]
    /\ waiting \subseteq Threads \cup {Producer}
    /\ main \in {"idle", "queue", "sync", "finalize", "destroy", "join",
                 "discard", "freed"}
    /\ limit \in Nat
    /\ syncItem \in Items \cup {None}
    /\ oid \in Seq(Items)
    /\ queued \in Seq(Items)
    /\ processed \subseteq Items
    /\ destroyed \in Seq(Items)
    /\ synced \in Nat

(* Items are deleted in the order in which they were queued, whatever the   *)
(* order in which the workers finish them, whichever call deletes them.     *)
DestroyedInQueueOrder ==
    \A k \in 1 .. Len(destroyed) :
        k <= Len(queued) /\ destroyed[k] = queued[k]

(* The destructor leaves no item behind, processed or not.                  *)
NothingLeaked == main = "freed" => Len(destroyed) = Len(queued)

(* An item inside WorkProc(), or about to be handed over, is not deleted.   *)
NoUseAfterDelete ==
    \A w \in Threads : twi[w] # None => twi[w] \notin InSeq(destroyed)

(* No lost wake-up on the shared condition variable: while an item waits in *)
(* the backlog some worker is awake, and as long as another one sleeps, an  *)
(* awake one has its hands free and is about to look into the backlog.      *)
BacklogIsAttended ==
    backlog # <<>> =>
        \/ \E w \in Workers \ waiting : pc[w] = "lock" /\ twi[w] = None
        \/ Workers # {} /\ Workers \cap waiting = {}

(* A sleeping producer has asked to be notified, and some item is still on  *)
(* its way whose completion will do so.                                     *)
ProducerWillBeNotified ==
    Producer \in waiting => notifyOnDone /\ (working > 0 \/ backlog # <<>>)

(* _working counts the items in the workers' hands; the destructor asserts  *)
(* that it is 0 once they are joined (line 53).                             *)
Busy == {w \in Threads : twi[w] # None}
WorkingIsExact ==
    /\ working = Cardinality(Busy)
    /\ main \in {"discard", "freed"} => working = 0

(* When Finalize() returns every item queued so far was processed and is    *)
(* handed to the caller: none is stuck behind a gap in the sequence.        *)
FinalizeDrains ==
    [][main = "finalize" /\ main' = "destroy" =>
          Len(destroyed) + Len(oid') = Len(queued) /\ InSeq(queued) \subseteq processed]_vars

(* Every call the producer makes returns, whichever worker steps first.     *)
CallsReturn == main # "idle" ~> main \in {"idle", "freed"}

(* The pool implements what its header promises.                            *)
Abstract == INSTANCE OrderedWorkQueue
                WITH closing <- main \in {"join", "discard", "freed"}
ImplementsOrderedWorkQueue == Abstract!Spec

-----------------------------------------------------------------------------
(* The inductive invariant *)

(* Where a worker is, what it holds, and who may sleep when.                *)
ThreadStates ==
    /\ \A w \in Threads :
          /\ pc[w] = "work" => twi[w] # None
          /\ pc[w] \in {"off", "exit"} => twi[w] = None
          /\ pc[w] = "exit" => stopping
          /\ w \in waiting => pc[w] = "lock" /\ twi[w] = None
    /\ stopping => main \in {"join", "discard", "freed"} /\ waiting = {}
    /\ main \in {"discard", "freed"} =>
          \A w \in Threads : pc[w] \in {"off", "exit"}
    /\ Producer \in waiting => main \in {"queue", "finalize"}
    /\ main = "sync" => syncItem \in Items /\ Workers = {}

(* Two items in the backlog never leave a worker asleep: the second one was *)
(* announced with notify_all().                                             *)
TwoWakeAll == Len(backlog) >= 2 => Workers \cap waiting = {}

WakeInv == /\ TypeOK
           /\ ThreadStates
           /\ WorkingIsExact
           /\ TwoWakeAll
           /\ BacklogIsAttended
           /\ ProducerWillBeNotified

(* A position in `queued` tells where its item is: the first Len(destroyed) *)
(* are deleted, the next ones are in oid, those up to Numbered were given   *)
(* a sequence number, and the rest is in the backlog.                       *)
Numbered == Len(queued) - Len(backlog)
Fetched  == Len(destroyed) + Len(oid)

Positions ==
    /\ \A k \in 1 .. Len(backlog) : backlog[k] = queued[Numbered + k]
    /\ Fetched <= Numbered
    /\ \A k \in 1 .. Len(oid) : oid[k] = queued[Len(destroyed) + k]
    /\ \A j, k \in 1 .. Len(queued) : queued[j] = queued[k] => j = k
    /\ DestroyedInQueueOrder

(* _finalized_counter marks the end of the fetched part, _done_counter the  *)
(* end of the numbered one.                                                 *)
Counters ==
    /\ main \notin {"sync", "discard", "freed"} =>
          Fetched = synced + finalizedCounter
    /\ main \notin {"discard", "freed"} => Numbered = synced + doneCounter
    /\ Workers = {} => doneCounter = 0 /\ backlog = <<>>
    /\ main \notin {"destroy"} => oid = <<>>
    /\ main = "freed" => done = {} /\ backlog = <<>>
    /\ main = "sync" => /\ syncItem = queued[Len(queued)]
                        /\ Len(queued) = Len(destroyed) + 1
                        /\ finalizedCounter = 0 /\ done = {}

(* Every numbered position that was not fetched yet is in _done or in the   *)
(* hands of exactly one worker, and nothing else is there.                  *)
DoneHas(n) == \E d \in done : synced + d[1] = n
BusyHas(n) == \E w \in Busy : synced + seq[w] = n

InFlight ==
    /\ \A d \in done : /\ Fetched < synced + d[1]
                       /\ synced + d[1] <= Numbered
                       /\ d[2] = queued[synced + d[1]]
    /\ \A w \in Busy : /\ Fetched < synced + seq[w]
                       /\ synced + seq[w] <= Numbered
                       /\ twi[w] = queued[synced + seq[w]]
                       /\ ~ DoneHas(synced + seq[w])
                       /\ \A v \in Busy : seq[v] = seq[w] => v = w
    /\ main # "sync" =>
          \A n \in Fetched + 1 .. Numbered : DoneHas(n) \/ BusyHas(n)

OrderInv == Positions /\ Counters /\ InFlight

(* Which items WorkProc() has returned for: those past the workers, and none *)
(* that is on its way to one.                                               *)
ProcessedInv ==
    /\ \A d \in done : d[2] \in processed
    /\ \A w \in Threads :
          /\ pc[w] = "lock" /\ twi[w] # None => twi[w] \in processed
          /\ pc[w] = "work" => twi[w] \notin processed
    /\ InSeq(oid) \subseteq processed
    /\ main \notin {"discard", "freed"} => InSeq(destroyed) \subseteq processed
    /\ InSeq(backlog) \cap processed = {}
    /\ processed \subseteq InSeq(queued)
=============================================================================
