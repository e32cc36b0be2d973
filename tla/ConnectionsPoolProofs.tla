----------------------- MODULE ConnectionsPoolProofs ------------------------
(***************************************************************************)
(* Proofs, for any number of sites, connections and expiration times, about *)
(* the pool of connections of NetRocks (ConnectionsPool).                   *)
(***************************************************************************)
EXTENDS ConnectionsPool, NaturalSets, TLAPS

-----------------------------------------------------------------------------
(* Facts about the operators the actions are built from. *)

(* The bound of the ages is above all expiration times.                     *)
LEMMA MaxAgeBounds == MaxAge \in Nat /\ \A e \in Expirations : e < MaxAge
  <1> DEFINE max == CHOOSE e \in Expirations : \A f \in Expirations : f <= e
  <1>1. \E e \in Expirations : \A f \in Expirations : f <= e
    BY HasMaximum, ExpirationsAssumption
  <1>2. max \in Expirations /\ \A f \in Expirations : f <= max
    BY <1>1
  <1>3. max \in Nat /\ Expirations \subseteq Nat
    BY <1>2, ExpirationsAssumption
  <1>4. MaxAge = 1 + max
    BY DEF MaxAge
  <1> HIDE DEF max
  <1> QED
    BY <1>2, <1>3, <1>4

(* What it means to be a map of entries.                                    *)
LEMMA EntriesAre ==
  ASSUME NEW p
  PROVE  p \in Entries <=>
            \E D \in SUBSET Ids : p \in [D -> [host : Hosts, age : 0 .. MaxAge]]
  BY DEF Entries

LEMMA EntryTypes ==
  ASSUME NEW p \in Entries
  PROVE  /\ DOMAIN p \subseteq Ids
         /\ \A i \in DOMAIN p : /\ p[i] \in [host : Hosts, age : 0 .. MaxAge]
                                /\ p[i].host \in Hosts
                                /\ p[i].age \in 0 .. MaxAge
  <1>1. PICK D \in SUBSET Ids : p \in [D -> [host : Hosts, age : 0 .. MaxAge]]
    BY EntriesAre
  <1> QED
    BY <1>1

(* Entries that are taken out of the map leave the others alone.            *)
LEMMA WithoutIs ==
  ASSUME NEW p \in Entries, NEW ids
  PROVE  /\ Without(p, ids) \in Entries
         /\ DOMAIN Without(p, ids) = DOMAIN p \ ids
         /\ \A i \in DOMAIN p \ ids : Without(p, ids)[i] = p[i]
  <1>1. Without(p, ids) \in [DOMAIN p \ ids -> [host : Hosts, age : 0 .. MaxAge]]
    BY EntryTypes DEF Without
  <1>2. DOMAIN p \ ids \in SUBSET Ids
    BY EntryTypes
  <1>3. Without(p, ids) \in Entries
    BY <1>1, <1>2, EntriesAre
  <1> QED
    BY <1>3 DEF Without

(* EstimateTimeToSleep() is at most half of the expiration time and one     *)
(* second, and no more than one second after the first expiration.          *)
LEMMA EstimateFits ==
  ASSUME NEW p \in Entries, p = pool, expiration \in Expirations
  PROVE  /\ EstimateTimeToSleep \in 0 .. MaxAge
         /\ \A i \in DOMAIN p : \/ EstimateTimeToSleep <= 1
                                \/ p[i].age + EstimateTimeToSleep <= expiration + 1
  <1> DEFINE left == {expiration - pool[i].age : i \in DOMAIN pool}
             Fits(t) == IF \E l \in left : l <= 0
                        THEN t = 0
                        ELSE /\ \A l \in left : t <= l
                             /\ t = expiration \div 2 \/ t \in left
             half == expiration \div 2
  <1>1. half \in Nat /\ half <= expiration /\ expiration \in Nat
    BY ExpirationsAssumption
  <1>2. left \in SUBSET Int
    BY <1>1, EntryTypes
  <1> HIDE DEF left
  <1>3. \E t \in 0 .. half : Fits(t)
    <2>1. CASE \E l \in left : l <= 0
      BY <1>1, <2>1
    <2>2. CASE ~ \E l \in left : l <= 0
      <3> DEFINE S == left \cup {half}
      <3>0. S \in SUBSET Nat
        BY <1>1, <1>2, <2>2
      <3>1. PICK t \in S : \A l \in S : t <= l
        <4> HIDE DEF S
        <4>1. S # {}
          BY DEF S
        <4> QED
          BY <3>0, <4>1, HasMinimum
      <3>2. t \in 0 .. half
        BY <3>0, <3>1
      <3> QED
        BY <2>2, <3>1, <3>2
    <2> QED
      BY <2>1, <2>2
  <1>4. PICK t \in 0 .. half : Fits(t) /\ EstimateTimeToSleep = 1 + t
    <2> DEFINE t == CHOOSE t \in 0 .. half : Fits(t)
    <2>1. t \in 0 .. half /\ Fits(t)
      BY <1>3
    <2>2. EstimateTimeToSleep = 1 + t
      BY DEF EstimateTimeToSleep, left
    <2> HIDE DEF t
    <2> QED
      BY <2>1, <2>2
  <1>5. EstimateTimeToSleep \in 0 .. MaxAge
    BY <1>1, <1>4, MaxAgeBounds
  <1>6. ASSUME NEW i \in DOMAIN p
        PROVE  \/ EstimateTimeToSleep <= 1
               \/ p[i].age + EstimateTimeToSleep <= expiration + 1
    <2>1. expiration - p[i].age \in left
      BY DEF left
    <2>2. p[i].age \in Nat
      BY EntryTypes
    <2> QED
      BY <1>1, <1>2, <1>4, <2>1, <2>2
  <1> QED
    BY <1>5, <1>6

-----------------------------------------------------------------------------
(* The inductive invariant. *)

(* The flags of Threaded say whether there is a thread.                     *)
ThreadIsKnown == /\ trdExited <=> thread = "none"
                 /\ trdJoined => trdExited

(* Purged hosts exist only where they are destroyed.                        *)
PurgedsAreTaken == /\ thread # "destroying" => threadPurgeds = {}
                   /\ main \notin {"purge", "exit"} => mainPurgeds = {}

(* A thread that has computed its time and is about to sleep has the mutex: *)
(* nothing is put before it sleeps.                                         *)
EstimateFitsEntries ==
    thread \in {"estimated", "asleep"} /\ main # "settings" =>
        \A i \in DOMAIN pool :
            sleep <= 1 \/ pool[i].age + sleep <= expiration + 1

(* Nothing is put after the destructor has purged all.                      *)
NothingIsPutAtTheEnd == /\ main \in {"exit", "join", "gone"} => DOMAIN pool = {}
                        /\ main = "gone" => trdJoined

IInv == /\ TypeOK
        /\ OneOwner
        /\ ThreadIsKnown
        /\ PurgedsAreTaken
        /\ EstimateFitsEntries
        /\ NothingIsPutAtTheEnd

(* Telling the thread, or starting one, wakes one that sleeps and leaves    *)
(* alone what a running one does.                                           *)
LEMMA ThreadIsTold ==
  ASSUME TypeOK, ThreadIsKnown,
         \/ StartThreadOK /\ thread' = "lock" /\ sleep' = 0
         \/ StartThreadFails /\ NotifyAll
         \/ NotifyAll /\ UNCHANGED trdVars
  PROVE  /\ ThreadIsKnown'
         /\ thread' \in ThreadStates /\ sleep' \in 0 .. MaxAge
         /\ trdExited' \in BOOLEAN /\ trdJoined' \in BOOLEAN
         /\ thread' # "asleep"
         /\ thread' = "destroying" <=> thread = "destroying"
         /\ thread' = "estimated" => thread = "estimated"
  <1> USE DEF TypeOK, ThreadedTypeOK, ThreadIsKnown, StillRunning, ThreadStates,
              InLoop
  <1>1. 0 \in 0 .. MaxAge
    BY MaxAgeBounds
  <1>2. CASE StartThreadOK /\ thread' = "lock" /\ sleep' = 0
    BY <1>1, <1>2 DEF StartThreadOK
  <1>3. CASE StartThreadFails /\ NotifyAll
    <2>1. trdExited' \in BOOLEAN /\ trdJoined' \in BOOLEAN
      BY <1>3 DEF StartThreadFails, trdVars
    <2>2. ~trdExited => UNCHANGED trdVars
      BY <1>3 DEF StartThreadFails
    <2>3. trdExited => trdExited' /\ thread = "none"
      BY <1>3 DEF StartThreadFails, trdVars
    <2>4. ThreadIsKnown'
      BY <1>3, <2>2, <2>3 DEF StartThreadFails, NotifyAll, trdVars
    <2> QED
      BY <1>1, <1>3, <2>1, <2>4 DEF NotifyAll
  <1>4. CASE NotifyAll /\ UNCHANGED trdVars
    BY <1>1, <1>4 DEF NotifyAll, trdVars
  <1> QED
    BY <1>2, <1>3, <1>4

LEMMA InitInv == Init => IInv
  <1> SUFFICES ASSUME Init PROVE IInv
    OBVIOUS
  <1>1. << >> \in Entries
    <2>1. << >> \in [{} -> [host : Hosts, age : 0 .. MaxAge]]
      OBVIOUS
    <2> QED
      BY <2>1, EntriesAre
  <1>2. DOMAIN << >> = {}
    OBVIOUS
  <1> QED
    BY <1>1, <1>2, MaxAgeBounds
       DEF Init, ThreadedInit, IInv, TypeOK, ThreadedTypeOK, ThreadStates,
           InLoop, OneOwner, Used, Pooled, ThreadIsKnown, PurgedsAreTaken,
           EstimateFitsEntries, NothingIsPutAtTheEnd

-----------------------------------------------------------------------------
(* Steps of the main thread. *)

(* Get(): the host changes hands, from the pool to the panel.               *)
LEMMA GetStep ==
  ASSUME IInv, NEW i \in Ids, Get(i)
  PROVE  IInv'
  <1> USE DEF IInv
  <1>1. /\ main = "idle" /\ MutexIsFree /\ i \in DOMAIN pool
        /\ remotes' = remotes \cup {[id |-> i, host |-> pool[i].host]}
        /\ pool' = Without(pool, {i})
        /\ UNCHANGED <<threadPurgeds, mainPurgeds, main, expiration>>
    BY DEF Get
  <1>2. /\ ThreadIsKnown'
        /\ thread' \in ThreadStates /\ sleep' \in 0 .. MaxAge
        /\ trdExited' \in BOOLEAN /\ trdJoined' \in BOOLEAN
        /\ thread' # "asleep"
        /\ thread' = "destroying" <=> thread = "destroying"
        /\ thread' = "estimated" => thread = "estimated"
    BY ThreadIsTold DEF Get, UpdateThreadState
  <1>3. /\ pool' \in Entries
        /\ DOMAIN pool' = DOMAIN pool \ {i}
        /\ \A j \in DOMAIN pool \ {i} : pool'[j] = pool[j]
    BY <1>1, WithoutIs DEF TypeOK
  <1>4. TypeOK'
    BY <1>1, <1>2, <1>3, EntryTypes DEF TypeOK, ThreadedTypeOK
  <1>5. OneOwner'
    BY <1>1, <1>3 DEF OneOwner, Used, Pooled
  <1>6. PurgedsAreTaken' /\ EstimateFitsEntries' /\ NothingIsPutAtTheEnd'
    BY <1>1, <1>2 DEF MutexIsFree, PurgedsAreTaken, EstimateFitsEntries,
         NothingIsPutAtTheEnd
  <1> QED
    BY <1>2, <1>4, <1>5, <1>6

(* A new connection has a host of its own.                                  *)
LEMMA ConnectStep ==
  ASSUME IInv, NEW i \in Ids, NEW h \in Hosts, Connect(i, h)
  PROVE  IInv'
  <1> USE DEF IInv, Connect, trdVars
  <1>1. TypeOK'
    BY DEF TypeOK, ThreadedTypeOK
  <1>2. OneOwner'
    BY DEF OneOwner, Used, Pooled
  <1> QED
    BY <1>1, <1>2 DEF ThreadIsKnown, PurgedsAreTaken, EstimateFitsEntries,
         NothingIsPutAtTheEnd

(* Put(): the panel's host goes to the pool, or straight to purgeds, with   *)
(* those that are replaced or have expired.                                 *)
LEMMA PutStep ==
  ASSUME IInv, NEW r \in remotes, Put(r)
  PROVE  IInv'
  <1> USE DEF IInv
  <1> DEFINE replaced == HostsAt(pool, {r.id} \cap DOMAIN pool)
             placed == [i \in DOMAIN pool \cup {r.id} |->
                          IF i = r.id THEN [host |-> r.host, age |-> 0]
                                      ELSE pool[i]]
  <1>1. /\ main = "idle" /\ MutexIsFree
        /\ pool' = PurgeExpired(placed)
        /\ mainPurgeds' = replaced \cup HostsAt(placed, Expired(placed))
        /\ remotes' = remotes \ {r}
        /\ main' = IF mainPurgeds' = {} THEN "idle" ELSE "purge"
        /\ UNCHANGED <<threadPurgeds, expiration>>
    BY DEF Put
  <1>2. /\ ThreadIsKnown'
        /\ thread' \in ThreadStates /\ sleep' \in 0 .. MaxAge
        /\ trdExited' \in BOOLEAN /\ trdJoined' \in BOOLEAN
        /\ thread' # "asleep"
        /\ thread' = "destroying" <=> thread = "destroying"
        /\ thread' = "estimated" => thread = "estimated"
    BY ThreadIsTold DEF Put, UpdateThreadState
  <1>3. r.id \in Ids /\ r.host \in Hosts
    BY DEF TypeOK
  <1>4. /\ placed \in Entries
        /\ DOMAIN placed = DOMAIN pool \cup {r.id}
        /\ placed[r.id].host = r.host
        /\ \A j \in DOMAIN pool \ {r.id} : placed[j] = pool[j]
    <2>1. placed \in [DOMAIN pool \cup {r.id} -> [host : Hosts, age : 0 .. MaxAge]]
      BY <1>3, EntryTypes, MaxAgeBounds DEF TypeOK
    <2>2. DOMAIN pool \cup {r.id} \in SUBSET Ids
      BY <1>3, EntryTypes DEF TypeOK
    <2>3. placed \in Entries
      BY <2>1, <2>2, EntriesAre
    <2> QED
      BY <2>3
  <1>5. /\ replaced = {pool[j].host : j \in {r.id} \cap DOMAIN pool}
    BY DEF HostsAt
  <1> HIDE DEF placed, replaced
  <1>6. /\ pool' \in Entries
        /\ DOMAIN pool' = DOMAIN placed \ Expired(placed)
        /\ \A j \in DOMAIN placed \ Expired(placed) : pool'[j] = placed[j]
    <2> DEFINE rest == Without(placed, Expired(placed))
    <2>1. pool' = rest
      BY <1>1 DEF PurgeExpired
    <2>2. /\ rest \in Entries
          /\ DOMAIN rest = DOMAIN placed \ Expired(placed)
          /\ \A j \in DOMAIN placed \ Expired(placed) : rest[j] = placed[j]
      BY <1>4, WithoutIs, Zenon
    <2> HIDE DEF rest
    <2> QED
      BY <2>1, <2>2
  <1>7. mainPurgeds' = replaced \cup {placed[j].host : j \in Expired(placed)}
    BY <1>1 DEF HostsAt
  <1>8. Expired(placed) \subseteq DOMAIN placed
    BY DEF Expired
  <1>9. TypeOK'
    <2>1. mainPurgeds' \subseteq Hosts
      BY <1>4, <1>5, <1>7, <1>8, EntryTypes DEF TypeOK
    <2> QED
      BY <1>1, <1>2, <1>6, <2>1 DEF TypeOK, ThreadedTypeOK
  <1>10. OneOwner'
    <2>1. mainPurgeds = {}
      BY <1>1 DEF PurgedsAreTaken
    <2> HIDE DEF IInv
    <2>2. OneOwner
      BY DEF IInv
    <2>3. \A s \in remotes' : s \in remotes /\ s.host # r.host
      BY <1>1, <2>2 DEF OneOwner
    <2>4. \A j \in DOMAIN placed : j = r.id \/ j \in DOMAIN pool
      BY <1>4
    <2>5. \A j, k \in DOMAIN placed : placed[j].host = placed[k].host => j = k
      BY <1>4, <2>2 DEF OneOwner, Used, Pooled
    <2>6. \A j \in DOMAIN placed : /\ placed[j].host \notin Used'
                                   /\ placed[j].host \notin replaced
                                   /\ placed[j].host \notin threadPurgeds
      BY <1>1, <1>4, <1>5, <2>2, <2>3 DEF OneOwner, Used, Pooled
    <2>7. replaced \cap (Used' \cup threadPurgeds) = {}
      BY <1>5, <2>2, <2>3 DEF OneOwner, Used, Pooled
    <2>8. \A s, t \in remotes' : s.host = t.host => s = t
      BY <2>2, <2>3 DEF OneOwner
    <2>9. Used' \cap threadPurgeds = {}
      BY <2>2, <2>3 DEF OneOwner, Used
    <2> QED
      BY <1>1, <1>6, <1>7, <1>8, <2>5, <2>6, <2>7, <2>8, <2>9 DEF OneOwner, Pooled
  <1>11. PurgedsAreTaken' /\ EstimateFitsEntries' /\ NothingIsPutAtTheEnd'
    BY <1>1, <1>2 DEF MutexIsFree, PurgedsAreTaken, EstimateFitsEntries,
         NothingIsPutAtTheEnd
  <1> QED
    BY <1>2, <1>9, <1>10, <1>11

(* A dead host is closed by the panel.                                      *)
LEMMA DropDeadStep ==
  ASSUME IInv, NEW r \in remotes, DropDead(r)
  PROVE  IInv'
  <1> USE DEF IInv, DropDead, trdVars
  <1>1. TypeOK'
    BY DEF TypeOK, ThreadedTypeOK
  <1>2. OneOwner'
    BY DEF OneOwner, Used, Pooled, PurgedsAreTaken
  <1> QED
    BY <1>1, <1>2 DEF ThreadIsKnown, PurgedsAreTaken, EstimateFitsEntries,
         NothingIsPutAtTheEnd

(* PurgeAll() and the destructor.                                           *)
LEMMA PurgeAllStep ==
  ASSUME IInv, NEW next \in {"purge", "exit"}, PurgeAll(next)
  PROVE  IInv'
  <1> USE DEF IInv
  <1>1. /\ main = "idle" /\ MutexIsFree
        /\ mainPurgeds' = Pooled
        /\ pool' = << >>
        /\ main' = next
        /\ UNCHANGED <<trdVars, remotes, threadPurgeds, expiration>>
    BY DEF PurgeAll
  <1>2. /\ ThreadIsKnown'
        /\ thread' \in ThreadStates /\ sleep' \in 0 .. MaxAge
        /\ trdExited' \in BOOLEAN /\ trdJoined' \in BOOLEAN
        /\ thread' # "asleep"
        /\ thread' = "destroying" <=> thread = "destroying"
        /\ thread' = "estimated" => thread = "estimated"
    BY ThreadIsTold DEF PurgeAll
  <1>3. pool' \in Entries /\ DOMAIN pool' = {}
    <2>1. << >> \in [{} -> [host : Hosts, age : 0 .. MaxAge]]
      OBVIOUS
    <2> QED
      BY <1>1, <2>1, EntriesAre
  <1>4. TypeOK'
    BY <1>1, <1>2, <1>3, EntryTypes DEF TypeOK, ThreadedTypeOK, Pooled
  <1>5. OneOwner'
    BY <1>1, <1>3 DEF OneOwner, Used, Pooled, PurgedsAreTaken
  <1>6. PurgedsAreTaken' /\ EstimateFitsEntries' /\ NothingIsPutAtTheEnd'
    BY <1>1, <1>2, <1>3 DEF MutexIsFree, PurgedsAreTaken, EstimateFitsEntries,
         NothingIsPutAtTheEnd
  <1> QED
    BY <1>2, <1>4, <1>5, <1>6

(* The other steps of the main thread.  A setting may change while the      *)
(* thread is about to sleep: it is woken when the pool is told, which needs *)
(* the mutex.                                                               *)
LEMMA SettingsStep ==
  ASSUME IInv,
         \/ \E e \in Expirations \ {expiration} : ChangeSetting(e)
         \/ OnGlobalSettingsChanged
  PROVE  IInv'
  <1>1. ASSUME NEW e \in Expirations \ {expiration}, ChangeSetting(e) PROVE IInv'
    BY <1>1 DEF ChangeSetting, IInv, TypeOK, ThreadedTypeOK, OneOwner, Used,
         Pooled, ThreadIsKnown, PurgedsAreTaken, EstimateFitsEntries,
         NothingIsPutAtTheEnd, trdVars, hostVars
  <1>2. CASE OnGlobalSettingsChanged
    <2>1. /\ thread' \in ThreadStates /\ sleep' \in 0 .. MaxAge
          /\ thread' # "asleep" /\ ThreadIsKnown'
          /\ thread' = "destroying" <=> thread = "destroying"
          /\ thread' = "estimated" => thread = "estimated"
      BY <1>2, ThreadIsTold DEF OnGlobalSettingsChanged, IInv
    <2> QED
      BY <1>2, <2>1 DEF OnGlobalSettingsChanged, IInv, TypeOK, ThreadedTypeOK,
         OneOwner, Used, Pooled, ThreadIsKnown, PurgedsAreTaken,
         EstimateFitsEntries, NothingIsPutAtTheEnd, trdVars, hostVars,
         MutexIsFree
  <1> QED
    BY <1>1, <1>2

LEMMA DestroyStep ==
  ASSUME IInv, DestroyPurgeds \/ WaitThread
  PROVE  IInv'
  <1>1. CASE DestroyPurgeds
    BY <1>1 DEF DestroyPurgeds, IInv, TypeOK, ThreadedTypeOK, OneOwner, Used,
       Pooled, ThreadIsKnown, PurgedsAreTaken, EstimateFitsEntries,
       NothingIsPutAtTheEnd, trdVars
  <1>2. CASE WaitThread
    BY <1>2 DEF WaitThread, ThreadWaited, IInv, TypeOK, ThreadedTypeOK,
       OneOwner, Used, Pooled, ThreadIsKnown, PurgedsAreTaken,
       EstimateFitsEntries, NothingIsPutAtTheEnd, trdVars, hostVars
  <1> QED
    BY <1>1, <1>2

-----------------------------------------------------------------------------
(* Steps of the thread. *)

(* At the head of the loop, with the mutex: the time to sleep fits what is  *)
(* in the map.                                                              *)
LEMMA LoopConditionStep ==
  ASSUME IInv, LoopCondition
  PROVE  IInv'
  <1> USE DEF IInv
  <1>1. /\ thread \in {"lock", "loop"}
        /\ UNCHANGED <<trdVars, hostVars, main, expiration>>
    BY DEF LoopCondition
  <1>2. CASE DOMAIN pool = {}
    BY <1>1, <1>2 DEF LoopCondition, TypeOK, ThreadedTypeOK, ThreadStates,
       InLoop, OneOwner, Used, Pooled, ThreadIsKnown, PurgedsAreTaken,
       EstimateFitsEntries, NothingIsPutAtTheEnd, trdVars, hostVars
  <1>3. CASE DOMAIN pool # {}
    <2>1. thread' = "estimated" /\ sleep' = EstimateTimeToSleep
      BY <1>3 DEF LoopCondition
    <2>2. sleep' \in 0 .. MaxAge
      BY <2>1, EstimateFits DEF TypeOK
    <2>3. \A i \in DOMAIN pool :
              sleep' <= 1 \/ pool[i].age + sleep' <= expiration + 1
      BY <2>1, EstimateFits DEF TypeOK
    <2> QED
      BY <1>1, <2>1, <2>2, <2>3 DEF TypeOK, ThreadedTypeOK, ThreadStates,
         InLoop, OneOwner, Used, Pooled, ThreadIsKnown, PurgedsAreTaken,
         EstimateFitsEntries, NothingIsPutAtTheEnd, trdVars, hostVars
  <1> QED
    BY <1>2, <1>3

(* Falling asleep, being woken, and the end of the thread.                  *)
LEMMA SleepStep ==
  ASSUME IInv, FallAsleep \/ TimedOut \/ SpuriousWakeup \/ Exit
  PROVE  IInv'
  <1> USE MaxAgeBounds
      DEF IInv, TypeOK, ThreadedTypeOK, ThreadStates, InLoop, OneOwner, Used,
          Pooled, ThreadIsKnown, PurgedsAreTaken, EstimateFitsEntries,
          NothingIsPutAtTheEnd, trdVars, hostVars
  <1>1. CASE FallAsleep
    BY <1>1 DEF FallAsleep
  <1>2. CASE TimedOut \/ SpuriousWakeup
    BY <1>2 DEF TimedOut, SpuriousWakeup
  <1>3. CASE Exit
    BY <1>3 DEF Exit, ThreadExits
  <1> QED
    BY <1>1, <1>2, <1>3

(* The expired entries change hands, from the pool to the thread's purgeds. *)
LEMMA PurgeStep ==
  ASSUME IInv, Purge
  PROVE  IInv'
  <1> USE DEF IInv
  <1>1. /\ thread = "woken"
        /\ threadPurgeds' = {pool[i].host : i \in Expired(pool)}
        /\ pool' = Without(pool, Expired(pool))
        /\ thread' = IF Expired(pool) = {} THEN "loop" ELSE "destroying"
        /\ UNCHANGED <<trdExited, trdJoined, remotes, mainPurgeds, sleep, main,
                       expiration>>
    BY DEF Purge, PurgeExpired, HostsAt, trdVars
  <1>2. Expired(pool) \subseteq DOMAIN pool
    BY DEF Expired
  <1>3. /\ pool' \in Entries
        /\ DOMAIN pool' = DOMAIN pool \ Expired(pool)
        /\ \A j \in DOMAIN pool \ Expired(pool) : pool'[j] = pool[j]
    BY <1>1, WithoutIs DEF TypeOK
  <1>4. TypeOK'
    BY <1>1, <1>2, <1>3, EntryTypes DEF TypeOK, ThreadedTypeOK, ThreadStates, InLoop
  <1>5. OneOwner'
    BY <1>1, <1>2, <1>3 DEF OneOwner, Used, Pooled
  <1> QED
    BY <1>1, <1>2, <1>3, <1>4, <1>5 DEF ThreadIsKnown, PurgedsAreTaken,
       EstimateFitsEntries, NothingIsPutAtTheEnd

LEMMA DestroyPurgedStep ==
  ASSUME IInv, DestroyPurged
  PROVE  IInv'
  BY DEF DestroyPurged, IInv, TypeOK, ThreadedTypeOK, ThreadStates, InLoop,
     OneOwner, Used, Pooled, ThreadIsKnown, PurgedsAreTaken,
     EstimateFitsEntries, NothingIsPutAtTheEnd, trdVars

(* As a second passes every entry gets older by at most one second, and the *)
(* rest of the sleep shorter by one.                                        *)
LEMMA TickStep ==
  ASSUME IInv, Tick
  PROVE  IInv'
  <1> USE DEF IInv
  <1>1. /\ \/ thread \in {"none", "destroying"}
           \/ thread = "asleep" /\ sleep > 0
        /\ pool' = [i \in DOMAIN pool |->
                      [pool[i] EXCEPT !.age = IF @ < MaxAge THEN @ + 1 ELSE @]]
        /\ sleep' = IF thread = "asleep" THEN sleep - 1 ELSE sleep
        /\ UNCHANGED <<trdExited, trdJoined, remotes, threadPurgeds,
                       mainPurgeds, thread, main, expiration>>
    BY DEF Tick, trdVars
  <1>2. /\ DOMAIN pool' = DOMAIN pool
        /\ \A i \in DOMAIN pool :
              /\ pool'[i] \in [host : Hosts, age : 0 .. MaxAge]
              /\ pool'[i].host = pool[i].host
              /\ pool'[i].age <= pool[i].age + 1
    BY <1>1, EntryTypes, MaxAgeBounds DEF TypeOK
  <1>3. pool' \in Entries
    <2>1. pool' \in [DOMAIN pool -> [host : Hosts, age : 0 .. MaxAge]]
      BY <1>1, <1>2
    <2>2. DOMAIN pool \in SUBSET Ids
      BY EntryTypes DEF TypeOK
    <2> QED
      BY <2>1, <2>2, EntriesAre
  <1>4. sleep' \in 0 .. MaxAge
    BY <1>1, MaxAgeBounds DEF TypeOK
  <1>5. TypeOK'
    BY <1>1, <1>3, <1>4 DEF TypeOK, ThreadedTypeOK
  <1>6. OneOwner'
    <2>1. Pooled' = Pooled
      BY <1>2 DEF Pooled
    <2>2. Used' = Used
      BY <1>1 DEF Used
    <2>3. \A i, j \in DOMAIN pool' : pool'[i].host = pool'[j].host => i = j
      BY <1>2 DEF OneOwner
    <2> QED
      BY <1>1, <2>1, <2>2, <2>3 DEF OneOwner
  <1>7. EstimateFitsEntries'
    <2> SUFFICES ASSUME thread = "asleep", main # "settings", NEW i \in DOMAIN pool
                 PROVE  sleep' <= 1 \/ pool'[i].age + sleep' <= expiration + 1
      BY <1>1, <1>2 DEF EstimateFitsEntries
    <2>1. sleep <= 1 \/ pool[i].age + sleep <= expiration + 1
      BY DEF EstimateFitsEntries
    <2>2. /\ sleep' = sleep - 1 /\ sleep \in Nat /\ expiration \in Nat
          /\ pool[i].age \in Nat /\ pool'[i].age \in Nat
      BY <1>1, <1>2, EntryTypes, MaxAgeBounds, ExpirationsAssumption DEF TypeOK
    <2> QED
      BY <1>2, <2>1, <2>2
  <1> QED
    BY <1>1, <1>2, <1>5, <1>6, <1>7 DEF ThreadIsKnown, PurgedsAreTaken,
       NothingIsPutAtTheEnd

-----------------------------------------------------------------------------
(* The invariant in every behaviour, and what it is there for. *)

LEMMA StepInv == IInv /\ [Next]_vars => IInv'
  <1> SUFFICES ASSUME IInv, [Next]_vars PROVE IInv'
    OBVIOUS
  <1>1. CASE MainStep
    BY <1>1, DestroyStep, SettingsStep DEF MainStep
  <1>2. CASE ThreadStep
    BY <1>2, LoopConditionStep, SleepStep, PurgeStep, DestroyPurgedStep
       DEF ThreadStep
  <1>3. CASE UserAction
    <2>1. ASSUME NEW i \in Ids, Get(i) PROVE IInv'
      BY <2>1, GetStep
    <2>2. ASSUME NEW i \in Ids, NEW h \in Hosts, Connect(i, h) PROVE IInv'
      BY <2>2, ConnectStep
    <2>3. ASSUME NEW r \in remotes, Put(r) \/ DropDead(r) PROVE IInv'
      BY <2>3, PutStep, DropDeadStep
    <2>4. ASSUME NEW next \in {"purge", "exit"}, PurgeAll(next) PROVE IInv'
      BY <2>4, PurgeAllStep
    <2>5. ASSUME NEW e \in Expirations \ {expiration}, ChangeSetting(e) PROVE IInv'
      BY <2>5, SettingsStep
    <2> QED
      BY <1>3, <2>1, <2>2, <2>3, <2>4, <2>5 DEF UserAction
  <1>4. CASE SpuriousWakeup
    BY <1>4, SleepStep
  <1>5. CASE Tick
    BY <1>5, TickStep
  <1>6. CASE UNCHANGED vars
    BY <1>6 DEF vars, hostVars, trdVars, IInv, TypeOK, ThreadedTypeOK, OneOwner,
       Used, Pooled, ThreadIsKnown, PurgedsAreTaken, EstimateFitsEntries,
       NothingIsPutAtTheEnd
  <1> QED
    BY <1>1, <1>2, <1>3, <1>4, <1>5, <1>6 DEF Next, Terminated

LEMMA Invariance == Spec => []IInv
  BY InitInv, StepInv, PTL DEF Spec

(* Types, with the time to sleep never above the largest expiration time    *)
(* and a second.                                                            *)
THEOREM TypeCorrect == Spec => []TypeOK
  <1>1. IInv => TypeOK
    BY DEF IInv
  <1> QED
    BY <1>1, Invariance, PTL

(* A connection is used by one panel, pooled once, or being closed by one   *)
(* thread: Get(), Put() and the timer never destroy what somebody uses.     *)
THEOREM HostsHaveOneOwner == Spec => []OneOwner
  <1>1. IInv => OneOwner
    BY DEF IInv
  <1> QED
    BY <1>1, Invariance, PTL

(* The thread never sleeps past the first expiration by more than a second, *)
(* whatever is put or set while it is about to sleep.                       *)
THEOREM SleepIsShortEnough == Spec => []SleepFitsEntries
  <1>1. IInv => SleepFitsEntries
    BY DEF IInv, EstimateFitsEntries, SleepFitsEntries
  <1> QED
    BY <1>1, Invariance, PTL

(* When the destructor has returned the thread was joined, so ~Threaded()   *)
(* does not ABORT(), and no host is left in anybody's hands.                *)
NothingIsLeft == main = "gone" => /\ MayBeDestroyed
                                  /\ Pooled \cup threadPurgeds \cup mainPurgeds = {}

THEOREM DestructorLeavesNothing == Spec => []NothingIsLeft
  <1>1. IInv => NothingIsLeft
    BY DEF IInv, ThreadIsKnown, PurgedsAreTaken, NothingIsPutAtTheEnd,
       NothingIsLeft, MayBeDestroyed, Pooled
  <1> QED
    BY <1>1, Invariance, PTL
=============================================================================
