-------------------------- MODULE ConnectionsPool ---------------------------
(***************************************************************************)
(* plugins/NetRocks/src/ConnectionsPool.cpp: connections that no panel uses *)
(* any more are kept for some seconds, in case the same site is opened      *)
(* again, and closed by a thread that runs while the pool is not empty.     *)
(* The panels, the settings and the destructor belong to the main thread.   *)
(*                                                                          *)
(* The calls of the main thread hold `_mutex` from the first to the last    *)
(* access, so each is one step; the thread leaves the mutex where it waits  *)
(* and where it destroys hosts.  Closing a connection takes time.  Instead  *)
(* of time stamps the model keeps ages; Tick is a second, which does not    *)
(* pass while a thread could run.                                           *)
(***************************************************************************)
EXTENDS Threaded, Integers, FiniteSets

CONSTANTS Ids,          \* CurrentConnectionPoolId()s
          Hosts,        \* connections, reused once they are destroyed
          Expirations   \* values of the setting ConnectionsPoolExpiration

ASSUME ExpirationsAssumption == /\ Expirations \subseteq Nat
                                /\ IsFiniteSet(Expirations)
                                /\ Expirations # {}

VARIABLES
    pool,           \* _id_2_pooled_host: ids to records of a host and its age
    remotes,        \* the panels' _remote, with the id of their location
    threadPurgeds,  \* purgeds of ThreadProc()
    mainPurgeds,    \* purgeds of the main thread's call in progress
    thread,         \* where the thread is
    sleep,          \* seconds after which its wait_for() times out
    main,           \* where the main thread is
    expiration      \* ConnectionsPoolExpiration as the configuration has it

hostVars == <<pool, remotes, threadPurgeds, mainPurgeds>>
vars == <<trdVars, hostVars, thread, sleep, main, expiration>>

(* Ages above the largest expiration are all the same.                      *)
MaxAge == 1 + CHOOSE e \in Expirations : \A f \in Expirations : f <= e

(* The thread is at the head of its loop and wants ("lock") or has ("loop") *)
(* the mutex, is about to wait ("estimated"), waits ("asleep"), was woken   *)
(* ("woken"), destroys hosts ("destroying") or has left the loop, and the   *)
(* mutex, but is not marked as exited ("leaving").                          *)
InLoop == {"lock", "loop", "estimated", "asleep", "woken", "destroying"}
ThreadStates == InLoop \cup {"leaving", "none"}

MutexIsFree == thread \notin {"loop", "estimated"}

Used == {r.host : r \in remotes}
Pooled == {pool[i].host : i \in DOMAIN pool}

Init == /\ ThreadedInit
        /\ pool = << >>
        /\ remotes = {}
        /\ threadPurgeds = {}
        /\ mainPurgeds = {}
        /\ thread = "none"
        /\ sleep = 0
        /\ main = "idle"
        /\ expiration \in Expirations

(* _cond.notify_all()                                                       *)
NotifyAll ==
    IF thread = "asleep"
    THEN thread' = "woken" /\ sleep' = 0
    ELSE UNCHANGED <<thread, sleep>>

-----------------------------------------------------------------------------
(* Variants with one plausible mistake each.                                *)

(* The entries handed to purgeds stay in the map.                           *)
BugPurgeWithoutErase(p) == p

(* Sleeps until the oldest entry expires, although that may have been while *)
(* hosts were destroyed.                                                    *)
BugEstimateTimeToSleep ==
    1 + CHOOSE t \in {expiration - pool[i].age : i \in DOMAIN pool} :
          \A i \in DOMAIN pool : t <= expiration - pool[i].age

(* The notification does not wait for the mutex.                            *)
BugOnGlobalSettingsChanged ==
    /\ main = "settings"
    /\ NotifyAll
    /\ main' = "idle"
    /\ UNCHANGED <<trdVars, hostVars, expiration>>

(* The loop goes on when the pool is empty.                                 *)
BugLoopCondition ==
    /\ thread \in {"lock", "loop"}
    /\ thread' = "estimated"
    /\ sleep' = 1 + expiration \div 2
    /\ UNCHANGED <<trdVars, hostVars, main, expiration>>

(* The loop is left once something was purged.                              *)
BugDestroyPurged ==
    /\ thread = "destroying"
    /\ threadPurgeds' = {}
    /\ thread' = "leaving"
    /\ UNCHANGED <<trdVars, pool, remotes, mainPurgeds, sleep, main,
                   expiration>>

-----------------------------------------------------------------------------
Without(p, ids) == [i \in DOMAIN p \ ids |-> p[i]]

(* PurgeExpired(): which entries go, what remains of the map.               *)
Expired(p) == {i \in DOMAIN p : p[i].age >= expiration}
HostsAt(p, ids) == {p[i].host : i \in ids}
PurgeExpired(p) == Without(p, Expired(p))

(* EstimateTimeToSleep(): half of the expiration time, or until the oldest  *)
(* entry expires if that is sooner; and one second more.                    *)
EstimateTimeToSleep ==
    1 + CHOOSE t \in 0 .. expiration \div 2 :
          LET left == {expiration - pool[i].age : i \in DOMAIN pool}
          IN  IF \E l \in left : l <= 0
              THEN t = 0
              ELSE /\ \A l \in left : t <= l
                   /\ t = expiration \div 2 \/ t \in left

(* UpdateThreadState() with the map p: start a thread for a map that is not *)
(* empty; whenever none was started, tell the one that may be there.        *)
UpdateThreadState(p) ==
    \/ DOMAIN p # {} /\ StartThreadOK /\ thread' = "lock" /\ sleep' = 0
    \/ DOMAIN p # {} /\ StartThreadFails /\ NotifyAll
    \/ DOMAIN p = {} /\ NotifyAll /\ UNCHANGED trdVars

-----------------------------------------------------------------------------
(* The main thread                                                          *)

(* A panel opens location i: Get(), or a new connection if there is none in *)
(* the pool.                                                                *)
Get(i) ==
    /\ main = "idle"
    /\ MutexIsFree
    /\ i \in DOMAIN pool
    /\ remotes' = remotes \cup {[id |-> i, host |-> pool[i].host]}
    /\ pool' = Without(pool, {i})
    /\ UpdateThreadState(pool')
    /\ UNCHANGED <<threadPurgeds, mainPurgeds, main, expiration>>

Connect(i, h) ==
    /\ main = "idle"
    /\ MutexIsFree
    /\ i \notin DOMAIN pool
    /\ h \notin Used \cup Pooled \cup threadPurgeds \cup mainPurgeds
    /\ remotes' = remotes \cup {[id |-> i, host |-> h]}
    /\ UNCHANGED <<trdVars, pool, threadPurgeds, mainPurgeds, thread, sleep,
                   main, expiration>>

(* DismissRemoteHost(): a panel leaves the site and Put()s the host, which  *)
(* takes the place of one that is there already.                            *)
Put(r) ==
    /\ main = "idle"
    /\ MutexIsFree
    /\ r \in remotes
    /\ LET replaced == HostsAt(pool, {r.id} \cap DOMAIN pool)
           placed == [i \in DOMAIN pool \cup {r.id} |->
                        IF i = r.id THEN [host |-> r.host, age |-> 0]
                                    ELSE pool[i]]
       IN  /\ pool' = PurgeExpired(placed)
           /\ mainPurgeds' = replaced \cup HostsAt(placed, Expired(placed))
           /\ UpdateThreadState(pool')
    /\ remotes' = remotes \ {r}
    /\ main' = IF mainPurgeds' = {} THEN "idle" ELSE "purge"
    /\ UNCHANGED <<threadPurgeds, expiration>>

(* Put() refuses a host that is not Alive(); the panel drops it.            *)
DropDead(r) ==
    /\ main = "idle"
    /\ r \in remotes
    /\ remotes' = remotes \ {r}
    /\ mainPurgeds' = {r.host}
    /\ main' = "purge"
    /\ UNCHANGED <<trdVars, pool, threadPurgeds, thread, sleep, expiration>>

(* PurgeAll(), on Ctrl+R in the list of sites and when a site is edited,    *)
(* and first of all in the destructor, which is called on exit.             *)
PurgeAll(next) ==
    /\ main = "idle"
    /\ MutexIsFree
    /\ mainPurgeds' = Pooled
    /\ pool' = << >>
    /\ NotifyAll
    /\ main' = next
    /\ UNCHANGED <<trdVars, remotes, threadPurgeds, expiration>>

(* The purgeds of a call are destroyed when it returns, out of the lock.    *)
DestroyPurgeds ==
    /\ main \in {"purge", "exit"}
    /\ mainPurgeds' = {}
    /\ main' = IF main = "exit" THEN "join" ELSE "idle"
    /\ UNCHANGED <<trdVars, pool, remotes, threadPurgeds, thread, sleep,
                   expiration>>

(* ConfigureW(): the dialog writes the setting, then the pool is told.      *)
ChangeSetting(e) ==
    /\ main = "idle"
    /\ expiration' = e
    /\ main' = "settings"
    /\ UNCHANGED <<trdVars, hostVars, thread, sleep>>

OnGlobalSettingsChanged ==
    /\ main = "settings"
    /\ MutexIsFree
    /\ NotifyAll
    /\ main' = "idle"
    /\ UNCHANGED <<trdVars, hostVars, expiration>>

(* The rest of the destructor.                                              *)
WaitThread ==
    /\ main = "join"
    /\ ThreadWaited
    /\ main' = "gone"
    /\ UNCHANGED <<hostVars, thread, sleep, expiration>>

-----------------------------------------------------------------------------
(* ThreadProc()                                                             *)

LoopCondition ==
    /\ thread \in {"lock", "loop"}
    /\ IF DOMAIN pool = {}
       THEN thread' = "leaving" /\ UNCHANGED sleep
       ELSE thread' = "estimated" /\ sleep' = EstimateTimeToSleep
    /\ UNCHANGED <<trdVars, hostVars, main, expiration>>

FallAsleep ==
    /\ thread = "estimated"
    /\ thread' = "asleep"
    /\ UNCHANGED <<trdVars, hostVars, sleep, main, expiration>>

TimedOut ==
    /\ thread = "asleep"
    /\ sleep = 0
    /\ thread' = "woken"
    /\ UNCHANGED <<trdVars, hostVars, sleep, main, expiration>>

SpuriousWakeup ==
    /\ thread = "asleep"
    /\ sleep > 0
    /\ thread' = "woken"
    /\ sleep' = 0
    /\ UNCHANGED <<trdVars, hostVars, main, expiration>>

Purge ==
    /\ thread = "woken"
    /\ threadPurgeds' = HostsAt(pool, Expired(pool))
    /\ pool' = PurgeExpired(pool)
    /\ thread' = IF Expired(pool) = {} THEN "loop" ELSE "destroying"
    /\ UNCHANGED <<trdVars, remotes, mainPurgeds, sleep, main, expiration>>

DestroyPurged ==
    /\ thread = "destroying"
    /\ threadPurgeds' = {}
    /\ thread' = "lock"
    /\ UNCHANGED <<trdVars, pool, remotes, mainPurgeds, sleep, main,
                   expiration>>

Exit ==
    /\ thread = "leaving"
    /\ ThreadExits
    /\ thread' = "none"
    /\ UNCHANGED <<hostVars, sleep, main, expiration>>

-----------------------------------------------------------------------------
(* A second passes.                                                         *)
Tick ==
    /\ \/ thread \in {"none", "destroying"}
       \/ thread = "asleep" /\ sleep > 0
    /\ pool' = [i \in DOMAIN pool |->
                  [pool[i] EXCEPT !.age = IF @ < MaxAge THEN @ + 1 ELSE @]]
    /\ sleep' = IF thread = "asleep" THEN sleep - 1 ELSE sleep
    /\ UNCHANGED <<trdVars, remotes, threadPurgeds, mainPurgeds, thread,
                   main, expiration>>

MainStep == DestroyPurgeds \/ OnGlobalSettingsChanged \/ WaitThread

ThreadStep == \/ LoopCondition \/ FallAsleep \/ TimedOut
              \/ Purge \/ DestroyPurged \/ Exit

UserAction ==
    \/ \E i \in Ids : Get(i)
    \/ \E i \in Ids, h \in Hosts : Connect(i, h)
    \/ \E r \in remotes : Put(r) \/ DropDead(r)
    \/ \E next \in {"purge", "exit"} : PurgeAll(next)
    \/ \E e \in Expirations \ {expiration} : ChangeSetting(e)

(* The process ends with the plugin.                                        *)
Terminated == main = "gone" /\ UNCHANGED vars

Next == \/ MainStep \/ ThreadStep \/ UserAction
        \/ SpuriousWakeup \/ Tick \/ Terminated

Spec == Init /\ [][Next]_vars

(* Threads run and time goes on, however often they are interrupted by the  *)
(* user, who is free to do nothing.                                         *)
FairSpec == Spec /\ WF_vars(MainStep) /\ WF_vars(ThreadStep) /\ SF_vars(Tick)

-----------------------------------------------------------------------------
Entries == UNION {[D -> [host : Hosts, age : 0 .. MaxAge]] : D \in SUBSET Ids}

TypeOK ==
    /\ ThreadedTypeOK
    /\ pool \in Entries
    /\ remotes \subseteq [id : Ids, host : Hosts]
    /\ threadPurgeds \subseteq Hosts
    /\ mainPurgeds \subseteq Hosts
    /\ thread \in ThreadStates
    /\ sleep \in 0 .. MaxAge
    /\ main \in {"idle", "purge", "settings", "exit", "join", "gone"}
    /\ expiration \in Expirations

(* A connection is used by one panel, pooled once, or about to be closed by *)
(* one thread, and never two of these: nobody works with a host that the    *)
(* pool destroys, whatever Get(), Put() and the timer do at the same time.  *)
OneOwner ==
    /\ \A r, s \in remotes : r.host = s.host => r = s
    /\ \A i, j \in DOMAIN pool : pool[i].host = pool[j].host => i = j
    /\ Used \cap Pooled = {}
    /\ Used \cap (threadPurgeds \cup mainPurgeds) = {}
    /\ Pooled \cap (threadPurgeds \cup mainPurgeds) = {}
    /\ threadPurgeds \cap mainPurgeds = {}

(* The thread sleeps no longer than until one second after the first entry  *)
(* expires, also for entries put, and for settings changed, while it was    *)
(* about to sleep (EstimateTimeToSleep(), the notifications).               *)
SleepFitsEntries ==
    thread = "asleep" /\ main # "settings" =>
        \A i \in DOMAIN pool :
            sleep <= 1 \/ pool[i].age + sleep <= expiration + 1

(* An entry that the thread looks after leaves the pool, by the user or by  *)
(* its expiration: the thread does not give up with entries left, and its   *)
(* waits end.                                                               *)
WatchedEntriesExpire ==
    \A h \in Hosts : h \in Pooled /\ thread \in InLoop ~> h \notin Pooled

(* The destructor returns, and leaves nothing: no pooled host, no thread,   *)
(* none that still destroys hosts; ~Threaded() does not ABORT().            *)
DestructorReturns ==
    main = "exit" ~> /\ main = "gone"
                     /\ MayBeDestroyed
                     /\ Pooled \cup threadPurgeds \cup mainPurgeds = {}

(* Every pooled connection is kept for a limited time, as the help says.    *)
(* This does not hold: an entry put when the thread has left its loop but   *)
(* is not marked as exited is watched by nobody.                            *)
PooledEntriesExpire == \A h \in Hosts : h \in Pooled ~> h \notin Pooled
=============================================================================
