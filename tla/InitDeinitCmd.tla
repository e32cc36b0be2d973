--------------------------- MODULE InitDeinitCmd ----------------------------
(***************************************************************************)
(* NetRocks runs a command of the user when a connection to a site opens    *)
(* and another one when it closes (Host/InitDeinitCmd.cpp), and tells them  *)
(* in $SINGULAR whether no other connection to that site exists, in this or *)
(* in any other process.  Two lock files of utils/src/SharedResource.cpp    *)
(* serve for that: a group lock, which serialises opening and closing, and  *)
(* a private lock of the site, which every open connection holds for        *)
(* reading: who could write-lock it is alone.                               *)
(*                                                                          *)
(* flock() locks belong to open file descriptions, which forked children    *)
(* inherit (there is no O_CLOEXEC): an explicit LOCK_UN releases the lock   *)
(* for all of them, a crash of the owner only when the last child that      *)
(* shares the description is gone.                                          *)
(*                                                                          *)
(* All sites of the model are in one group.  A connection keeps its name    *)
(* for the next time it opens.  The commands are not empty, and end when    *)
(* they are killed.                                                         *)
(***************************************************************************)
EXTENDS FiniteSets

CONSTANTS Conns,   \* HostRemote objects
          Sites,   \* lock ids, of which protocol, user, host and port are part
          Procs,   \* far2m processes
          Site,    \* the site of a connection
          Owner,   \* the process of a connection
          None     \* nobody

ASSUME ConnsAssumption == /\ IsFiniteSet(Conns)
                          /\ Site \in [Conns -> Sites]
                          /\ Owner \in [Conns -> Procs]
ASSUME NoneAssumption == None \notin Conns \cup Sites

VARIABLES
    pc,         \* where a connection is
    group,      \* the connection whose description of the group file is locked
    readers,    \* connections whose description of the private file is locked
    linked,     \* connections whose private file is the one the path names
    files,      \* sites with a private lock file
    child,      \* the command of a connection: "none", "running", "ok", "failed"
    singular,   \* what that command was told while it runs
    aborted,    \* connections with _aborted set
    todo,       \* ids that Cleanup has yet to look at
    current,    \* the id it looks at
    dead,       \* connections of a crashed process that have left children
    lingering,  \* those of them whose children need not end
    shared,     \* sites whose shared things are set up, by the commands
    spoiled     \* history: sites whose shared things may be left over

lockVars == <<group, readers, linked, files>>
cleanupVars == <<todo, current>>
crashVars == <<dead, lingering>>
effectVars == <<shared, spoiled>>
vars == <<pc, lockVars, child, singular, aborted, cleanupVars, crashVars,
          effectVars>>

(* "opening" and "closing" wait for the group lock, which "init", "deinit"  *)
(* and "try" hold; "cleanup" and "sweep" do not.                            *)
States == {"down", "opening", "init", "up", "closing", "deinit",
           "cleanup", "sweep", "try"}

(* Processes that crashed may have left files of sites.                     *)
Init == /\ pc = [c \in Conns |-> "down"]
        /\ group = None
        /\ readers = {}
        /\ linked = {}
        /\ files \in SUBSET Sites
        /\ child = [c \in Conns |-> "none"]
        /\ singular = [c \in Conns |-> FALSE]
        /\ aborted = {}
        /\ todo = [c \in Conns |-> {}]
        /\ current = [c \in Conns |-> None]
        /\ dead = {}
        /\ lingering = {}
        /\ shared = {}
        /\ spoiled = {}

At(c, l) == c \notin dead /\ pc[c] = l
Goto(c, l) == pc' = [pc EXCEPT ![c] = l]

(* A lock on the file at the path conflicts with the other descriptions of  *)
(* that file, not with those of a file that was unlinked.                   *)
ReadersAt(s) == {c \in readers \cap linked : Site[c] = s}

-----------------------------------------------------------------------------
(* Variants with one plausible mistake each.                                *)

(* The descriptors of the lock files are opened with O_CLOEXEC.             *)
BugInherited(survivors) == {}

(* The test goes through a description of its own, so that the read lock    *)
(* the closing connection still has counts.                                 *)
BugOwnReadCounts(c) == ReadersAt(Site[c])

(* The read lock is forgotten.                                              *)
BugCommandSucceeded(c) ==
    /\ At(c, "init")
    /\ child[c] = "ok"
    /\ child' = [child EXCEPT ![c] = "none"]
    /\ group' = None
    /\ Goto(c, "up")
    /\ UNCHANGED <<readers, linked, files, singular, aborted, cleanupVars,
                   crashVars, effectVars>>

(* The group lock stays locked when Run() throws.                           *)
BugGroupAfterRun(c) == IF child[c] = "running" THEN c ELSE None

(* Cleanup stops, with the lock, at the first id that is in use.            *)
BugGroupAfterTry(c) == IF current[c] \in files THEN c ELSE None

-----------------------------------------------------------------------------
(* PrivateMayTakeWriteLock(), which drops the lock it gets: an own read     *)
(* lock would be converted, so only those of others count.  It is called    *)
(* under the group lock, so nobody else's attempt is in the way.            *)
OtherReaders(c) == ReadersAt(Site[c]) \ {c}
PrivateMayTakeWriteLock(c) == OtherReaders(c) = {}

(* The constructor, in ReInitialize(), when the old object is destroyed and *)
(* _aborted was reset.  Nothing reads _aborted after Run(): the model resets*)
(* it there, which makes states that differ only in that equal.             *)
Open(c) ==
    /\ At(c, "down")
    /\ Goto(c, "opening")
    /\ UNCHANGED <<lockVars, child, singular, aborted, cleanupVars, crashVars,
                   effectVars>>

StartCommand(c) ==
    /\ group' = c
    /\ child' = [child EXCEPT ![c] = "running"]
    /\ singular' = [singular EXCEPT ![c] = PrivateMayTakeWriteLock(c)]

(* It gets the group lock, opens the private file, and starts the command,  *)
(* unless the connection was aborted: then it is left by an exception.      *)
EnterInit(c) ==
    /\ At(c, "opening")
    /\ group = None
    /\ files' = files \cup {Site[c]}
    /\ IF c \in aborted
       THEN /\ Goto(c, "cleanup")
            /\ aborted' = aborted \ {c}
            /\ UNCHANGED <<group, linked, child, singular>>
       ELSE /\ Goto(c, "init")
            /\ linked' = linked \cup {c}
            /\ StartCommand(c)
            /\ UNCHANGED aborted
    /\ UNCHANGED <<readers, cleanupVars, crashVars, effectVars>>

(* The connection is open: it keeps a read lock and leaves the group lock.  *)
CommandSucceeded(c) ==
    /\ At(c, "init")
    /\ child[c] = "ok"
    /\ child' = [child EXCEPT ![c] = "none"]
    /\ readers' = readers \cup {c}
    /\ group' = None
    /\ Goto(c, "up")
    /\ UNCHANGED <<linked, files, singular, aborted, cleanupVars, crashVars,
                   effectVars>>

(* The user breaks the connection: HostRemote::Abort().                     *)
Abort(c) ==
    /\ c \notin dead
    /\ pc[c] \in {"opening", "init", "up", "closing", "deinit"}
    /\ aborted' = aborted \cup {c}
    /\ UNCHANGED <<pc, lockVars, child, singular, cleanupVars, crashVars,
                   effectVars>>

(* OnBroken(), or the end of the HostRemote: the destructor.                *)
Close(c) ==
    /\ At(c, "up")
    /\ Goto(c, "closing")
    /\ UNCHANGED <<lockVars, child, singular, aborted, cleanupVars, crashVars,
                   effectVars>>

(* It gets the group lock, gives its read lock up and starts the command;   *)
(* for a connection that was aborted, Run() throws before it does.          *)
EnterDeinit(c) ==
    /\ At(c, "closing")
    /\ group = None
    /\ readers' = readers \ {c}
    /\ IF c \in aborted
       THEN /\ Goto(c, "cleanup")
            /\ linked' = linked \ {c}
            /\ spoiled' = spoiled \cup {Site[c]}
            /\ aborted' = aborted \ {c}
            /\ UNCHANGED <<group, child, singular>>
       ELSE /\ Goto(c, "deinit")
            /\ StartCommand(c)
            /\ UNCHANGED <<linked, aborted, spoiled>>
    /\ UNCHANGED <<files, cleanupVars, crashVars, shared>>

(* What the commands do when they are told to be alone is the user's        *)
(* business: set the shared things up, or clean them up.                    *)
Done(c) == IF ~singular[c] THEN shared
           ELSE IF pc[c] = "init" THEN shared \cup {Site[c]}
           ELSE shared \ {Site[c]}

ChildSucceeds(c) ==
    /\ child[c] = "running"
    /\ child' = [child EXCEPT ![c] = "ok"]
    /\ singular' = [singular EXCEPT ![c] = FALSE]
    /\ shared' = Done(c)
    /\ spoiled' = IF singular[c] /\ pc[c] = "deinit"
                  THEN spoiled \ {Site[c]} ELSE spoiled
    /\ UNCHANGED <<pc, lockVars, aborted, cleanupVars, crashVars>>

(* It fails, or is killed, with its work done or not.                       *)
HalfDone(c) ==
    /\ shared' \in {shared, Done(c)}
    /\ spoiled' = IF singular[c] THEN spoiled \cup {Site[c]} ELSE spoiled

ChildFails(c) ==
    /\ child[c] = "running"
    /\ child' = [child EXCEPT ![c] = "failed"]
    /\ singular' = [singular EXCEPT ![c] = FALSE]
    /\ HalfDone(c)
    /\ UNCHANGED <<pc, lockVars, aborted, cleanupVars, crashVars>>

(* Run() ends, for CommandDeinit in any case, for Command when it fails;    *)
(* the time limit and an abort kill the command.  The private file is       *)
(* closed and the group lock released.                                      *)
GroupAfterRun(c) == None

RunEnds(c) ==
    /\ \/ At(c, "deinit")
       \/ At(c, "init") /\ child[c] # "ok"
    /\ IF child[c] = "running" THEN HalfDone(c) ELSE UNCHANGED effectVars
    /\ child' = [child EXCEPT ![c] = "none"]
    /\ singular' = [singular EXCEPT ![c] = FALSE]
    /\ linked' = linked \ {c}
    /\ group' = GroupAfterRun(c)
    /\ aborted' = aborted \ {c}
    /\ Goto(c, "cleanup")
    /\ UNCHANGED <<readers, files, cleanupVars, crashVars>>

-----------------------------------------------------------------------------
(* ~Cleanup(), last of all: sEnum(), and for each id one that does not wait *)
(* for locks, neither for the group's nor for the private one.              *)
Enum(c) ==
    /\ At(c, "cleanup")
    /\ todo' = [todo EXCEPT ![c] = files]
    /\ Goto(c, "sweep")
    /\ UNCHANGED <<lockVars, child, singular, aborted, current, crashVars,
                   effectVars>>

LockGroup(c, s) ==
    /\ At(c, "sweep")
    /\ s \in todo[c]
    /\ todo' = [todo EXCEPT ![c] = @ \ {s}]
    /\ IF group = None
       THEN /\ group' = c
            /\ current' = [current EXCEPT ![c] = s]
            /\ Goto(c, "try")
       ELSE UNCHANGED <<group, current, pc>>
    /\ UNCHANGED <<readers, linked, files, child, singular, aborted,
                   crashVars, effectVars>>

(* The constructor of sr_id makes the file if it is not there any more.     *)
Unused(s) == ReadersAt(s) = {}
GroupAfterTry(c) == None

Unlink(c) ==
    /\ At(c, "try")
    /\ IF Unused(current[c])
       THEN /\ files' = files \ {current[c]}
            /\ linked' = {d \in linked : Site[d] # current[c]}
       ELSE UNCHANGED <<files, linked>>
    /\ group' = GroupAfterTry(c)
    /\ current' = [current EXCEPT ![c] = None]
    /\ Goto(c, "sweep")
    /\ UNCHANGED <<readers, child, singular, aborted, todo, crashVars,
                   effectVars>>

Destroyed(c) ==
    /\ At(c, "sweep")
    /\ todo[c] = {}
    /\ Goto(c, "down")
    /\ UNCHANGED <<lockVars, child, singular, aborted, cleanupVars, crashVars,
                   effectVars>>

-----------------------------------------------------------------------------
(* The descriptions of D are closed for good.                               *)
Forget(D) ==
    /\ pc' = [c \in Conns |-> IF c \in D THEN "down" ELSE pc[c]]
    /\ child' = [c \in Conns |-> IF c \in D THEN "none" ELSE child[c]]
    /\ todo' = [c \in Conns |-> IF c \in D THEN {} ELSE todo[c]]
    /\ current' = [c \in Conns |-> IF c \in D THEN None ELSE current[c]]
    /\ aborted' = aborted \ D

Release(D) ==
    /\ group' = IF group \in D THEN None ELSE group
    /\ readers' = readers \ D
    /\ linked' = linked \ D

(* The locks of connections whose children survive.                         *)
Inherited(survivors) == survivors

(* Process p dies.  Its running commands go on; other children (what a      *)
(* command left in the background, brokers of its other connections) may    *)
(* have copies of the descriptors too: `stay' are the connections with such *)
(* children.                                                                *)
Crash(p) ==
    LET gone == {c \in Conns \ dead : Owner[c] = p /\ pc[c] # "down"}
    IN  /\ gone # {}
        /\ \E stay \in SUBSET {c \in gone : c \in readers \/ group = c} :
              LET survivors == stay \cup {c \in gone : child[c] = "running"}
              IN  /\ dead' = dead \cup survivors
                  /\ lingering' = lingering \cup stay
                  /\ Forget(gone \ survivors)
                  /\ Release(gone \ Inherited(survivors))
        /\ spoiled' = spoiled \cup {Site[c] : c \in gone}
    /\ UNCHANGED <<files, singular, shared>>

(* The last child of a dead connection exits.                               *)
LastChildExits(c) ==
    /\ c \in dead
    /\ child[c] # "running"
    /\ dead' = dead \ {c}
    /\ lingering' = lingering \ {c}
    /\ Forget({c})
    /\ Release({c})
    /\ UNCHANGED <<files, singular, effectVars>>

-----------------------------------------------------------------------------
GetGroupLock(c) == EnterInit(c) \/ EnterDeinit(c)

Proceed(c) ==
    \/ CommandSucceeded(c) \/ RunEnds(c)
    \/ Enum(c) \/ (\E s \in Sites : LockGroup(c, s)) \/ Unlink(c)
    \/ Destroyed(c)

Next == \/ \E c \in Conns : \/ Open(c) \/ Close(c) \/ Abort(c)
                            \/ GetGroupLock(c) \/ Proceed(c)
                            \/ ChildSucceeds(c) \/ ChildFails(c)
                            \/ LastChildExits(c)
        \/ \E p \in Procs : Crash(p)

Spec == Init /\ [][Next]_vars

(* Threads of NetRocks go on, one that waits for the group lock gets it if  *)
(* it is free again and again; children of a crashed process that have not  *)
(* detached themselves end.                                                 *)
FairSpec ==
    /\ Spec
    /\ \A c \in Conns :
          /\ SF_vars(GetGroupLock(c))
          /\ WF_vars(Proceed(c))
          /\ WF_vars(c \in dead \ lingering
                     /\ (ChildSucceeds(c) \/ ChildFails(c) \/ LastChildExits(c)))

-----------------------------------------------------------------------------
(* Types, and who has the group lock.                                       *)
TypeOK ==
    /\ pc \in [Conns -> States]
    /\ group \in Conns \cup {None}
    /\ readers \subseteq Conns
    /\ linked \subseteq Conns
    /\ files \subseteq Sites
    /\ child \in [Conns -> {"none", "running", "ok", "failed"}]
    /\ singular \in [Conns -> BOOLEAN]
    /\ aborted \subseteq Conns
    /\ todo \in [Conns -> SUBSET Sites]
    /\ current \in [Conns -> Sites \cup {None}]
    /\ lingering \subseteq dead /\ dead \subseteq Conns
    /\ shared \subseteq Sites
    /\ spoiled \subseteq Sites
    /\ \A c \in Conns : pc[c] \in {"init", "deinit", "try"} <=> group = c

(* Two commands never run at the same time, not even when the process that  *)
(* started one has crashed: its command keeps the group lock.  A command    *)
(* that is told SINGULAR=1 is alone: no other connection to the site is     *)
(* open, in any process (help, "Special environment variable").             *)
CommandsAreSerial ==
    \A c, d \in Conns :
        /\ child[c] = "running" /\ child[d] = "running" => c = d
        /\ child[c] = "running" /\ singular[c] /\ d # c /\ Site[d] = Site[c] =>
              pc[d] \notin {"up", "closing"}

(* As long as a connection is open the shared things of its site are there: *)
(* the first one set them up, and nobody else but the last one was told to  *)
(* clean up, whoever crashed, failed or gave up in between.                 *)
SharedThingsStay ==
    \A c \in Conns : pc[c] \in {"up", "closing"} => Site[c] \in shared

(* The last connection cleans up: when there is none, the shared things are *)
(* gone, unless a command failed, a process crashed or the user broke the   *)
(* connection.                                                              *)
NoConnection(s) == \A c \in Conns : Site[c] = s =>
                      pc[c] \in {"down", "cleanup", "sweep", "try"}
LastOneCleansUp ==
    \A s \in Sites : NoConnection(s) /\ s \notin spoiled => s \notin shared

(* Who waits for the group lock gets it, unless a crash left it to a child  *)
(* that does not end: connections open and close.                           *)
GroupLockIsGranted ==
    \A c \in Conns :
        At(c, "opening") \/ At(c, "closing") ~>
            ~(At(c, "opening") \/ At(c, "closing")) \/ group \in lingering
=============================================================================
