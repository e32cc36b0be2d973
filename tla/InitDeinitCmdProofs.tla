------------------------ MODULE InitDeinitCmdProofs -------------------------
(***************************************************************************)
(* Proofs, for any number of connections, sites and processes, about the    *)
(* commands NetRocks runs when connections open and close (InitDeinitCmd).  *)
(***************************************************************************)
EXTENDS InitDeinitCmd, TLAPS

-----------------------------------------------------------------------------
(* The inductive invariant. *)

IsOpen(c) == pc[c] \in {"up", "closing"}

(* A command, also one that has ended and was not waited for, belongs to a  *)
(* connection in Run().                                                     *)
CommandsAreRun ==
    \A c \in Conns : child[c] # "none" => pc[c] \in {"init", "deinit"}

(* The read locks are those of the open connections, and are on the file    *)
(* that the path names, where the test for SINGULAR sees them.              *)
ReadLocksShow ==
    \A c \in Conns : /\ c \in readers <=> IsOpen(c)
                     /\ pc[c] \in {"init", "up", "closing"} => c \in linked

(* What SINGULAR=1 promises.                                                *)
SingularIsAlone ==
    \A c, d \in Conns :
        child[c] = "running" /\ singular[c] /\ d # c /\ Site[d] = Site[c] =>
            ~IsOpen(d)

(* Connections whose site has its shared things set up: also one that is    *)
(* opening and whose command was successful, or is not the first one.       *)
HasShared(c) ==
    \/ IsOpen(c)
    \/ pc[c] = "init" /\ child[c] = "ok"
    \/ pc[c] = "init" /\ child[c] = "running" /\ ~singular[c]
SharedAreThere == \A c \in Conns : HasShared(c) => Site[c] \in shared

(* Connections on which it depends that shared things are cleaned up.       *)
WillCleanUp(c) ==
    \/ IsOpen(c)
    \/ pc[c] = "init" /\ child[c] = "ok"
    \/ pc[c] = "deinit" /\ child[c] = "running" /\ singular[c]
SharedAreCaredFor ==
    \A s \in shared \ spoiled : \E c \in Conns : Site[c] = s /\ WillCleanUp(c)

(* A crashed process spoils the sites of its connections, and they stay     *)
(* spoiled while its locks keep others from being SINGULAR.                 *)
DeadSpoil ==
    \A c \in dead : pc[c] \in {"init", "up", "closing"} => Site[c] \in spoiled

IInv == /\ TypeOK
        /\ CommandsAreRun
        /\ ReadLocksShow
        /\ SingularIsAlone
        /\ SharedAreThere
        /\ SharedAreCaredFor
        /\ DeadSpoil

-----------------------------------------------------------------------------
(* Facts about the operators the actions are built from. *)

(* The attempt at a write lock tells whether another connection to the site *)
(* is open.                                                                 *)
LEMMA WriteLockTells ==
  ASSUME TypeOK, ReadLocksShow, NEW c \in Conns
  PROVE  PrivateMayTakeWriteLock(c) <=>
             \A d \in Conns \ {c} : Site[d] = Site[c] => ~IsOpen(d)
  BY DEF TypeOK, ReadLocksShow, PrivateMayTakeWriteLock, OtherReaders,
         ReadersAt, IsOpen

(* A command changes the shared things only of its site, and only if it was *)
(* told to be alone; when it fails, they are spoiled.                       *)
LEMMA HalfDoneEffect ==
  ASSUME TypeOK, NEW c \in Conns, HalfDone(c)
  PROVE  /\ shared' \subseteq Sites /\ spoiled' \subseteq Sites
         /\ \A s \in Sites \ {Site[c]} : s \in shared' <=> s \in shared
         /\ spoiled \subseteq spoiled'
         /\ IF singular[c] THEN Site[c] \in spoiled' ELSE UNCHANGED effectVars
         /\ pc[c] = "init" => shared \subseteq shared'
  <1>1. Site[c] \in Sites
    BY ConnsAssumption
  <1>2. CASE singular[c]
    BY <1>1, <1>2 DEF HalfDone, Done, TypeOK
  <1>3. CASE ~singular[c]
    BY <1>1, <1>3 DEF HalfDone, Done, TypeOK, effectVars
  <1> QED
    BY <1>2, <1>3

-----------------------------------------------------------------------------
(* The invariant is inductive.                                              *)

(* Whatever files crashed processes have left, nothing is open and nothing  *)
(* is shared at first.                                                      *)
LEMMA InitInv == Init => IInv
  BY ConnsAssumption, NoneAssumption
     DEF Init, IInv, TypeOK, States, CommandsAreRun, ReadLocksShow,
         SingularIsAlone, SharedAreThere, HasShared, SharedAreCaredFor,
         DeadSpoil, IsOpen

(* Steps that run no command and touch no lock: waiting for the group lock, *)
(* being aborted, and the ends of Cleanup.                                  *)
LEMMA QuietStep ==
  ASSUME IInv, NEW c \in Conns,
         Open(c) \/ Close(c) \/ Abort(c) \/ Enum(c) \/ Destroyed(c)
  PROVE  IInv'
  <1> USE ConnsAssumption, NoneAssumption
      DEF IInv, Open, Close, Abort, Enum, Destroyed, Goto, At, 
          lockVars, cleanupVars, crashVars, effectVars
  <1>1. TypeOK'
    BY DEF TypeOK, States
  <1>2. CommandsAreRun'
    BY DEF TypeOK, States, CommandsAreRun
  <1>3. ReadLocksShow'
    BY DEF TypeOK, States, ReadLocksShow, IsOpen
  <1>4. SingularIsAlone'
    BY DEF TypeOK, States, SingularIsAlone, IsOpen
  <1>5. SharedAreThere'
    BY DEF TypeOK, States, SharedAreThere, HasShared, IsOpen
  <1>6. SharedAreCaredFor'
    BY DEF TypeOK, States, SharedAreCaredFor, WillCleanUp, IsOpen
  <1>7. DeadSpoil'
    BY DEF TypeOK, States, DeadSpoil
  <1> QED
    BY <1>1, <1>2, <1>3, <1>4, <1>5, <1>6, <1>7

(* A connection gets the group lock to open: nobody else has a command, and *)
(* when its own is not told to be alone, another connection is open, and    *)
(* has the shared things set up.                                            *)
LEMMA EnterInitStep ==
  ASSUME IInv, NEW c \in Conns, EnterInit(c)
  PROVE  IInv'
  <1> USE ConnsAssumption, NoneAssumption DEF IInv
  <1>1. /\ pc[c] = "opening" /\ c \notin dead /\ group = None
        /\ files' = files \cup {Site[c]}
        /\ UNCHANGED <<readers, todo, current, dead, lingering, shared, spoiled>>
    BY DEF EnterInit, At, cleanupVars, crashVars, effectVars
  <1>2. \A d \in Conns : child[d] = "none" /\ pc[d] \notin {"init", "deinit"}
    BY <1>1 DEF TypeOK, CommandsAreRun
  <1>3. CASE c \in aborted
    <2>1. /\ pc' = [pc EXCEPT ![c] = "cleanup"]
          /\ aborted' = aborted \ {c}
          /\ UNCHANGED <<group, linked, child, singular>>
      BY <1>3 DEF EnterInit, Goto
    <2> QED
      BY <1>1, <1>2, <2>1 DEF TypeOK, States, CommandsAreRun, ReadLocksShow,
           SingularIsAlone, SharedAreThere, HasShared, SharedAreCaredFor,
           WillCleanUp, DeadSpoil, IsOpen
  <1>4. CASE c \notin aborted
    <2>1. /\ pc' = [pc EXCEPT ![c] = "init"]
          /\ linked' = linked \cup {c}
          /\ group' = c
          /\ child' = [child EXCEPT ![c] = "running"]
          /\ singular' = [singular EXCEPT ![c] = PrivateMayTakeWriteLock(c)]
          /\ UNCHANGED aborted
      BY <1>4 DEF EnterInit, StartCommand, Goto
    <2>2. PrivateMayTakeWriteLock(c) \in BOOLEAN
      BY DEF PrivateMayTakeWriteLock
    <2>3. TypeOK'
      BY <1>1, <2>1, <2>2 DEF TypeOK, States
    <2>4. CommandsAreRun' /\ ReadLocksShow' /\ DeadSpoil'
      BY <1>1, <2>1 DEF TypeOK, CommandsAreRun, ReadLocksShow, DeadSpoil, IsOpen
    <2>5. SingularIsAlone'
      BY <1>1, <1>2, <2>1, WriteLockTells DEF TypeOK, SingularIsAlone, IsOpen
    <2>6. SharedAreThere'
      BY <1>1, <1>2, <2>1, WriteLockTells DEF TypeOK, SharedAreThere, HasShared, IsOpen
    <2>7. SharedAreCaredFor'
      BY <1>1, <1>2, <2>1 DEF TypeOK, SharedAreCaredFor, WillCleanUp, IsOpen
    <2> QED
      BY <2>3, <2>4, <2>5, <2>6, <2>7
  <1> QED
    BY <1>3, <1>4

(* A connection gets the group lock to close.  If its command is not told   *)
(* to be alone there is another open connection that will clean up.         *)
LEMMA EnterDeinitStep ==
  ASSUME IInv, NEW c \in Conns, EnterDeinit(c)
  PROVE  IInv'
  <1> USE ConnsAssumption, NoneAssumption DEF IInv
  <1>1. /\ pc[c] = "closing" /\ c \notin dead /\ group = None
        /\ readers' = readers \ {c}
        /\ UNCHANGED <<files, todo, current, dead, lingering, shared>>
    BY DEF EnterDeinit, At, cleanupVars, crashVars
  <1>2. \A d \in Conns : child[d] = "none" /\ pc[d] \notin {"init", "deinit"}
    BY <1>1 DEF TypeOK, CommandsAreRun
  <1>3. CASE c \in aborted
    <2>1. /\ pc' = [pc EXCEPT ![c] = "cleanup"]
          /\ linked' = linked \ {c}
          /\ spoiled' = spoiled \cup {Site[c]}
          /\ aborted' = aborted \ {c}
          /\ UNCHANGED <<group, child, singular>>
      BY <1>3 DEF EnterDeinit, Goto
    <2>2. TypeOK'
      BY <1>1, <2>1 DEF TypeOK, States
    <2> QED
      BY <1>1, <1>2, <2>1, <2>2 DEF TypeOK, CommandsAreRun, ReadLocksShow,
           SingularIsAlone, SharedAreThere, HasShared, SharedAreCaredFor,
           WillCleanUp, DeadSpoil, IsOpen
  <1>4. CASE c \notin aborted
    <2>1. /\ pc' = [pc EXCEPT ![c] = "deinit"]
          /\ group' = c
          /\ child' = [child EXCEPT ![c] = "running"]
          /\ singular' = [singular EXCEPT ![c] = PrivateMayTakeWriteLock(c)]
          /\ UNCHANGED <<linked, aborted, spoiled>>
      BY <1>4 DEF EnterDeinit, StartCommand, Goto
    <2>2. PrivateMayTakeWriteLock(c) \in BOOLEAN
      BY DEF PrivateMayTakeWriteLock
    <2>3. TypeOK'
      BY <1>1, <2>1, <2>2 DEF TypeOK, States
    <2>4. CommandsAreRun' /\ ReadLocksShow' /\ DeadSpoil'
      BY <1>1, <2>1 DEF TypeOK, CommandsAreRun, ReadLocksShow, DeadSpoil, IsOpen
    <2>5. SingularIsAlone'
      BY <1>1, <1>2, <2>1, WriteLockTells DEF TypeOK, SingularIsAlone, IsOpen
    <2>6. SharedAreThere'
      BY <1>1, <1>2, <2>1 DEF TypeOK, SharedAreThere, HasShared, IsOpen
    <2>7. SharedAreCaredFor'
      <3>1. CASE PrivateMayTakeWriteLock(c)
        BY <1>1, <1>2, <2>1, <3>1 DEF TypeOK, SharedAreCaredFor, WillCleanUp, IsOpen
      <3>2. CASE ~PrivateMayTakeWriteLock(c)
        <4>1. PICK d \in Conns \ {c} : Site[d] = Site[c] /\ IsOpen(d)
          BY <3>2, WriteLockTells
        <4>2. WillCleanUp(d)'
          BY <2>1, <4>1 DEF TypeOK, WillCleanUp, IsOpen
        <4> QED
          BY <1>1, <1>2, <2>1, <4>1, <4>2 DEF TypeOK, SharedAreCaredFor,
               WillCleanUp, IsOpen
      <3> QED
        BY <3>1, <3>2
    <2> QED
      BY <2>3, <2>4, <2>5, <2>6, <2>7
  <1> QED
    BY <1>3, <1>4

(* The command was successful, and the connection is open.                  *)
LEMMA CommandSucceededStep ==
  ASSUME IInv, NEW c \in Conns, CommandSucceeded(c)
  PROVE  IInv'
  <1> USE ConnsAssumption, NoneAssumption
      DEF IInv, CommandSucceeded, Goto, At, IsOpen, cleanupVars, crashVars,
          effectVars
  <1>1. TypeOK' /\ CommandsAreRun' /\ ReadLocksShow'
    BY DEF TypeOK, States, CommandsAreRun, ReadLocksShow
  <1>2. SingularIsAlone'
    BY DEF TypeOK, SingularIsAlone, CommandsAreRun
  <1>3. SharedAreThere' /\ SharedAreCaredFor'
    BY DEF TypeOK, SharedAreThere, HasShared, SharedAreCaredFor, WillCleanUp
  <1>4. DeadSpoil'
    BY DEF TypeOK, DeadSpoil
  <1> QED
    BY <1>1, <1>2, <1>3, <1>4

(* The command of a connection has ended: well, or without its work done.   *)
(* Either way no other connection is in Run(), and a SINGULAR one has no    *)
(* open connection beside it whose things it could take away.               *)
LEMMA ChildSucceedsStep ==
  ASSUME IInv, NEW c \in Conns, ChildSucceeds(c)
  PROVE  IInv'
  <1> USE ConnsAssumption DEF IInv
  <1>1. /\ child[c] = "running"
        /\ child' = [child EXCEPT ![c] = "ok"]
        /\ singular' = [singular EXCEPT ![c] = FALSE]
        /\ UNCHANGED <<pc, group, readers, linked, files, aborted, todo,
                       current, dead, lingering>>
    BY DEF ChildSucceeds, lockVars, cleanupVars, crashVars
  <1>2. /\ pc[c] \in {"init", "deinit"}
        /\ \A d \in Conns \ {c} : child[d] = "none" /\ pc[d] \notin {"init", "deinit"}
    BY <1>1 DEF TypeOK, CommandsAreRun
  <1>3. /\ shared' = IF ~singular[c] THEN shared
                     ELSE IF pc[c] = "init" THEN shared \cup {Site[c]}
                     ELSE shared \ {Site[c]}
        /\ spoiled' = IF singular[c] /\ pc[c] = "deinit"
                      THEN spoiled \ {Site[c]} ELSE spoiled
    BY DEF ChildSucceeds, Done
  <1>4. shared' \subseteq Sites /\ spoiled' \subseteq Sites
    BY <1>3 DEF TypeOK
  <1>5. TypeOK' /\ CommandsAreRun' /\ ReadLocksShow'
    BY <1>1, <1>4 DEF TypeOK, CommandsAreRun, ReadLocksShow, IsOpen
  <1>6. SingularIsAlone'
    BY <1>1 DEF TypeOK, SingularIsAlone, IsOpen
  <1>7. SharedAreThere'
    BY <1>1, <1>2, <1>3 DEF TypeOK, SharedAreThere, HasShared, SingularIsAlone, IsOpen
  <1>8. SharedAreCaredFor'
    BY <1>1, <1>2, <1>3 DEF TypeOK, SharedAreCaredFor, WillCleanUp, IsOpen
  <1>9. DeadSpoil'
    BY <1>1, <1>2, <1>3 DEF TypeOK, DeadSpoil, SingularIsAlone, IsOpen
  <1> QED
    BY <1>5, <1>6, <1>7, <1>8, <1>9

(* The same of a command that fails, with its work done or not.             *)
LEMMA ChildFailsStep ==
  ASSUME IInv, NEW c \in Conns, ChildFails(c)
  PROVE  IInv'
  <1> USE ConnsAssumption DEF IInv
  <1>1. /\ child[c] = "running"
        /\ child' = [child EXCEPT ![c] = "failed"]
        /\ singular' = [singular EXCEPT ![c] = FALSE]
        /\ UNCHANGED <<pc, group, readers, linked, files, aborted, todo,
                       current, dead, lingering>>
        /\ HalfDone(c)
    BY DEF ChildFails, lockVars, cleanupVars, crashVars
  <1>2. /\ pc[c] \in {"init", "deinit"}
        /\ \A d \in Conns \ {c} : child[d] = "none" /\ pc[d] \notin {"init", "deinit"}
    BY <1>1 DEF TypeOK, CommandsAreRun
  <1>3. /\ shared' \subseteq Sites /\ spoiled' \subseteq Sites
        /\ \A s \in Sites \ {Site[c]} : s \in shared' <=> s \in shared
        /\ spoiled \subseteq spoiled'
        /\ IF singular[c] THEN Site[c] \in spoiled' ELSE UNCHANGED <<shared, spoiled>>
        /\ pc[c] = "init" => shared \subseteq shared'
    BY <1>1, HalfDoneEffect DEF effectVars
  <1>4. TypeOK' /\ CommandsAreRun' /\ ReadLocksShow'
    BY <1>1, <1>3 DEF TypeOK, CommandsAreRun, ReadLocksShow, IsOpen
  <1>5. SingularIsAlone'
    BY <1>1 DEF TypeOK, SingularIsAlone, IsOpen
  <1>6. SharedAreThere'
    BY <1>1, <1>2, <1>3 DEF TypeOK, SharedAreThere, HasShared, SingularIsAlone, IsOpen
  <1>7. SharedAreCaredFor'
    BY <1>1, <1>2, <1>3 DEF TypeOK, SharedAreCaredFor, WillCleanUp, IsOpen
  <1>8. DeadSpoil'
    BY <1>1, <1>3 DEF TypeOK, DeadSpoil
  <1> QED
    BY <1>4, <1>5, <1>6, <1>7, <1>8

(* Run() ends and releases the group lock; a command that still runs is     *)
(* killed.                                                                  *)
LEMMA RunEndsStep ==
  ASSUME IInv, NEW c \in Conns, RunEnds(c)
  PROVE  IInv'
  <1> USE ConnsAssumption, NoneAssumption DEF IInv
  <1>1. /\ c \notin dead
        /\ pc[c] = "deinit" \/ (pc[c] = "init" /\ child[c] # "ok")
        /\ pc' = [pc EXCEPT ![c] = "cleanup"]
        /\ child' = [child EXCEPT ![c] = "none"]
        /\ singular' = [singular EXCEPT ![c] = FALSE]
        /\ linked' = linked \ {c}
        /\ group' = None
        /\ aborted' = aborted \ {c}
        /\ UNCHANGED <<readers, files, todo, current, dead, lingering>>
    BY DEF RunEnds, At, Goto, GroupAfterRun, cleanupVars, crashVars
  <1>2. /\ group = c
        /\ \A d \in Conns \ {c} : child[d] = "none" /\ pc[d] \notin {"init", "deinit"}
    BY <1>1 DEF TypeOK, CommandsAreRun
  <1>3. /\ shared' \subseteq Sites /\ spoiled' \subseteq Sites
        /\ \A s \in Sites \ {Site[c]} : s \in shared' <=> s \in shared
        /\ spoiled \subseteq spoiled'
        /\ IF child[c] = "running" /\ singular[c]
           THEN Site[c] \in spoiled' ELSE UNCHANGED <<shared, spoiled>>
        /\ pc[c] = "init" => shared \subseteq shared'
    <2>1. CASE child[c] = "running"
      BY <2>1, HalfDoneEffect DEF RunEnds, effectVars
    <2>2. CASE child[c] # "running"
      BY <2>2 DEF RunEnds, effectVars, TypeOK
    <2> QED
      BY <2>1, <2>2
  <1>4. TypeOK' /\ CommandsAreRun' /\ ReadLocksShow'
    BY <1>1, <1>2, <1>3 DEF TypeOK, States, CommandsAreRun, ReadLocksShow, IsOpen
  <1>5. SingularIsAlone'
    BY <1>1 DEF TypeOK, SingularIsAlone, IsOpen
  <1>6. SharedAreThere'
    BY <1>1, <1>2, <1>3 DEF TypeOK, SharedAreThere, HasShared, SingularIsAlone, IsOpen
  <1>7. SharedAreCaredFor'
    BY <1>1, <1>2, <1>3 DEF TypeOK, SharedAreCaredFor, WillCleanUp, IsOpen
  <1>8. DeadSpoil'
    BY <1>1, <1>3 DEF TypeOK, DeadSpoil
  <1> QED
    BY <1>4, <1>5, <1>6, <1>7, <1>8

(* Cleanup takes the group lock, and unlinks a file nobody has locked: not  *)
(* the one of a connection that is open, or is being opened.                *)
LEMMA CleanupStep ==
  ASSUME IInv, NEW c \in Conns,
         (\E s \in Sites : LockGroup(c, s)) \/ Unlink(c)
  PROVE  IInv'
  <1> USE ConnsAssumption, NoneAssumption
      DEF IInv, LockGroup, Unlink, GroupAfterTry, Goto, At, IsOpen,
          crashVars, effectVars
  <1>1. TypeOK'
    BY DEF TypeOK, States
  <1>2. ReadLocksShow'
    BY DEF TypeOK, ReadLocksShow, Unused, ReadersAt
  <1>3. CommandsAreRun' /\ SingularIsAlone'
    BY DEF TypeOK, CommandsAreRun, SingularIsAlone
  <1>4. SharedAreThere' /\ SharedAreCaredFor'
    BY DEF TypeOK, SharedAreThere, HasShared, SharedAreCaredFor, WillCleanUp
  <1>5. DeadSpoil'
    BY DEF TypeOK, DeadSpoil
  <1> QED
    BY <1>1, <1>2, <1>3, <1>4, <1>5

-----------------------------------------------------------------------------
(* Crashes.                                                                 *)

(* A process dies: of its connections, those whose locks children inherit   *)
(* stay as they are, the others are down.                                   *)
LEMMA CrashStep ==
  ASSUME IInv, NEW p \in Procs, Crash(p)
  PROVE  IInv'
  <1> USE ConnsAssumption, NoneAssumption DEF IInv
  <1> DEFINE gone == {c \in Conns \ dead : Owner[c] = p /\ pc[c] # "down"}
  <1>1. PICK stay \in SUBSET {c \in gone : c \in readers \/ group = c} :
             LET survivors == stay \cup {c \in gone : child[c] = "running"}
             IN  /\ dead' = dead \cup survivors
                 /\ lingering' = lingering \cup stay
                 /\ Forget(gone \ survivors)
                 /\ Release(gone \ Inherited(survivors))
    BY DEF Crash
  <1> DEFINE survivors == stay \cup {c \in gone : child[c] = "running"}
             D == gone \ survivors
  <1>2. /\ dead' = dead \cup survivors
        /\ lingering' = lingering \cup stay
        /\ pc' = [c \in Conns |-> IF c \in D THEN "down" ELSE pc[c]]
        /\ child' = [c \in Conns |-> IF c \in D THEN "none" ELSE child[c]]
        /\ todo' = [c \in Conns |-> IF c \in D THEN {} ELSE todo[c]]
        /\ current' = [c \in Conns |-> IF c \in D THEN None ELSE current[c]]
        /\ aborted' = aborted \ D
        /\ group' = IF group \in D THEN None ELSE group
        /\ readers' = readers \ D
        /\ linked' = linked \ D
    BY <1>1 DEF Forget, Release, Inherited
  <1>3. /\ spoiled' = spoiled \cup {Site[c] : c \in gone}
        /\ UNCHANGED <<files, singular, shared>>
    BY DEF Crash
  <1>4. /\ gone \subseteq Conns /\ survivors \subseteq gone /\ D \subseteq gone
        /\ stay \subseteq survivors
        /\ gone \cap dead = {}
        /\ D \cap survivors = {}
    OBVIOUS
  <1> HIDE DEF survivors, D, gone
  <1>5. TypeOK'
    BY <1>2, <1>3, <1>4 DEF TypeOK, States
  <1>6. CommandsAreRun' /\ ReadLocksShow' /\ SingularIsAlone'
    BY <1>2, <1>3, <1>4 DEF TypeOK, CommandsAreRun, ReadLocksShow, SingularIsAlone, IsOpen
  <1>7. SharedAreThere'
    BY <1>2, <1>3, <1>4 DEF TypeOK, SharedAreThere, HasShared, IsOpen
  <1>8. SharedAreCaredFor'
    BY <1>2, <1>3, <1>4 DEF TypeOK, SharedAreCaredFor, WillCleanUp, IsOpen
  <1>9. DeadSpoil'
    BY <1>2, <1>3, <1>4 DEF TypeOK, DeadSpoil
  <1> QED
    BY <1>5, <1>6, <1>7, <1>8, <1>9

(* The last child of a dead connection exits: its site was spoiled.         *)
LEMMA LastChildStep ==
  ASSUME IInv, NEW c \in Conns, LastChildExits(c)
  PROVE  IInv'
  <1> USE ConnsAssumption, NoneAssumption DEF IInv
  <1>1. /\ c \in dead /\ child[c] # "running"
        /\ dead' = dead \ {c}
        /\ lingering' = lingering \ {c}
        /\ pc' = [d \in Conns |-> IF d = c THEN "down" ELSE pc[d]]
        /\ child' = [d \in Conns |-> IF d = c THEN "none" ELSE child[d]]
        /\ todo' = [d \in Conns |-> IF d = c THEN {} ELSE todo[d]]
        /\ current' = [d \in Conns |-> IF d = c THEN None ELSE current[d]]
        /\ aborted' = aborted \ {c}
        /\ group' = IF group = c THEN None ELSE group
        /\ readers' = readers \ {c}
        /\ linked' = linked \ {c}
        /\ UNCHANGED <<files, singular, shared, spoiled>>
    BY DEF LastChildExits, Forget, Release, effectVars
  <1>2. TypeOK'
    BY <1>1 DEF TypeOK, States
  <1>3. CommandsAreRun' /\ ReadLocksShow' /\ SingularIsAlone'
    BY <1>1 DEF TypeOK, CommandsAreRun, ReadLocksShow, SingularIsAlone, IsOpen
  <1>4. SharedAreThere'
    BY <1>1 DEF TypeOK, SharedAreThere, HasShared, IsOpen
  <1>5. SharedAreCaredFor'
    BY <1>1 DEF TypeOK, SharedAreCaredFor, WillCleanUp, DeadSpoil, IsOpen
  <1>6. DeadSpoil'
    BY <1>1 DEF TypeOK, DeadSpoil
  <1> QED
    BY <1>2, <1>3, <1>4, <1>5, <1>6

-----------------------------------------------------------------------------
(* The invariant in every behaviour, and what it is there for. *)

LEMMA StepInv == IInv /\ [Next]_vars => IInv'
  <1> SUFFICES ASSUME IInv, [Next]_vars PROVE IInv'
    OBVIOUS
  <1>1. ASSUME NEW c \in Conns, Open(c) \/ Close(c) \/ Abort(c) PROVE IInv'
    BY <1>1, QuietStep
  <1>2. ASSUME NEW c \in Conns, GetGroupLock(c) PROVE IInv'
    BY <1>2, EnterInitStep, EnterDeinitStep DEF GetGroupLock
  <1>3. ASSUME NEW c \in Conns, Proceed(c) PROVE IInv'
    BY <1>3, CommandSucceededStep, RunEndsStep, QuietStep, CleanupStep DEF Proceed
  <1>4. ASSUME NEW c \in Conns, ChildSucceeds(c) \/ ChildFails(c) PROVE IInv'
    BY <1>4, ChildSucceedsStep, ChildFailsStep
  <1>5. ASSUME NEW c \in Conns, LastChildExits(c) PROVE IInv'
    BY <1>5, LastChildStep
  <1>6. ASSUME NEW p \in Procs, Crash(p) PROVE IInv'
    BY <1>6, CrashStep
  <1>7. CASE UNCHANGED vars
    BY <1>7 DEF vars, lockVars, cleanupVars, crashVars, effectVars, IInv, TypeOK,
         CommandsAreRun, ReadLocksShow, SingularIsAlone, SharedAreThere,
         HasShared, SharedAreCaredFor, WillCleanUp, DeadSpoil, IsOpen
  <1> QED
    BY <1>1, <1>2, <1>3, <1>4, <1>5, <1>6, <1>7 DEF Next

LEMMA Invariance == Spec => []IInv
  BY InitInv, StepInv, PTL DEF Spec

(* Types; and the group lock is held by exactly the connection that runs a  *)
(* command or tries to unlink a file, whether its process lives or not      *)
(* (SharedResource::Lock, InitDeinitCmd.cpp:47, :109, :132).                *)
THEOREM TypeCorrect == Spec => []TypeOK
  <1>1. IInv => TypeOK
    BY DEF IInv
  <1> QED
    BY <1>1, Invariance, PTL

(* Commands of any number of processes never run at the same time, and one  *)
(* that was told $SINGULAR=1 runs while no other connection to its site is  *)
(* open, in any process and whatever crashes.                               *)
THEOREM SerialCommands == Spec => []CommandsAreSerial
  <1>1. IInv => CommandsAreSerial
    BY DEF IInv, TypeOK, CommandsAreRun, SingularIsAlone, CommandsAreSerial, IsOpen
  <1> QED
    BY <1>1, Invariance, PTL

(* What the first connection's command has set up is there as long as any   *)
(* connection to the site is open.                                          *)
THEOREM SharedStay == Spec => []SharedThingsStay
  <1>1. IInv => SharedThingsStay
    BY DEF IInv, SharedAreThere, HasShared, SharedThingsStay, IsOpen
  <1> QED
    BY <1>1, Invariance, PTL

(* When no connection to a site is left its shared things were cleaned up,  *)
(* unless a command failed, a process crashed or a connection was broken.   *)
THEOREM LastCleansUp == Spec => []LastOneCleansUp
  <1>1. IInv => LastOneCleansUp
    BY DEF IInv, TypeOK, SharedAreCaredFor, WillCleanUp, LastOneCleansUp,
         NoConnection, IsOpen
  <1> QED
    BY <1>1, Invariance, PTL
=============================================================================
