---------------------------- MODULE OpBaseProofs ----------------------------
(***************************************************************************)
(* Proofs, for any number of items, about the operations of NetRocks and    *)
(* their progress dialogs (OpBase).                                         *)
(***************************************************************************)
EXTENDS OpBase, TLAPS

-----------------------------------------------------------------------------
(* The inductive invariant. *)

(* The part of TypeOK that is about flags.                                  *)
FlagsOK == /\ {paused, aborting, finished, hostAborted} \subseteq BOOLEAN
           /\ {saved, broken, background, chosen, early} \subseteq BOOLEAN
           /\ ThreadedTypeOK

(* The flags of Threaded say whether there is a thread.                     *)
ThreadIsKnown == /\ trdExited <=> thread = "none"
                 /\ trdJoined => trdExited

(* A thread that works on an item has one.                                  *)
ItemsAreLeft ==
    thread \in {"start", "call", "update", "failed", "ask", "asked", "reinit",
                "connect", "retry"} => items > 0

(* Unless its progress was shown too early, nobody can have used the Pause  *)
(* button before the thread resets the state.                               *)
NobodyPausesTheStart == /\ main = "before" => ~early /\ ~chosen
                        /\ thread = "start" /\ ~early => main = "before"

(* Who shows the progress of an operation whose thread is at its end finds  *)
(* it finished.                                                             *)
EndedIsFinished ==
    thread \in {"notify", "none"} /\ (main # "panels" \/ background) => finished

IInv == /\ TypeOK
        /\ PauseIsTheUsers
        /\ ThreadIsKnown
        /\ ItemsAreLeft
        /\ NobodyPausesTheStart
        /\ EndedIsFinished

LEMMA InitInv == Init => IInv
  <1> SUFFICES ASSUME Init PROVE IInv
    OBVIOUS
  <1>1. FlagsOK
    BY Zenon DEF Init, ThreadedInit, FlagsOK, ThreadedTypeOK
  <1>2. TypeOK
    BY <1>1, MaxItemsAssumption DEF Init, ThreadedInit, FlagsOK, TypeOK, MainStates,
       ThreadStates, MayBeDestroyed
  <1> QED
    BY <1>2 DEF Init, ThreadedInit, IInv, PauseIsTheUsers, ThreadIsKnown,
       ItemsAreLeft, NobodyPausesTheStart, EndedIsFinished

(* The flags stay flags.                                                    *)
LEMMA FlagsStep ==
  ASSUME FlagsOK, Next
  PROVE  FlagsOK'
  <1> USE DEF FlagsOK, ThreadedTypeOK
  <1>1. CASE \E k \in Kinds, n \in 1 .. MaxItems : Start(k, n)
    BY <1>1, Zenon DEF Start, StartThreadOK, mainVars
  <1>2. CASE MainStep
    BY <1>2, Zenon DEF MainStep, QuickOperation, ShowProgress, OnIdle,
       AbortOnIdle, ForcefullyAbort, WaitThread, NothingPending, ThreadWaited,
       stateVars, mainVars, historyVars, trdVars
  <1>3. CASE Dispatch
    BY <1>3, Zenon DEF Dispatch, stateVars, mainVars, historyVars, trdVars
  <1>4. CASE UserStep
    BY <1>4, Zenon DEF UserStep, PressPause, ResetAutoActions, PressBackground,
       PressCancel, ShowBackgroundTask, ExitFAR, TimeLimit, stateVars,
       mainVars, historyVars, trdVars
  <1>5. CASE Reply
    BY <1>5, Zenon DEF Reply, Refuse, Confirm, Answer, Acknowledge, stateVars,
       mainVars, historyVars, trdVars
  <1>6. CASE PressBreak
    BY <1>6, Zenon DEF PressBreak, stateVars, mainVars, historyVars, trdVars
  <1>7. CASE ThreadStep
    BY <1>7, Zenon DEF ThreadStep, ResetProgressState, NextItem,
       ProgressStateUpdate, Query, ReInitialize, Retry, Complain, Finish, Exit,
       ThreadExits, untouched, stateVars, mainVars, historyVars, trdVars
  <1>8. CASE HostStep
    BY <1>8, Zenon DEF HostStep, CallSucceeds, CallFails, Connected,
       ConnectFails, untouched, stateVars, mainVars, historyVars, trdVars
  <1> QED
    BY <1>1, <1>2, <1>3, <1>4, <1>5, <1>6, <1>7, <1>8 DEF Next

-----------------------------------------------------------------------------
(* Steps of the main thread and of the user. *)

(* The constructor makes everything new.                                    *)
LEMMA StartStep ==
  ASSUME IInv, FlagsOK', NEW k \in Kinds, NEW n \in 1 .. MaxItems, Start(k, n)
  PROVE  IInv'
  <1> USE MaxItemsAssumption
      DEF IInv, Start, MainAt, StartThreadOK, StillRunning, mainVars
  <1>1. TypeOK'
    BY DEF TypeOK, FlagsOK, ThreadedTypeOK, MainStates, ThreadStates,
         MayBeDestroyed
  <1>2. PauseIsTheUsers'
    BY DEF TypeOK, PauseIsTheUsers, NobodyPausesTheStart
  <1>3. ThreadIsKnown'
    BY DEF TypeOK, ThreadedTypeOK, ThreadIsKnown
  <1>4. ItemsAreLeft'
    BY DEF TypeOK, ItemsAreLeft
  <1>5. NobodyPausesTheStart'
    BY DEF NobodyPausesTheStart
  <1>6. EndedIsFinished'
    BY DEF EndedIsFinished
  <1> QED
    BY <1>1, <1>2, <1>3, <1>4, <1>5, <1>6

(* The progress is shown: before the thread has started, or not.            *)
LEMMA ShowStep ==
  ASSUME IInv, FlagsOK', ShowProgress
  PROVE  IInv'
  <1> USE MaxItemsAssumption
      DEF IInv, ShowProgress, MainAt, UnlessFinished, stateVars, mainVars, historyVars, trdVars
  <1>1. TypeOK'
    BY DEF TypeOK, FlagsOK, ThreadedTypeOK, MainStates, ThreadStates,
         MayBeDestroyed
  <1>2. PauseIsTheUsers'
    BY DEF TypeOK, PauseIsTheUsers, NobodyPausesTheStart
  <1>3. ThreadIsKnown'
    BY DEF TypeOK, ThreadedTypeOK, ThreadIsKnown
  <1>4. ItemsAreLeft'
    BY DEF TypeOK, ItemsAreLeft
  <1>5. NobodyPausesTheStart'
    BY DEF NobodyPausesTheStart
  <1>6. EndedIsFinished'
    BY DEF EndedIsFinished
  <1> QED
    BY <1>1, <1>2, <1>3, <1>4, <1>5, <1>6

(* The thread was joined: nothing of it is left to reset what is paused.    *)
LEMMA WaitStep ==
  ASSUME IInv, FlagsOK', QuickOperation \/ WaitThread
  PROVE  IInv'
  <1> USE MaxItemsAssumption
      DEF IInv, QuickOperation, WaitThread, MainAt, ThreadWaited, stateVars, mainVars, historyVars, trdVars
  <1>1. TypeOK'
    BY DEF TypeOK, FlagsOK, ThreadedTypeOK, MainStates, ThreadStates,
         MayBeDestroyed
  <1>2. PauseIsTheUsers'
    BY DEF TypeOK, PauseIsTheUsers, NobodyPausesTheStart
  <1>3. ThreadIsKnown'
    BY DEF TypeOK, ThreadedTypeOK, ThreadIsKnown
  <1>4. ItemsAreLeft'
    BY DEF TypeOK, ItemsAreLeft
  <1>5. NobodyPausesTheStart'
    BY DEF NobodyPausesTheStart, ThreadIsKnown
  <1>6. EndedIsFinished'
    BY DEF EndedIsFinished
  <1> QED
    BY <1>1, <1>2, <1>3, <1>4, <1>5, <1>6

(* Dialogs that close by themselves, or break the connection.               *)
LEMMA IdleStep ==
  ASSUME IInv, FlagsOK', OnIdle \/ AbortOnIdle \/ ForcefullyAbort \/ NothingPending
  PROVE  IInv'
  <1> USE MaxItemsAssumption
      DEF IInv, OnIdle, AbortOnIdle, ForcefullyAbort, NothingPending, UnlessFinished, MainAt, stateVars, mainVars, historyVars, trdVars
  <1>1. TypeOK'
    BY DEF TypeOK, FlagsOK, ThreadedTypeOK, MainStates, ThreadStates,
         MayBeDestroyed
  <1>2. PauseIsTheUsers'
    BY DEF TypeOK, PauseIsTheUsers, NobodyPausesTheStart
  <1>3. ThreadIsKnown'
    BY DEF TypeOK, ThreadedTypeOK, ThreadIsKnown
  <1>4. ItemsAreLeft'
    BY DEF TypeOK, ItemsAreLeft
  <1>5. NobodyPausesTheStart'
    BY DEF NobodyPausesTheStart
  <1>6. EndedIsFinished'
    BY DEF EndedIsFinished
  <1> QED
    BY <1>1, <1>2, <1>3, <1>4, <1>5, <1>6

(* The buttons of the progress dialog.                                      *)
LEMMA PauseStep ==
  ASSUME IInv, FlagsOK', PressPause \/ ResetAutoActions \/ PressCancel
  PROVE  IInv'
  <1> USE MaxItemsAssumption
      DEF IInv, PressPause, ResetAutoActions, PressCancel, UnlessFinished, MainAt, stateVars, mainVars, historyVars, trdVars
  <1>1. TypeOK'
    BY DEF TypeOK, FlagsOK, ThreadedTypeOK, MainStates, ThreadStates,
         MayBeDestroyed
  <1>2. PauseIsTheUsers'
    BY DEF TypeOK, PauseIsTheUsers, NobodyPausesTheStart
  <1>3. ThreadIsKnown'
    BY DEF TypeOK, ThreadedTypeOK, ThreadIsKnown
  <1>4. ItemsAreLeft'
    BY DEF TypeOK, ItemsAreLeft
  <1>5. NobodyPausesTheStart'
    BY DEF NobodyPausesTheStart
  <1>6. EndedIsFinished'
    BY DEF EndedIsFinished
  <1> QED
    BY <1>1, <1>2, <1>3, <1>4, <1>5, <1>6

(* The operation goes to the background and comes back.                     *)
LEMMA BackgroundStep ==
  ASSUME IInv, FlagsOK', PressBackground \/ ShowBackgroundTask \/ ExitFAR
  PROVE  IInv'
  <1> USE MaxItemsAssumption
      DEF IInv, PressBackground, ShowBackgroundTask, ExitFAR, UnlessFinished, MainAt, stateVars, mainVars, historyVars, trdVars
  <1>1. TypeOK'
    BY DEF TypeOK, FlagsOK, ThreadedTypeOK, MainStates, ThreadStates,
         MayBeDestroyed
  <1>2. PauseIsTheUsers'
    BY DEF TypeOK, PauseIsTheUsers, NobodyPausesTheStart
  <1>3. ThreadIsKnown'
    BY DEF TypeOK, ThreadedTypeOK, ThreadIsKnown
  <1>4. ItemsAreLeft'
    BY DEF TypeOK, ItemsAreLeft
  <1>5. NobodyPausesTheStart'
    BY DEF NobodyPausesTheStart
  <1>6. EndedIsFinished'
    BY DEF EndedIsFinished
  <1> QED
    BY <1>1, <1>2, <1>3, <1>4, <1>5, <1>6

(* The abort question is answered, and gives the pause back.                *)
LEMMA ReplyStep ==
  ASSUME IInv, FlagsOK', Refuse \/ Confirm
  PROVE  IInv'
  <1> USE MaxItemsAssumption
      DEF IInv, Refuse, Confirm, UnlessFinished, MainAt, stateVars, mainVars, historyVars, trdVars
  <1>1. TypeOK'
    BY DEF TypeOK, FlagsOK, ThreadedTypeOK, MainStates, ThreadStates,
         MayBeDestroyed
  <1>2. PauseIsTheUsers'
    BY DEF TypeOK, PauseIsTheUsers, NobodyPausesTheStart
  <1>3. ThreadIsKnown'
    BY DEF TypeOK, ThreadedTypeOK, ThreadIsKnown
  <1>4. ItemsAreLeft'
    BY DEF TypeOK, ItemsAreLeft
  <1>5. NobodyPausesTheStart'
    BY DEF NobodyPausesTheStart
  <1>6. EndedIsFinished'
    BY DEF EndedIsFinished
  <1> QED
    BY <1>1, <1>2, <1>3, <1>4, <1>5, <1>6

(* The abort takes long.                                                    *)
LEMMA BreakStep ==
  ASSUME IInv, FlagsOK', TimeLimit \/ PressBreak
  PROVE  IInv'
  <1> USE MaxItemsAssumption
      DEF IInv, TimeLimit, PressBreak, UnlessFinished, MainAt, stateVars, mainVars, historyVars, trdVars
  <1>1. TypeOK'
    BY DEF TypeOK, FlagsOK, ThreadedTypeOK, MainStates, ThreadStates,
         MayBeDestroyed
  <1>2. PauseIsTheUsers'
    BY DEF TypeOK, PauseIsTheUsers, NobodyPausesTheStart
  <1>3. ThreadIsKnown'
    BY DEF TypeOK, ThreadedTypeOK, ThreadIsKnown
  <1>4. ItemsAreLeft'
    BY DEF TypeOK, ItemsAreLeft
  <1>5. NobodyPausesTheStart'
    BY DEF NobodyPausesTheStart
  <1>6. EndedIsFinished'
    BY DEF EndedIsFinished
  <1> QED
    BY <1>1, <1>2, <1>3, <1>4, <1>5, <1>6

(* Questions of the operation.                                              *)
LEMMA QuestionStep ==
  ASSUME IInv, FlagsOK', Dispatch \/ Answer \/ Acknowledge
  PROVE  IInv'
  <1> USE MaxItemsAssumption
      DEF IInv, Dispatch, Answer, Acknowledge, stateVars, mainVars, historyVars, trdVars
  <1>1. TypeOK'
    BY DEF TypeOK, FlagsOK, ThreadedTypeOK, MainStates, ThreadStates,
         MayBeDestroyed, ItemsAreLeft
  <1>2. PauseIsTheUsers'
    BY DEF TypeOK, PauseIsTheUsers, NobodyPausesTheStart
  <1>3. ThreadIsKnown'
    BY DEF TypeOK, ThreadedTypeOK, ThreadIsKnown
  <1>4. ItemsAreLeft'
    BY DEF TypeOK, ItemsAreLeft
  <1>5. NobodyPausesTheStart'
    BY DEF NobodyPausesTheStart
  <1>6. EndedIsFinished'
    BY DEF EndedIsFinished
  <1> QED
    BY <1>1, <1>2, <1>3, <1>4, <1>5, <1>6

-----------------------------------------------------------------------------
(* Steps of the thread. *)

(* The thread resets the state, which the user has seen only if it was      *)
(* shown too early.                                                         *)
LEMMA ThreadStartStep ==
  ASSUME IInv, FlagsOK', ResetProgressState
  PROVE  IInv'
  <1> USE MaxItemsAssumption
      DEF IInv, ResetProgressState, stateVars, mainVars, historyVars, trdVars
  <1>1. TypeOK'
    BY DEF TypeOK, FlagsOK, ThreadedTypeOK, MainStates, ThreadStates,
         MayBeDestroyed
  <1>2. PauseIsTheUsers'
    BY DEF TypeOK, PauseIsTheUsers, NobodyPausesTheStart
  <1>3. ThreadIsKnown'
    BY DEF TypeOK, ThreadedTypeOK, ThreadIsKnown
  <1>4. ItemsAreLeft'
    BY DEF TypeOK, ItemsAreLeft
  <1>5. NobodyPausesTheStart'
    BY DEF NobodyPausesTheStart
  <1>6. EndedIsFinished'
    BY DEF EndedIsFinished
  <1> QED
    BY <1>1, <1>2, <1>3, <1>4, <1>5, <1>6

(* The thread goes through the items.                                       *)
LEMMA WorkStep ==
  ASSUME IInv, FlagsOK', NextItem \/ ProgressStateUpdate \/ Query
  PROVE  IInv'
  <1> USE MaxItemsAssumption
      DEF IInv, NextItem, ProgressStateUpdate, Query, untouched, stateVars, mainVars, historyVars, trdVars
  <1>1. TypeOK'
    BY DEF TypeOK, FlagsOK, ThreadedTypeOK, MainStates, ThreadStates,
         MayBeDestroyed, ItemsAreLeft
  <1>2. PauseIsTheUsers'
    BY DEF TypeOK, PauseIsTheUsers, NobodyPausesTheStart
  <1>3. ThreadIsKnown'
    BY DEF TypeOK, ThreadedTypeOK, ThreadIsKnown
  <1>4. ItemsAreLeft'
    BY DEF TypeOK, ItemsAreLeft
  <1>5. NobodyPausesTheStart'
    BY DEF NobodyPausesTheStart
  <1>6. EndedIsFinished'
    BY DEF EndedIsFinished
  <1> QED
    BY <1>1, <1>2, <1>3, <1>4, <1>5, <1>6

(* Errors and reconnections.                                                *)
LEMMA RetryStep ==
  ASSUME IInv, FlagsOK', ReInitialize \/ Retry \/ Complain
  PROVE  IInv'
  <1> USE MaxItemsAssumption
      DEF IInv, ReInitialize, Retry, Complain, untouched, stateVars, mainVars, historyVars, trdVars
  <1>1. TypeOK'
    BY DEF TypeOK, FlagsOK, ThreadedTypeOK, MainStates, ThreadStates,
         MayBeDestroyed
  <1>2. PauseIsTheUsers'
    BY DEF TypeOK, PauseIsTheUsers, NobodyPausesTheStart
  <1>3. ThreadIsKnown'
    BY DEF TypeOK, ThreadedTypeOK, ThreadIsKnown
  <1>4. ItemsAreLeft'
    BY DEF TypeOK, ItemsAreLeft
  <1>5. NobodyPausesTheStart'
    BY DEF NobodyPausesTheStart
  <1>6. EndedIsFinished'
    BY DEF EndedIsFinished
  <1> QED
    BY <1>1, <1>2, <1>3, <1>4, <1>5, <1>6

(* The end of the thread.                                                   *)
LEMMA EndStep ==
  ASSUME IInv, FlagsOK', Finish \/ Exit
  PROVE  IInv'
  <1> USE MaxItemsAssumption
      DEF IInv, Finish, Exit, ThreadExits, untouched, stateVars, mainVars, historyVars, trdVars
  <1>1. TypeOK'
    BY DEF TypeOK, FlagsOK, ThreadedTypeOK, MainStates, ThreadStates,
         MayBeDestroyed
  <1>2. PauseIsTheUsers'
    BY DEF TypeOK, PauseIsTheUsers, NobodyPausesTheStart
  <1>3. ThreadIsKnown'
    BY DEF TypeOK, ThreadedTypeOK, ThreadIsKnown
  <1>4. ItemsAreLeft'
    BY DEF TypeOK, ItemsAreLeft
  <1>5. NobodyPausesTheStart'
    BY DEF NobodyPausesTheStart
  <1>6. EndedIsFinished'
    BY DEF EndedIsFinished
  <1> QED
    BY <1>1, <1>2, <1>3, <1>4, <1>5, <1>6

(* The host answers, or fails.                                              *)
LEMMA CallStep ==
  ASSUME IInv, FlagsOK', HostStep
  PROVE  IInv'
  <1> USE MaxItemsAssumption
      DEF IInv, HostStep, CallSucceeds, CallFails, Connected, ConnectFails, untouched, stateVars, mainVars, historyVars, trdVars
  <1>1. TypeOK'
    BY DEF TypeOK, FlagsOK, ThreadedTypeOK, MainStates, ThreadStates,
         MayBeDestroyed, ItemsAreLeft
  <1>2. PauseIsTheUsers'
    BY DEF TypeOK, PauseIsTheUsers, NobodyPausesTheStart
  <1>3. ThreadIsKnown'
    BY DEF TypeOK, ThreadedTypeOK, ThreadIsKnown
  <1>4. ItemsAreLeft'
    BY DEF TypeOK, ItemsAreLeft
  <1>5. NobodyPausesTheStart'
    BY DEF NobodyPausesTheStart
  <1>6. EndedIsFinished'
    BY DEF EndedIsFinished
  <1> QED
    BY <1>1, <1>2, <1>3, <1>4, <1>5, <1>6

-----------------------------------------------------------------------------
(* The invariant in every behaviour, and what it is there for. *)

LEMMA StepInv == IInv /\ [Next]_vars => IInv'
  <1>1. ASSUME IInv, Next PROVE IInv'
    <2>1. FlagsOK
      BY <1>1 DEF IInv, TypeOK, FlagsOK
    <2>2. FlagsOK'
      BY <1>1, <2>1, FlagsStep
    <2>3. CASE \E k \in Kinds, n \in 1 .. MaxItems : Start(k, n)
      BY <1>1, <2>2, <2>3, StartStep
    <2>4. CASE MainStep
      BY <1>1, <2>2, <2>4, ShowStep, WaitStep, IdleStep DEF MainStep
    <2>5. CASE Dispatch \/ Reply
      BY <1>1, <2>2, <2>5, QuestionStep, ReplyStep DEF Reply
    <2>6. CASE UserStep \/ PressBreak
      BY <1>1, <2>2, <2>6, PauseStep, BackgroundStep, BreakStep DEF UserStep
    <2>7. CASE ThreadStep
      BY <1>1, <2>2, <2>7, ThreadStartStep, WorkStep, RetryStep, EndStep
         DEF ThreadStep
    <2>8. CASE HostStep
      BY <1>1, <2>2, <2>8, CallStep
    <2> QED
      BY <1>1, <2>3, <2>4, <2>5, <2>6, <2>7, <2>8 DEF Next
  <1>2. ASSUME IInv, UNCHANGED vars PROVE IInv'
    BY <1>2 DEF vars, stateVars, mainVars, historyVars, trdVars, IInv, TypeOK,
       ThreadedTypeOK, MayBeDestroyed, PauseIsTheUsers, ThreadIsKnown,
       ItemsAreLeft, NobodyPausesTheStart, EndedIsFinished
  <1> QED
    BY <1>1, <1>2

LEMMA Invariance == Spec => []IInv
  BY InitInv, StepInv, PTL DEF Spec

(* Types; and an operation that nobody shows, and that is not in the        *)
(* background, was joined: its destructor does not ABORT().                 *)
THEOREM TypeCorrect == Spec => []TypeOK
  <1>1. IInv => TypeOK
    BY DEF IInv
  <1> QED
    BY <1>1, Invariance, PTL

(* Whatever questions, errors, aborts and reconnections come in between,    *)
(* the operation is paused by the abort question or if the user has paused  *)
(* it, and by nothing else.                                                 *)
THEOREM PauseIsKept == Spec => []PauseIsTheUsers
  <1>1. IInv => PauseIsTheUsers
    BY DEF IInv
  <1> QED
    BY <1>1, Invariance, PTL

(* A thread that has ended has said so in ProgressState: every dialog that  *)
(* shows the operation can see it.                                          *)
THEOREM EndIsSeen == Spec => []EndedIsFinished
  <1>1. IInv => EndedIsFinished
    BY DEF IInv
  <1> QED
    BY <1>1, Invariance, PTL
=============================================================================
