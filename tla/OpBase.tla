------------------------------- MODULE OpBase -------------------------------
(***************************************************************************)
(* An operation of NetRocks (plugins/NetRocks/src/Op/OpBase.cpp): its own   *)
(* thread goes through the items, talks to the host and asks what to do on  *)
(* errors; the main thread shows the progress, pauses, sends to background, *)
(* asks whether to abort, breaks the connection, and joins the thread.      *)
(* They share ProgressState, under its mutex, and the host.                 *)
(*                                                                          *)
(* A question of the operation is an InterThreadCall: it is shown on top of *)
(* whatever the main thread shows or waits in, as all of that dispatches    *)
(* (InterThreadCall has the details), and the main thread is back there     *)
(* when it is answered.                                                     *)
(***************************************************************************)
EXTENDS Naturals, Threaded

CONSTANTS Kinds,    \* operations, of those below
          MaxItems  \* the most files or directories of an operation

ASSUME KindsAssumption == Kinds \subseteq {"connect", "make", "remove", "xfer"}
ASSUME MaxItemsAssumption == MaxItems \in Nat

VARIABLES
    main,        \* what the main thread shows or waits in
    kind,        \* what the operation does
    thread,      \* where its thread is
    items,       \* items that are left
    paused, aborting, finished,     \* ProgressState
    hostAborted, \* HostRemote::Abort() was called, nothing reconnected since
    default,     \* _default_weas: "ask", "retry" or "skip"
    saved,       \* saved_paused of AbortOperationRequest()
    broken,      \* AbortOperationProgress::_finished
    background,  \* the operation is in the list of background tasks
    chosen,      \* history: what the Pause button was last used for
    early        \* history: the progress was shown before the thread had started

stateVars == <<paused, aborting, finished>>
mainVars == <<saved, broken, background>>
historyVars == <<chosen, early>>
vars == <<main, kind, thread, items, stateVars, hostAborted, default, mainVars,
          historyVars, trdVars>>

(* ComplexOperationProgress has a Pause button, SimpleOperationProgress has *)
(* not; the steps of "make" and its like do not use ProgressStateUpdate.    *)
Complex == kind \in {"remove", "xfer"}

MainStates == {"panels", "before", "progress", "confirm", "abort", "breaking",
               "join", "exit"}
ThreadStates == {"none", "start", "work", "call", "update", "failed", "ask",
                 "asked", "reinit", "connect", "retry", "fatal", "complain",
                 "complained", "end", "notify"}

Init == /\ main = "panels"
        /\ kind \in Kinds
        /\ thread = "none"
        /\ items = 0
        /\ paused = FALSE /\ aborting = FALSE /\ finished = FALSE
        /\ hostAborted = FALSE
        /\ default = "ask"
        /\ saved = FALSE
        /\ broken = FALSE
        /\ background = FALSE
        /\ chosen = FALSE
        /\ early = FALSE
        /\ ThreadedInit

(* The main thread is at m, with no question of the operation on top.       *)
MainAt(m) == main = m /\ thread \notin {"asked", "complained"}

-----------------------------------------------------------------------------
(* Variants with one plausible mistake each.                                *)

(* A paused operation goes on after the abort question was refused.         *)
BugRefuse ==
    /\ MainAt("confirm")
    /\ paused' = FALSE
    /\ saved' = FALSE
    /\ main' = IF finished THEN "join" ELSE "progress"
    /\ UNCHANGED <<kind, thread, items, aborting, finished, hostAborted,
                   default, broken, background, historyVars, trdVars>>

(* Aborting is looked at after the pause, which an abort does not end.      *)
BugProgressStateUpdate ==
    /\ thread = "update"
    /\ ~paused
    /\ IF aborting
       THEN thread' = "end" /\ UNCHANGED items
       ELSE thread' = "work" /\ items' = items - 1
    /\ UNCHANGED <<main, kind, stateVars, hostAborted, default, mainVars,
                   historyVars, trdVars>>

(* The thread ends without _state.finished when it is aborted.              *)
BugFinish ==
    /\ thread = "end"
    /\ finished' = ~aborting
    /\ thread' = "notify"
    /\ UNCHANGED <<main, kind, items, paused, aborting, hostAborted, default,
                   mainVars, historyVars, trdVars>>

(* The destructor trusts _state.finished.                                   *)
BugWaitThread ==
    /\ MainAt("join")
    /\ main' = "panels"
    /\ background' = FALSE
    /\ UNCHANGED <<kind, thread, items, stateVars, hostAborted, default, saved,
                   broken, historyVars, trdVars>>

-----------------------------------------------------------------------------
(* The main thread.                                                         *)

(* The constructor and StartThread().                                       *)
Start(k, n) ==
    /\ MainAt("panels")
    /\ ~background
    /\ StartThreadOK
    /\ kind' = k
    /\ items' = n
    /\ thread' = "start"
    /\ paused' = FALSE /\ aborting' = FALSE /\ finished' = FALSE
    /\ default' = "ask"
    /\ chosen' = FALSE
    /\ early' = FALSE
    /\ main' = "before"
    /\ UNCHANGED <<hostAborted, mainVars>>

(* WaitThreadBeforeShowProgress() returns true: the thread was quick.       *)
QuickOperation ==
    /\ MainAt("before")
    /\ ThreadWaited
    /\ main' = "panels"
    /\ UNCHANGED <<kind, thread, items, stateVars, hostAborted, default,
                   mainVars, historyVars>>

(* It returns false, unless a question is being asked, and Show() starts.   *)
(* All loops that show a progress end when the operation is finished.       *)
UnlessFinished(m) == IF finished THEN "join" ELSE m

ShowProgress ==
    /\ MainAt("before")
    /\ thread # "ask"
    /\ main' = UnlessFinished("progress")
    /\ early' = (thread = "start")
    /\ UNCHANGED <<kind, thread, items, stateVars, hostAborted, default,
                   mainVars, chosen, trdVars>>

(* DN_ENTERIDLE closes the progress of a finished operation.                *)
OnIdle ==
    /\ MainAt("progress")
    /\ finished
    /\ main' = "join"
    /\ UNCHANGED <<kind, thread, items, stateVars, hostAborted, default,
                   mainVars, historyVars, trdVars>>

PressPause ==
    /\ MainAt("progress")
    /\ Complex
    /\ paused' = ~paused
    /\ chosen' = ~paused
    /\ main' = UnlessFinished("progress")
    /\ UNCHANGED <<kind, thread, items, aborting, finished, hostAborted,
                   default, mainVars, early, trdVars>>

ResetAutoActions ==
    /\ MainAt("progress")
    /\ Complex
    /\ default # "ask"
    /\ default' = "ask"
    /\ main' = UnlessFinished("progress")
    /\ UNCHANGED <<kind, thread, items, stateVars, hostAborted, mainVars,
                   historyVars, trdVars>>

(* The constructor of OpXfer, or Show() of the task, returns: StartXfer()   *)
(* and ShowBackgroundTask() ask for GetStatus(), which joins a thread that  *)
(* has finished.                                                            *)
PressBackground ==
    /\ MainAt("progress")
    /\ kind = "xfer"
    /\ main' = UnlessFinished("panels")
    /\ background' = ~finished
    /\ UNCHANGED <<kind, thread, items, stateVars, hostAborted, default, saved,
                   broken, historyVars, trdVars>>

(* AbortOperationRequest(): nothing is asked when it is aborting already.   *)
PressCancel ==
    /\ MainAt("progress")
    /\ ~aborting
    /\ saved' = paused
    /\ paused' = TRUE
    /\ main' = "confirm"
    /\ UNCHANGED <<kind, thread, items, aborting, finished, hostAborted,
                   default, broken, background, historyVars, trdVars>>

Refuse ==
    /\ MainAt("confirm")
    /\ paused' = saved
    /\ saved' = FALSE
    /\ main' = UnlessFinished("progress")
    /\ UNCHANGED <<kind, thread, items, aborting, finished, hostAborted,
                   default, broken, background, historyVars, trdVars>>

(* A connection that is being made is broken at once.                       *)
Confirm ==
    /\ MainAt("confirm")
    /\ aborting' = TRUE
    /\ paused' = saved
    /\ saved' = FALSE
    /\ hostAborted' = (hostAborted \/ kind = "connect")
    /\ broken' = FALSE
    /\ main' = UnlessFinished("abort")
    /\ UNCHANGED <<kind, thread, items, finished, default, background,
                   historyVars, trdVars>>

(* AbortOperationProgress: closed when the operation has finished, but not  *)
(* after the time limit of 60 seconds has closed it once.                   *)
AbortOnIdle ==
    /\ MainAt("abort")
    /\ finished
    /\ ~broken
    /\ main' = "join"
    /\ UNCHANGED <<kind, thread, items, stateVars, hostAborted, default,
                   mainVars, historyVars, trdVars>>

TimeLimit ==
    /\ MainAt("abort")
    /\ ~finished
    /\ ~broken
    /\ broken' = TRUE
    /\ main' = "breaking"
    /\ UNCHANGED <<kind, thread, items, stateVars, hostAborted, default, saved,
                   background, historyVars, trdVars>>

PressBreak ==
    /\ MainAt("abort")
    /\ main' = UnlessFinished("breaking")
    /\ UNCHANGED <<kind, thread, items, stateVars, hostAborted, default,
                   mainVars, historyVars, trdVars>>

(* ForcefullyAbort(), of an operation that was not finished just before.    *)
ForcefullyAbort ==
    /\ MainAt("breaking")
    /\ aborting' = TRUE
    /\ hostAborted' = TRUE
    /\ main' = UnlessFinished("abort")
    /\ UNCHANGED <<kind, thread, items, paused, finished, default, mainVars,
                   historyVars, trdVars>>

(* The end of the object, or of its place in the list.                      *)
WaitThread ==
    /\ MainAt("join")
    /\ ThreadWaited
    /\ main' = "panels"
    /\ background' = FALSE
    /\ UNCHANGED <<kind, thread, items, stateVars, hostAborted, default, saved,
                   broken, historyVars>>

ShowBackgroundTask ==
    /\ MainAt("panels")
    /\ background
    /\ main' = UnlessFinished("progress")
    /\ UNCHANGED <<kind, thread, items, stateVars, hostAborted, default,
                   mainVars, historyVars, trdVars>>

(* ExitFARW() aborts the task and dispatches until it has finished.         *)
ExitFAR ==
    /\ MainAt("panels")
    /\ background
    /\ main' = UnlessFinished("exit")
    /\ aborting' = (aborting \/ ~finished)
    /\ hostAborted' = (hostAborted \/ ~finished)
    /\ UNCHANGED <<kind, thread, items, paused, finished, default, mainVars,
                   historyVars, trdVars>>

NothingPending ==
    /\ MainAt("exit")
    /\ finished
    /\ main' = "join"
    /\ UNCHANGED <<kind, thread, items, stateVars, hostAborted, default,
                   mainVars, historyVars, trdVars>>

(* DispatchInterThreadCalls(), in a dialog or in WaitThread().  No dialog   *)
(* opens when far2m goes down: that is an answer, too.                      *)
Dispatch ==
    /\ main # "breaking"
    /\ \/ /\ thread = "ask"
          /\ thread' = IF main = "exit" THEN "end" ELSE "asked"
       \/ /\ thread = "complain"
          /\ thread' = IF main = "exit" THEN "end" ELSE "complained"
    /\ UNCHANGED <<main, kind, items, stateVars, hostAborted, default, mainVars,
                   historyVars, trdVars>>

(* The user answers the question, for this and maybe for all later errors.  *)
Answer ==
    /\ thread = "asked"
    /\ \/ thread' = "reinit" /\ default' \in {"ask", "retry"} /\ UNCHANGED items
       \/ thread' = "work" /\ default' \in {"ask", "skip"} /\ items' = items - 1
       \/ thread' = "end" /\ UNCHANGED <<default, items>>
    /\ UNCHANGED <<main, kind, stateVars, hostAborted, mainVars, historyVars,
                   trdVars>>

Acknowledge ==
    /\ thread = "complained"
    /\ thread' = "end"
    /\ UNCHANGED <<main, kind, items, stateVars, hostAborted, default, mainVars,
                   historyVars, trdVars>>

-----------------------------------------------------------------------------
(* The thread of the operation.                                             *)
untouched == <<main, kind, stateVars, default, mainVars, historyVars>>

ResetProgressState ==
    /\ thread = "start"
    /\ paused' = FALSE /\ aborting' = FALSE /\ finished' = FALSE
    /\ thread' = IF kind = "connect" THEN "reinit" ELSE "work"
    /\ UNCHANGED <<main, kind, items, hostAborted, default, mainVars,
                   historyVars, trdVars>>

NextItem ==
    /\ thread = "work"
    /\ thread' = IF items = 0 THEN "end" ELSE "call"
    /\ UNCHANGED <<untouched, items, hostAborted, trdVars>>

(* A call of the host; it may take for ever, unless Abort() breaks it.      *)
CallSucceeds ==
    /\ thread = "call"
    /\ ~hostAborted
    /\ IF Complex
       THEN thread' = "update" /\ UNCHANGED items
       ELSE thread' = "work" /\ items' = items - 1
    /\ UNCHANGED <<untouched, hostAborted, trdVars>>

CallFails ==
    /\ thread = "call"
    /\ thread' = "failed"
    /\ UNCHANGED <<untouched, items, hostAborted, trdVars>>

(* It sleeps as long as it is paused, and throws when it is aborted.        *)
ProgressStateUpdate ==
    /\ thread = "update"
    /\ \/ /\ aborting
          /\ thread' = "end"
          /\ UNCHANGED items
       \/ /\ ~aborting /\ ~paused
          /\ thread' = "work"
          /\ items' = items - 1
    /\ UNCHANGED <<untouched, hostAborted, trdVars>>

(* WhatOnErrorState::Query(): aborting is looked at only in the delay of an *)
(* automatic retry, which is zero at first.                                 *)
Query ==
    /\ thread = "failed"
    /\ \/ default = "ask" /\ thread' = "ask" /\ UNCHANGED items
       \/ default = "skip" /\ thread' = "work" /\ items' = items - 1
       \/ default = "retry" /\ thread' = "reinit" /\ UNCHANGED items
       \/ default = "retry" /\ aborting /\ thread' = "end" /\ UNCHANGED items
    /\ UNCHANGED <<untouched, hostAborted, trdVars>>

(* HostRemote::ReInitialize() forgets an earlier Abort() when it gives the  *)
(* receiver new pipes.                                                      *)
ReInitialize ==
    /\ thread = "reinit"
    /\ hostAborted' = FALSE
    /\ thread' = "connect"
    /\ UNCHANGED <<untouched, items, trdVars>>

Connected ==
    /\ thread = "connect"
    /\ ~hostAborted
    /\ thread' = IF kind = "connect" THEN "end" ELSE "retry"
    /\ UNCHANGED <<untouched, items, hostAborted, trdVars>>

(* An error, or AbortError when the user cancels the login.                 *)
ConnectFails ==
    /\ thread = "connect"
    /\ thread' \in {"fatal", "end"}
    /\ UNCHANGED <<untouched, items, hostAborted, trdVars>>

Retry ==
    /\ thread = "retry"
    /\ thread' = IF aborting THEN "end" ELSE "call"
    /\ UNCHANGED <<untouched, items, hostAborted, trdVars>>

(* An exception left Process(): it is shown, unless aborting.               *)
Complain ==
    /\ thread = "fatal"
    /\ thread' = IF aborting THEN "end" ELSE "complain"
    /\ UNCHANGED <<untouched, items, hostAborted, trdVars>>

Finish ==
    /\ thread = "end"
    /\ finished' = TRUE
    /\ thread' = "notify"
    /\ UNCHANGED <<main, kind, items, paused, aborting, hostAborted, default,
                   mainVars, historyVars, trdVars>>

Exit ==
    /\ thread = "notify"
    /\ ThreadExits
    /\ thread' = "none"
    /\ UNCHANGED <<untouched, items, hostAborted>>

-----------------------------------------------------------------------------
MainStep == \/ QuickOperation \/ ShowProgress \/ OnIdle \/ AbortOnIdle
            \/ ForcefullyAbort \/ WaitThread \/ NothingPending

UserStep == \/ PressPause \/ ResetAutoActions \/ PressBackground \/ PressCancel
            \/ ShowBackgroundTask \/ ExitFAR \/ TimeLimit

Reply == Refuse \/ Confirm \/ Answer \/ Acknowledge

ThreadStep == \/ ResetProgressState \/ NextItem \/ ProgressStateUpdate \/ Query
              \/ ReInitialize \/ Retry \/ Complain \/ Finish \/ Exit

HostStep == CallSucceeds \/ CallFails \/ Connected \/ ConnectFails

Next == \/ \E k \in Kinds, n \in 1 .. MaxItems : Start(k, n)
        \/ MainStep \/ Dispatch \/ UserStep \/ Reply \/ PressBreak
        \/ ThreadStep \/ HostStep

Spec == Init /\ [][Next]_vars

(* Both threads go on, and every dialog dispatches; the user answers what   *)
(* he is asked, and breaks the connection if he is told again and again     *)
(* that the operation is being aborted; calls of an aborted host fail.      *)
FairSpec == /\ Spec
            /\ WF_vars(MainStep)
            /\ SF_vars(Dispatch)
            /\ WF_vars(Reply)
            /\ SF_vars(PressBreak)
            /\ WF_vars(ThreadStep)
            /\ WF_vars(hostAborted /\ HostStep)

-----------------------------------------------------------------------------
(* Types; the destructors never meet a thread that was not joined, which    *)
(* would be an ABORT() (Threaded.cpp:14).                                   *)
TypeOK ==
    /\ main \in MainStates
    /\ kind \in Kinds
    /\ thread \in ThreadStates
    /\ items \in 0 .. MaxItems
    /\ {paused, aborting, finished, hostAborted} \subseteq BOOLEAN
    /\ {saved, broken, background, chosen, early} \subseteq BOOLEAN
    /\ default \in {"ask", "retry", "skip"}
    /\ ThreadedTypeOK
    /\ main = "panels" /\ ~background => MayBeDestroyed

(* The abort question pauses the operation, and gives it back as the user   *)
(* wanted it, however questions, errors and aborts alternate.  Early clicks *)
(* are different: the thread resets the state when it starts.               *)
PauseIsTheUsers ==
    ~early => /\ main = "confirm" => paused /\ saved = chosen
              /\ main # "confirm" => paused = chosen

(* An operation that the user aborts ends, paused or not, whatever the host *)
(* does and also if the abort came too early; so does far2m, unless the     *)
(* abort was forgotten by a reconnection that hangs.                        *)
AbortedOperationEnds ==
    /\ main = "abort" ~> finished
    /\ main = "exit" ~> finished \/ (thread = "connect" /\ ~hostAborted)

(* When the thread has ended the main thread gets out of whatever dialog it *)
(* is in, and joins it: also when the end met a question, or a connection   *)
(* that was being broken.                                                   *)
EndedIsCollected == thread = "none" /\ main # "panels" ~> main = "panels"
=============================================================================
