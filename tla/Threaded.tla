------------------------------ MODULE Threaded ------------------------------
(***************************************************************************)
(* utils/src/Threaded.cpp: an object that owns at most one thread.  Its two *)
(* flags are guarded by `_trd_mtx`, which is left between any two steps.    *)
(* The modules that extend this one say what ThreadProc() does; only the    *)
(* sudo client's threads destroy themselves, which is left out.             *)
(***************************************************************************)
CONSTANT CreationMayFail   \* whether pthread_create() may fail

ASSUME CreationAssumption == CreationMayFail \in BOOLEAN

VARIABLES trdExited,   \* _trd_exited: there is no thread, or it is past ThreadProc()
          trdJoined    \* _trd_joined: there is no thread that was not joined

trdVars == <<trdExited, trdJoined>>

ThreadedTypeOK == trdExited \in BOOLEAN /\ trdJoined \in BOOLEAN

ThreadedInit == trdExited = TRUE /\ trdJoined = TRUE

(* A thread that runs, or has returned from ThreadProc() without having     *)
(* said so yet.                                                             *)
StillRunning == ~trdJoined /\ ~trdExited

(* StartThread() returns true: an exited thread is joined, a new one runs.  *)
StartThreadOK ==
    /\ ~StillRunning
    /\ trdExited' = FALSE
    /\ trdJoined' = FALSE

(* StartThread() returns false: the earlier thread still runs, or           *)
(* pthread_create() fails.                                                  *)
StartThreadFails ==
    \/ StillRunning /\ UNCHANGED trdVars
    \/ /\ CreationMayFail
       /\ ~StillRunning
       /\ trdExited' = TRUE
       /\ trdJoined' = TRUE

(* sThreadProc() after ThreadProc() has returned.                           *)
ThreadExits == trdExited' = TRUE /\ UNCHANGED trdJoined

(* WaitThread() without a limit returns.                                    *)
ThreadWaited ==
    /\ trdExited
    /\ trdJoined' = TRUE
    /\ UNCHANGED trdExited

(* What the destructor checks; otherwise it calls ABORT().                  *)
MayBeDestroyed == trdExited /\ trdJoined
=============================================================================
