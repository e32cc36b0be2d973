---------------------------- MODULE RemoteCalls ------------------------------
(***************************************************************************)
(* What far/src/base/InterThreadCall.hpp promises to the threads that call  *)
(* functions of the main thread: InterThreadCall() returns after its        *)
(* function was executed once by the main thread, or fails; functions nest  *)
(* like function calls do, because one thread executes them all; and once   *)
(* the main thread stopped to serve them none is executed any more.         *)
(***************************************************************************)
EXTENDS Integers

CONSTANTS Callers,      \* threads that call the main thread
          AsyncCallers, \* those that use InterThreadCallAsync()
          Depths        \* how deep the functions of the main thread may nest

VARIABLES call,     \* what became of each caller's call
          running,  \* calls whose functions are under way, by their depth
          open      \* whether the main thread serves calls

vars == <<call, running, open>>

Statuses == {"idle", "pending", "running", "done", "failed"}

(* A synchronous caller learns of the outcome.                              *)
Outcome(c, status) == IF c \in AsyncCallers THEN "idle" ELSE status

Init == /\ call = [c \in Callers |-> "idle"]
        /\ running = [d \in {} |-> 0]
        /\ open = TRUE

Call(c) == /\ call[c] = "idle"
           /\ call' = [call EXCEPT ![c] = IF open THEN "pending"
                                          ELSE Outcome(c, "failed")]
           /\ UNCHANGED <<running, open>>

(* A function starts inside of those that are under way.                    *)
Start(c) == /\ open
            /\ call[c] = "pending"
            /\ call' = [call EXCEPT ![c] = "running"]
            /\ \E d \in Depths :
                  /\ \A e \in DOMAIN running : e < d
                  /\ running' = [e \in DOMAIN running \cup {d} |->
                                    IF e = d THEN c ELSE running[e]]
            /\ UNCHANGED open

(* Only the innermost function can end, with a result or an exception.      *)
Finish(status) ==
    /\ \E d \in DOMAIN running :
          /\ \A e \in DOMAIN running : e <= d
          /\ call' = [call EXCEPT ![running[d]] = Outcome(running[d], status)]
          /\ running' = [e \in DOMAIN running \ {d} |-> running[e]]
    /\ UNCHANGED open

Close == /\ DOMAIN running = {}
         /\ open' = FALSE
         /\ UNCHANGED <<call, running>>

Discard(c) == /\ ~open
              /\ call[c] = "pending"
              /\ call' = [call EXCEPT ![c] = Outcome(c, "failed")]
              /\ UNCHANGED <<running, open>>

Return(c) == /\ call[c] \in {"done", "failed"}
             /\ call' = [call EXCEPT ![c] = "idle"]
             /\ UNCHANGED <<running, open>>

Next == \/ \E c \in Callers : Call(c) \/ Start(c) \/ Discard(c) \/ Return(c)
        \/ \E status \in {"done", "failed"} : Finish(status)
        \/ Close

Spec == Init /\ [][Next]_vars
=============================================================================
