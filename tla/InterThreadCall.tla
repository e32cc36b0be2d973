-------------------------- MODULE InterThreadCall ----------------------------
(***************************************************************************)
(* far/src/base/InterThreadCall.cpp and .hpp: threads queue delegates that  *)
(* the main thread executes between two events of the console input.  The   *)
(* module is composed with ConsoleInput: an event of type "noop" in that    *)
(* queue tells the main thread to look at the delegates, and a password     *)
(* screen may take it away.                                                 *)
(*                                                                         *)
(* The main thread is a stack of frames, one for each loop it is in:        *)
(*   panels  Manager::ProcessMainLoop() of the panels                       *)
(*   dialog  the same below Manager::ExecuteModal()                         *)
(*   menu    Modal::Process() of far/src/modal.cpp                          *)
(*   wait    WAIT_FOR_AND_DISPATCH_INTER_THREAD_CALLS                       *)
(*   plugin  a plugin that calls DispatchInterThreadCalls()                 *)
(* Functions called from other threads, and the handlers of keys, open      *)
(* further loops; only the last frame runs.                                 *)
(***************************************************************************)
EXTENDS Naturals, Sequences, FiniteSets

CONSTANTS Main,          \* the main thread, as a reader of the console input
          Callers,       \* other threads; each has one call under way at most
          AsyncCallers,  \* those that use InterThreadCallAsync()
          Loops,         \* kinds of loops that are opened over the panels
          Diversions,    \* what takes events away from a loop that polls
          WaitForTaken,  \* whether waits are for threads whose calls are taken
          MaxDepth,      \* bound: frames on the stack
          Screens, MaxPending, MaxScreens  \* see ConsoleInput

ASSUME CallersAssumption == AsyncCallers \subseteq Callers
ASSUME LoopsAssumption == Loops \subseteq {"dialog", "menu", "wait", "plugin"}
ASSUME DiversionsAssumption ==
    Diversions \subseteq {"update", "saver", "nested", "skip", "callback"}
ASSUME SwitchAssumption == WaitForTaken \in BOOLEAN
ASSUME DepthAssumption == MaxDepth \in Nat \ {0}

VARIABLES
    call,         \* where each caller is: see Statuses
    delegates,    \* s_interlocked_delegates
    dispatching,  \* s_interlocked_delegates_tid # 0: it is the main thread's
    discarding,   \* the delegates ~InterThreadCallsDispatcherThread() swapped out
    stack,        \* the loops of the main thread, innermost last
    diverted,     \* history: the panels threw an event away, other than a key,
                  \* while delegates were queued, and polled on
    \* variables of ConsoleInput
    pending, priorities, sleeping, forked, opened, reader, screen

Con == INSTANCE ConsoleInput WITH Readers <- {Main}, ShellReaders <- {},
                                  Uses <- {"flush"}

conVars == <<pending, priorities, sleeping, forked, opened, reader,
             screen>>
callVars == <<call, delegates, dispatching, discarding>>
vars == <<callVars, stack, diverted, conVars>>

(* A call is "queued", then "taken" into a batch by the main thread, which  *)
(* executes the calls of a batch one after the other.                       *)
Statuses == {"idle", "queued", "taken", "running", "done", "failed"}

Nobody == "nobody"

(* A loop begins where its code does: a menu reads before it dispatches.    *)
Frame(kind, thread) ==
    [kind |-> kind,
     at |-> IF kind = "menu" THEN "input" ELSE "dispatch",
     batch |-> <<>>,        \* interlocked_delegates of DispatchInterThreadCalls()
     thread |-> thread,     \* the thread a wait is for
     ended |-> FALSE]       \* what it waits for has happened

Init == /\ Con!Init
        /\ call = [c \in Callers |-> "idle"]
        /\ delegates = <<>>
        /\ dispatching = TRUE
        /\ discarding = <<>>
        /\ stack = <<Frame("panels", Nobody)>>
        /\ diverted = FALSE

-----------------------------------------------------------------------------
Top == stack[Len(stack)]
At(place) == stack # <<>> /\ Top.at = place
TopIs(kinds, place) == At(place) /\ Top.kind \in kinds
Moved(place) == [stack EXCEPT ![Len(stack)].at = place]

InputLoops == {"panels", "dialog", "menu"}

(* The condition variable on which only a wait sleeps was notified.         *)
Awoken(frames) ==
    [k \in DOMAIN frames |->
        IF frames[k].at = "asleep" THEN [frames[k] EXCEPT !.at = "dispatch"]
        ELSE frames[k]]

(* What Finalize() tells the caller; an asynchronous delegate is deleted.   *)
Finalized(c, outcome) == IF c \in AsyncCallers THEN "idle" ELSE outcome

-----------------------------------------------------------------------------
(* Variants of the definitions below with one plausible mistake each.       *)

(* The delegates are not removed from the queue when they are taken.        *)
BugDelegatesKept == delegates

(* Nobody tells the main thread that there are delegates.                   *)
BugNoKick == UNCHANGED conVars

(* The tid of the dispatcher is left alone when the main thread ends.       *)
BugDispatcherKept == dispatching

-----------------------------------------------------------------------------
(* Callers                                                                  *)

(* EnqueueInterThreadCallDelegate() writes a dummy event, if the queue was  *)
(* empty, to make the main thread return from the console input.            *)
Kick == IF delegates = <<>>
        THEN /\ Con!Enqueue(<<"noop">>)
             /\ UNCHANGED <<priorities, forked, opened, reader, screen>>
        ELSE UNCHANGED conVars

(* InterThreadSyncCallDelegate::Do() until it waits for _done, or           *)
(* InterThreadCallAsync().                                                  *)
Do(c) ==
    /\ call[c] = "idle"
    /\ dispatching
    /\ Con!Room
    /\ call' = [call EXCEPT ![c] = "queued"]
    /\ delegates' = Append(delegates, c)
    /\ Kick
    /\ stack' = Awoken(stack)
    /\ UNCHANGED <<dispatching, discarding, diverted>>

DoRefused(c) ==
    /\ call[c] = "idle"
    /\ ~dispatching
    /\ call' = [call EXCEPT ![c] = Finalized(c, "failed")]
    /\ UNCHANGED <<delegates, dispatching, discarding, stack, conVars, diverted>>

(* InterThreadCall() returns the result, or FAIL_RV.                        *)
Return(c) ==
    /\ call[c] \in {"done", "failed"}
    /\ call' = [call EXCEPT ![c] = "idle"]
    /\ UNCHANGED <<delegates, dispatching, discarding, stack, conVars, diverted>>

(* A thread the main thread waits for does, between its calls, what is      *)
(* waited for, in the scope of an InterThreadLockAndWake.                   *)
EndWait(k) ==
    /\ k \in DOMAIN stack
    /\ stack[k].kind = "wait"
    /\ ~stack[k].ended
    /\ call[stack[k].thread] = "idle"
    /\ stack' = [Awoken(stack) EXCEPT ![k].ended = TRUE]
    /\ UNCHANGED <<callVars, conVars, diverted>>

-----------------------------------------------------------------------------
(* DispatchInterThreadCalls()                                               *)

(* What is left of s_interlocked_delegates after the swap.                  *)
DelegatesAfterSwap == <<>>

TakeDelegates ==
    /\ At("dispatch")
    /\ delegates # <<>>
    /\ stack' = [stack EXCEPT ![Len(stack)].at = "batch",
                              ![Len(stack)].batch = delegates]
    /\ delegates' = DelegatesAfterSwap
    /\ call' = [c \in Callers |->
                   IF \E k \in DOMAIN delegates : delegates[k] = c
                   THEN "taken" ELSE call[c]]
    /\ UNCHANGED <<dispatching, discarding, conVars, diverted>>

(* d->Process() begins.                                                     *)
Process ==
    /\ At("batch")
    /\ call' = [call EXCEPT ![Head(Top.batch)] = "running"]
    /\ stack' = Moved("run")
    /\ UNCHANGED <<delegates, dispatching, discarding, conVars, diverted>>

(* It ends, or throws, and d->Finalize() follows.                           *)
Finalize(outcome) ==
    /\ At("run")
    /\ call' = [call EXCEPT ![Head(Top.batch)] =
                   Finalized(Head(Top.batch), outcome)]
    /\ stack' = [stack EXCEPT
                    ![Len(stack)].at = IF Len(Top.batch) = 1 THEN "dispatch"
                                       ELSE "batch",
                    ![Len(stack)].batch = Tail(@)]
    /\ UNCHANGED <<delegates, dispatching, discarding, conVars, diverted>>

-----------------------------------------------------------------------------
(* The loops                                                                *)

(* The innermost loop has ended.                                            *)
Popped == SubSeq(stack, 1, Len(stack) - 1)

(* DispatchInterThreadCalls() returns: the queue is empty.                  *)
Dispatched ==
    /\ delegates = <<>>
    /\ \/ TopIs(InputLoops, "dispatch") /\ stack' = Moved("input")
       \/ TopIs({"wait"}, "dispatch") /\ stack' = Moved("check")
       \/ TopIs({"plugin"}, "dispatch") /\ stack' = Popped
    /\ diverted' = FALSE
    /\ UNCHANGED <<callVars, conVars>>

(* GetInputRecord() until it has read an event.                             *)
Polling == TopIs(InputLoops, "input")

PollInput ==
    /\ Polling
    /\ \/ Con!StartReading(Main) \/ Con!Peek(Main) \/ Con!ReadNothing(Main)
       \/ Con!WaitForNonEmpty(Main)
    /\ UNCHANGED <<callVars, stack, diverted>>

ReadInput ==
    /\ Polling
    /\ Con!Read(Main)
    /\ stack' = Moved("handle")
    /\ UNCHANGED <<callVars, diverted>>

(* It also returns without having read one: a key of a macro, KEY_NONE after *)
(* a callback of a plugin, KEY_IDLE for frames that asked for it.           *)
ReturnUnread ==
    /\ Polling
    /\ reader[Main].at \in {"away", "poll", "read"}
    /\ Con!MoveReader(Main, "away", "none")
    /\ stack' = Moved("handle")
    /\ UNCHANGED <<callVars, diverted, pending, priorities, sleeping, forked,
                   opened, screen>>

(* Loops other than that of the panels (WaitInMainLoop) get KEY_IDLE soon.  *)
KeyIdle ==
    /\ TopIs(InputLoops \ {"panels"}, "input")
    /\ reader[Main].at = "poll"
    /\ ReturnUnread

-----------------------------------------------------------------------------
(* Diversions: GetInputRecord() loses events and polls on, undispatched.    *)

ThrowsAway(events) ==
    diverted' = (\/ diverted
                 \/ /\ Top.kind = "panels"
                    /\ delegates # <<>>
                    /\ \E k \in DOMAIN events : events[k] # "key")

FlushAway == Con!Flush(Main) /\ ThrowsAway(pending)

(* CheckForEsc() and the like: what is there is read.                       *)
ReadAway ==
    /\ Con!Readable(0)
    /\ pending' = Tail(pending)
    /\ ThrowsAway(<<Head(pending)>>)
    /\ UNCHANGED <<priorities, sleeping, forked, opened, reader, screen>>

(* Panel::UpdateIfChanged() of the panels flushes the input when a directory*)
(* is gone, and reads to look for Esc when reading one takes long.          *)
UpdatePanels ==
    /\ "update" \in Diversions
    /\ TopIs({"panels"}, "input")
    /\ reader[Main].at = "poll"
    /\ FlushAway \/ ReadAway
    /\ UNCHANGED <<callVars, stack>>

(* ScreenSaver(), which any event ends, flushes the input.                  *)
ScreenSaver ==
    /\ "saver" \in Diversions
    /\ Polling
    /\ reader[Main].at = "poll"
    /\ FlushAway
    /\ UNCHANGED <<callVars, stack>>

(* A lock key (or a sticky one) that was peeked is skipped; the panels skip *)
(* what the GetInputRecord() returns that they call when the cursor is in   *)
(* the corner.                                                              *)
SkipInput ==
    /\ Polling
    /\ \/ "skip" \in Diversions /\ reader[Main].peeked = "key"
       \/ "nested" \in Diversions /\ Top.kind = "panels"
    /\ Con!Read(Main)
    /\ ThrowsAway(<<Head(pending)>>)
    /\ UNCHANGED <<callVars, stack>>

(* Before it polls, plugins process their synchro events and Ctrl-Break, and*)
(* macros run: they may flush or read the input.                            *)
CallBack ==
    /\ "callback" \in Diversions
    /\ Polling
    /\ reader[Main].at = "away"
    /\ FlushAway \/ ReadAway
    /\ UNCHANGED <<callVars, stack>>

Divert == UpdatePanels \/ ScreenSaver \/ SkipInput \/ CallBack

-----------------------------------------------------------------------------
Handled ==
    /\ TopIs(InputLoops, "handle")
    /\ stack' = Moved("dispatch")
    /\ UNCHANGED <<callVars, conVars, diverted>>

(* Handlers and functions called from other threads flush the input, as     *)
(* Message() does before it opens its dialog.                               *)
InHandler == TopIs(InputLoops, "handle")
             \/ At("run")

FlushInput ==
    /\ InHandler
    /\ Con!Flush(Main)
    /\ UNCHANGED <<callVars, stack, diverted>>

(* A function does not wait for the thread that called it.  It may wait for *)
(* another one, though, whose call is in the same batch behind its own:     *)
(* where this happens is up to plugins, so WaitForTaken says whether it does.*)
MayWaitFor(c) == call[c] # "running" /\ (call[c] = "taken" => WaitForTaken)

Open(kind, thread) ==
    /\ InHandler
    /\ Len(stack) < MaxDepth
    /\ kind = "wait" <=> thread # Nobody
    /\ kind = "wait" => MayWaitFor(thread)
    /\ stack' = Append(stack, Frame(kind, thread))
    /\ UNCHANGED <<callVars, conVars, diverted>>

(* The user closes a dialog, and the loop of a menu ends after a dispatch.  *)
CloseLoop ==
    /\ \/ TopIs({"dialog"}, "handle")
       \/ TopIs({"menu"}, "dispatch") /\ delegates = <<>>
    /\ stack' = Popped
    /\ UNCHANGED <<callVars, conVars, diverted>>

(* A wait locks the mutex of the queue and looks at its condition; between  *)
(* the dispatch and this another thread may have queued a call.             *)
CheckCondition ==
    /\ TopIs({"wait"}, "check")
    /\ stack' = IF Top.ended THEN Popped ELSE Moved("asleep")
    /\ UNCHANGED <<callVars, conVars, diverted>>

(* WaitForWake() returns after 5 seconds.                                   *)
WakeTimeout ==
    /\ TopIs({"wait"}, "asleep")
    /\ stack' = Moved("dispatch")
    /\ UNCHANGED <<callVars, conVars, diverted>>

(* The main loop ends.                                                      *)
ExitMainLoop ==
    /\ TopIs({"panels"}, "handle")
    /\ stack' = <<>>
    /\ UNCHANGED <<callVars, conVars, diverted>>

(* ~InterThreadCallsDispatcherThread(): the swap, then Finalize(true) of    *)
(* each delegate.                                                           *)
DispatcherAfterSwap == FALSE

StopDispatching ==
    /\ stack = <<>>
    /\ dispatching
    /\ dispatching' = DispatcherAfterSwap
    /\ discarding' = delegates
    /\ delegates' = <<>>
    /\ UNCHANGED <<call, stack, conVars, diverted>>

Discard ==
    /\ discarding # <<>>
    /\ call' = [call EXCEPT ![Head(discarding)] =
                   Finalized(Head(discarding), "failed")]
    /\ discarding' = Tail(discarding)
    /\ UNCHANGED <<delegates, dispatching, stack, conVars, diverted>>

-----------------------------------------------------------------------------
CallerStep(c) == Do(c) \/ DoRefused(c) \/ Return(c)

LoopStep ==
    \/ TakeDelegates \/ Process \/ \E o \in {"done", "failed"} : Finalize(o)
    \/ Dispatched \/ PollInput \/ ReadInput \/ ReturnUnread \/ Divert
    \/ Handled \/ FlushInput \/ CloseLoop \/ CheckCondition \/ WakeTimeout
    \/ ExitMainLoop \/ StopDispatching \/ Discard
    \/ \E kind \in Loops, thread \in Callers \cup {Nobody} : Open(kind, thread)

(* The user and the password screens.                                       *)
ConsoleStep ==
    /\ Con!Deliver("key") \/ \E s \in Screens : Con!ScreenStep(s)
    /\ UNCHANGED <<callVars, stack, diverted>>

Next == \/ \E c \in Callers : CallerStep(c)
        \/ \E k \in 1 .. MaxDepth : EndWait(k)
        \/ LoopStep
        \/ ConsoleStep

Spec == Init /\ [][Next]_vars

(* All threads run, functions and handlers return, the user closes the      *)
(* dialogs, and password screens are answered as in ConsoleInput.  A thread *)
(* that makes one call after the other does not keep the main thread in     *)
(* DispatchInterThreadCalls(), which repeats until the queue is empty: the  *)
(* main thread looks at the queue sooner than that thread calls again.      *)
(* Nor does the user press lock keys so fast that a dialog never gets       *)
(* KEY_IDLE.  Nobody is assumed to press a key in the panels, or to exit.   *)
FairSpec ==
    /\ Spec
    /\ WF_vars(\/ TakeDelegates \/ Process \/ \E o \in {"done", "failed"} : Finalize(o)
               \/ PollInput \/ ReadInput \/ KeyIdle \/ Handled
               \/ CheckCondition \/ WakeTimeout \/ StopDispatching \/ Discard)
    /\ \A k \in 1 .. MaxDepth : SF_vars(Len(stack) = k /\ Dispatched)
    /\ \A k \in 1 .. MaxDepth - 1 :  \* what may open another loop
          /\ SF_vars(Len(stack) = k /\ \E o \in {"done", "failed"} : Finalize(o))
          /\ SF_vars(Len(stack) = k /\ Handled)
    /\ \A k \in 2 .. MaxDepth :
          /\ SF_vars((Len(stack) = k /\ CloseLoop) \/ EndWait(k))
          /\ SF_vars(Len(stack) = k /\ KeyIdle)
    /\ \A c \in Callers : WF_vars(Return(c))
    /\ \A s \in Screens :
          /\ SF_vars(Con!Answer(s) /\ UNCHANGED <<callVars, stack, diverted>>)
          /\ WF_vars(Con!DispatchInput(s, FALSE) /\ UNCHANGED <<callVars, stack, diverted>>)
          /\ SF_vars(Con!FinalUpdate(s) /\ UNCHANGED <<callVars, stack, diverted>>)
          /\ WF_vars(Con!Disappear(s) /\ UNCHANGED <<callVars, stack, diverted>>)
    /\ SF_vars(Con!TypeForScreen /\ UNCHANGED <<callVars, stack, diverted>>)
    /\ Con!ScreensKeepUp

-----------------------------------------------------------------------------
Frames == [kind : {"panels"} \cup Loops,
           at : {"dispatch", "batch", "run", "input", "handle", "check", "asleep"},
           batch : Seq(Callers),
           thread : Callers \cup {Nobody},
           ended : BOOLEAN]

(* All variables have values of their types; the panels are the outermost   *)
(* loop, and only the innermost one is not in the middle of something.      *)
TypeOK ==
    /\ Con!TypeOK
    /\ call \in [Callers -> Statuses]
    /\ delegates \in Seq(Callers)
    /\ dispatching \in BOOLEAN
    /\ diverted \in BOOLEAN
    /\ discarding \in Seq(Callers)
    /\ stack \in Seq(Frames)
    /\ \A k \in DOMAIN stack :
          /\ stack[k].kind = "panels" <=> k = 1
          /\ k < Len(stack) => stack[k].at \in {"run", "handle"}

Positions(queue, c) == {k \in DOMAIN queue : queue[k] = c}

(* The delegate of a call under way, which is on the stack of the calling   *)
(* thread, is in exactly one place: the queue, one of the batches of the    *)
(* nested loops, or what is discarded at the end.  No pointer to the        *)
(* delegate of a call that has returned is left anywhere.  (And the types.) *)
DelegatesInOnePlace ==
    TypeOK /\ \A c \in Callers :
        LET queues == <<delegates, discarding>>
                      \o [k \in DOMAIN stack |-> stack[k].batch]
            places == UNION {{<<j, k>> : k \in Positions(queues[j], c)} :
                               j \in DOMAIN queues}
        IN  IF call[c] \in {"queued", "taken", "running"}
            THEN Cardinality(places) = 1
            ELSE places = {}

(* Something will make the main thread return from the console input: an    *)
(* event for it to read that is no key (which it may skip), or a screen that*)
(* leaves one behind when it closes.                                        *)
Announced == \/ \E k \in DOMAIN pending : pending[k] # "key"
             \/ \E s \in Screens : screen[s].at = "input"

WaitsWithCalls == TopIs({"panels"}, "input") /\ delegates # <<>>

(* While calls are queued the main thread never waits in the panels for an  *)
(* input that nothing announces, whatever screens take away ("write dummy   *)
(* console input to kick pending ReadConsoleInput", InterThreadCall.cpp:145).*)
(* Each of the diversions can break it.                                     *)
KickIsPending == WaitsWithCalls => Announced

(* Only GetInputRecord() itself loses the kick, by throwing it away in one  *)
(* of the diversions since the last dispatch: flushes in handlers, password *)
(* screens, events read in place of others, and calls that are queued behind*)
(* others without a kick of their own do not.                               *)
OnlyDiversionsLoseKicks == WaitsWithCalls => Announced \/ diverted

(* InterThreadCall.cpp does what its header promises: every function runs   *)
(* once, they nest, and none runs after the main thread stopped.            *)
Running ==
    [k \in {d \in DOMAIN stack : stack[d].at = "run"} |-> Head(stack[k].batch)]

Remote == INSTANCE RemoteCalls WITH
    call <- [c \in Callers |-> IF call[c] \in {"queued", "taken"} THEN "pending"
                               ELSE call[c]],
    running <- Running,
    open <- dispatching,
    Depths <- 1 .. MaxDepth

ImplementsRemoteCalls == Remote!Spec

(* Every call returns although nobody touches the keyboard but to close     *)
(* dialogs: whether the panels wait for input, dialogs are nested in calls  *)
(* and calls in dialogs, the main thread waits for the calling thread, or   *)
(* the program ends meanwhile.  The exception is a call whose kick the      *)
(* panels threw away, if nothing ever makes them dispatch again.            *)
CallsReturn ==
    \A c \in Callers : call[c] = "queued" ~> (call[c] = "idle" \/ []diverted)
=============================================================================
