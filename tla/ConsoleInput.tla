---------------------------- MODULE ConsoleInput -----------------------------
(***************************************************************************)
(* WinPort/src/ConsoleInput.cpp: the queue of input events, and the threads *)
(* that use it.  Readers have priority 0: the main thread, which peeks and  *)
(* then reads (GetInputRecordImpl() of far/src/console/keyboard.cpp), and   *)
(* the input thread of a running shell, which reads at once                 *)
(* (far/src/vt/vtshell_ioreaders.cpp).  Screens are the password and        *)
(* confirmation screens of WinPort/src/Backend/SudoAskpassImpl.cpp: they    *)
(* appear in threads of their own and take the input away from the readers  *)
(* by raising the priority.  Each step is what a thread does under _mutex.  *)
(***************************************************************************)
EXTENDS Naturals, Sequences, FiniteSets

CONSTANTS Readers,      \* threads that read with priority 0
          ShellReaders, \* those that read without a peek before
          Screens,      \* the screens that raise the priority
          Uses,         \* what else readers call: "flush", "check", "fork"
          MaxPending,   \* bound: events queued when another one is typed
          MaxScreens    \* bound: how often a screen appears

ASSUME ReadersAssumption == ShellReaders \subseteq Readers
ASSUME UsesAssumption == Uses \subseteq {"flush", "check", "fork"}
ASSUME BoundsAssumption == MaxPending \in Nat /\ MaxScreens \in Nat

VARIABLES
    pending,     \* _pending, as the types of the events
    priorities,  \* _requestor_priorities
    sleeping,    \* readers asleep on _non_empty
    reader,      \* where each reader is, what it peeked, CheckForKeyPress()'s
                 \* backlog
    screen,      \* where each screen is, its priority, whether Enter or Esc
                 \* was pressed
    forked,      \* _pending of the console a background shell reads
    opened       \* how often screens have appeared (for MaxScreens)

conVars == <<pending, priorities, sleeping, forked, opened>>
vars == <<conVars, reader, screen>>

EventTypes == {"key", "noop", "callback", "size"}
NoConsole == <<"no console">>
Off == [at |-> "off", priority |-> 0, answered |-> FALSE]

Init == /\ pending = <<>>
        /\ priorities = {}
        /\ sleeping = {}
        /\ reader = [r \in Readers |->
                        [at |-> "away", peeked |-> "none", backlog |-> <<>>]]
        /\ screen = [s \in Screens |-> Off]
        /\ forked = NoConsole
        /\ opened = 0

CurrentPriority ==
    IF priorities = {} THEN 0
    ELSE CHOOSE p \in priorities : \A q \in priorities : q <= p

(* Variant of Readable: Dequeue() gives the event to whoever asks.          *)
BugIgnorePriority(priority) == pending # <<>>

(* What Dequeue() and WaitForNonEmpty() ask of a requestor and the queue.   *)
Readable(priority) == pending # <<>> /\ priority >= CurrentPriority

(* InspectCallbacks(): callers see a NOOP event instead of a callback.      *)
Inspected(e) == IF e = "callback" THEN "noop" ELSE e

-----------------------------------------------------------------------------
(* Variants of the definitions below with one plausible mistake each.       *)

(* LowerRequestorPriority() relies on the next event to wake the readers.   *)
BugLowerNoNotify == sleeping

(* RaiseRequestorPriority() numbers the requestors.                         *)
BugPriorityByCount == Cardinality(priorities) + 1

(* The password screen ends without a word.                                 *)
BugNoFinalUpdate(s) ==
    /\ screen[s].at = "input"
    /\ screen[s].answered
    /\ ~Readable(screen[s].priority)
    /\ screen' = [screen EXCEPT ![s].at = "lower"]
    /\ UNCHANGED <<reader, conVars>>

-----------------------------------------------------------------------------
(* Enqueue(): an empty batch is no event at all.                            *)
Enqueue(events) ==
    /\ pending' = pending \o events
    /\ sleeping' = IF events = <<>> THEN sleeping ELSE {}

(* Whether one more event may come, for MaxPending.                         *)
Room == \A r \in Readers : Len(pending \o reader[r].backlog) < MaxPending

(* A back end delivers what the user did, or a title to be changed when the *)
(* input is next read (OnConsoleOutputTitleChanged() of WX/wxMain.cpp).     *)
Deliver(e) ==
    /\ Room
    /\ Enqueue(<<e>>)
    /\ UNCHANGED <<priorities, forked, opened, reader, screen>>

(* Some thread writes a dummy event to wake up the readers.                 *)
Kick ==
    /\ Room
    /\ Enqueue(<<"noop">>)
    /\ UNCHANGED <<priorities, forked, opened, reader, screen>>

-----------------------------------------------------------------------------
(* Readers                                                                  *)

MoveReader(r, place, e) ==
    reader' = [reader EXCEPT ![r].at = place, ![r].peeked = e]

(* GetInputRecordImpl() begins to poll, or ThreadProc() to read.            *)
StartReading(r) ==
    /\ reader[r].at = "away"
    /\ MoveReader(r, IF r \in ShellReaders THEN "read" ELSE "poll", "none")
    /\ UNCHANGED <<conVars, screen>>

(* Peek() finds an event.  When it finds none, polling goes on.             *)
Peek(r) ==
    /\ reader[r].at = "poll"
    /\ Readable(0)
    /\ MoveReader(r, "read", Inspected(Head(pending)))
    /\ UNCHANGED <<conVars, screen>>

(* ReadConsoleInput() when Dequeue() returns an event, which need not be    *)
(* the one peeked.                                                          *)
Read(r) ==
    /\ reader[r].at = "read"
    /\ Readable(0)
    /\ pending' = Tail(pending)
    /\ MoveReader(r, "away", "none")
    /\ UNCHANGED <<priorities, sleeping, forked, opened, screen>>

(* ReadConsoleInput() when Dequeue() returns 0.                             *)
ReadNothing(r) ==
    /\ reader[r].at = "read"
    /\ ~Readable(0)
    /\ MoveReader(r, "wait", reader[r].peeked)
    /\ UNCHANGED <<conVars, screen>>

(* WaitForNonEmpty(), entered or woken up.                                  *)
WaitForNonEmpty(r) ==
    /\ reader[r].at = "wait"
    /\ r \notin sleeping
    /\ IF Readable(0)
       THEN MoveReader(r, "read", reader[r].peeked) /\ UNCHANGED sleeping
       ELSE sleeping' = sleeping \cup {r} /\ UNCHANGED reader
    /\ UNCHANGED <<pending, priorities, forked, opened, screen>>

ReaderStep(r) == StartReading(r) \/ Peek(r) \/ Read(r) \/ ReadNothing(r)
                 \/ WaitForNonEmpty(r)

(* Flush().  The main thread also flushes while it polls: it updates its    *)
(* panels meanwhile, or an event has ended the screen saver.                *)
Flush(r) ==
    /\ reader[r].at \in {"away", "poll"}
    /\ r \notin ShellReaders
    /\ 0 >= CurrentPriority
    /\ pending' = <<>>
    /\ UNCHANGED <<priorities, sleeping, forked, opened, reader,
                   screen>>

(* CheckForKeyPress(), as plugins call it from their loops, with            *)
(* CFKP_KEEP_OTHER_EVENTS: keys are dropped, other events queued again.     *)
StartCheck(r) ==
    /\ reader[r].at = "away"
    /\ r \notin ShellReaders
    /\ MoveReader(r, "check", "none")
    /\ UNCHANGED <<conVars, screen>>

CheckNext(r) ==
    /\ reader[r].at = "check"
    /\ Readable(0)
    /\ pending' = Tail(pending)
    /\ reader' = [reader EXCEPT ![r].backlog =
                     IF Head(pending) = "key" THEN @
                     ELSE Append(@, Inspected(Head(pending)))]
    /\ UNCHANGED <<priorities, sleeping, forked, opened, screen>>

CheckDone(r) ==
    /\ reader[r].at = "check"
    /\ ~Readable(0)
    /\ Enqueue(reader[r].backlog)
    /\ reader' = [reader EXCEPT ![r].at = "away", ![r].backlog = <<>>]
    /\ UNCHANGED <<priorities, forked, opened, screen>>

CheckStep(r) == StartCheck(r) \/ CheckNext(r) \/ CheckDone(r)

-----------------------------------------------------------------------------
(* Screens                                                                  *)

NewPriority == CurrentPriority + 1

(* SudoAskpassScreen(): RaiseRequestorPriority()                            *)
Appear(s) ==
    /\ screen[s].at = "off"
    /\ opened < MaxScreens
    /\ opened' = opened + 1
    /\ priorities' = priorities \cup {NewPriority}
    /\ screen' = [screen EXCEPT ![s] = [at |-> "input", priority |-> NewPriority,
                                        answered |-> FALSE]]
    /\ UNCHANGED <<pending, sleeping, forked, reader>>

(* DispatchInput(): a key may be the answer or a character of it.  What is  *)
(* behind the answer in the queue is read, too.                             *)
DispatchInput(s, answer) ==
    /\ screen[s].at = "input"
    /\ Readable(screen[s].priority)
    /\ answer => Head(pending) = "key"
    /\ pending' = Tail(pending)
    /\ screen' = [screen EXCEPT ![s].answered = @ \/ answer]
    /\ UNCHANGED <<priorities, sleeping, forked, opened, reader>>

(* Loop() returns; ~FinalScreenUpdater() announces the restored screen.     *)
FinalUpdate(s) ==
    /\ screen[s].at = "input"
    /\ screen[s].answered
    /\ ~Readable(screen[s].priority)
    /\ Enqueue(<<"size">>)
    /\ screen' = [screen EXCEPT ![s].at = "lower"]
    /\ UNCHANGED <<priorities, forked, opened, reader>>

AsleepAfterLower == IF pending # <<>> THEN {} ELSE sleeping

(* ~ConsoleInputPriority(): LowerRequestorPriority()                        *)
Disappear(s) ==
    /\ screen[s].at = "lower"
    /\ priorities' = priorities \ {screen[s].priority}
    /\ sleeping' = AsleepAfterLower
    /\ screen' = [screen EXCEPT ![s] = Off]
    /\ UNCHANGED <<pending, forked, opened, reader>>

ScreenStep(s) == \/ Appear(s) \/ FinalUpdate(s) \/ Disappear(s)
                 \/ \E answer \in BOOLEAN : DispatchInput(s, answer)

-----------------------------------------------------------------------------
(* A shell goes to the background with a console of its own, whose reader   *)
(* is woken up by dummy events, and comes back: its reader was stopped.     *)
ForkConsole ==
    /\ forked = NoConsole
    /\ forked' = <<>>
    /\ UNCHANGED <<pending, priorities, sleeping, opened, reader, screen>>

KickForked ==
    /\ forked = <<>>
    /\ forked' = <<"noop">>
    /\ UNCHANGED <<pending, priorities, sleeping, opened, reader, screen>>

JoinConsole ==
    /\ forked # NoConsole
    /\ Room
    /\ Enqueue(forked)
    /\ forked' = NoConsole
    /\ UNCHANGED <<priorities, opened, reader, screen>>

-----------------------------------------------------------------------------
Next == \/ \E e \in {"key", "callback"} : Deliver(e)
        \/ Kick
        \/ \E r \in Readers :
              \/ ReaderStep(r)
              \/ "flush" \in Uses /\ Flush(r)
              \/ "check" \in Uses /\ CheckStep(r)
        \/ \E s \in Screens : ScreenStep(s)
        \/ "fork" \in Uses /\ (ForkConsole \/ KickForked \/ JoinConsole)

Spec == Init /\ [][Next]_vars

IsOn(s) == screen[s].at # "off"

(* The user types while a screen asks for it, and at last answers.          *)
Answer(s) == DispatchInput(s, TRUE)

TypeForScreen == /\ \E s \in Screens : screen[s].at = "input"
                 /\ Deliver("key")

(* A screen reads faster than events come: again and again it finds no more.*)
ScreensKeepUp ==
    \A s \in Screens :
       []<>(screen[s].at = "input" => ~Readable(screen[s].priority))

(* Every thread runs, whatever else is written to the queue meanwhile.      *)
FairSpec ==
    /\ Spec
    /\ \A r \in Readers : WF_vars(Peek(r) \/ Read(r) \/ ReadNothing(r)
                                  \/ WaitForNonEmpty(r))
    /\ \A s \in Screens : /\ SF_vars(Answer(s))
                          /\ WF_vars(DispatchInput(s, FALSE))
                          /\ SF_vars(FinalUpdate(s))
                          /\ WF_vars(Disappear(s))
    /\ SF_vars(TypeForScreen)
    /\ ScreensKeepUp

-----------------------------------------------------------------------------
(* All variables have values of their types; nobody sleeps but in           *)
(* WaitForNonEmpty().                                                       *)
TypeOK ==
    /\ pending \in Seq(EventTypes)
    /\ IsFiniteSet(priorities) /\ priorities \subseteq Nat \ {0}
    /\ reader \in [Readers -> [at : {"away", "poll", "read", "wait", "check"},
                               peeked : EventTypes \cup {"none"},
                               backlog : Seq(EventTypes)]]
    /\ sleeping \subseteq {r \in Readers : reader[r].at = "wait"}
    /\ screen \in [Screens -> [at : {"off", "input", "lower"}, priority : Nat,
                               answered : BOOLEAN]]
    /\ forked \in {NoConsole, <<>>, <<"noop">>}
    /\ opened \in Nat

(* No reader sleeps through an event it may read: whoever appends events or *)
(* gives the input back wakes the sleepers of _non_empty.                   *)
NobodyOversleeps == sleeping # {} => ~Readable(0)

(* A screen owns the priority it raised, alone, until it lowers it, in      *)
(* whatever order screens appear and disappear: the erase() of              *)
(* LowerRequestorPriority() finds it and takes nobody else's away (its      *)
(* assert), and the last screen that appeared gets the input.  (The types   *)
(* are part of it: priorities are a set.)                                   *)
PrioritiesAreOwned ==
    /\ TypeOK
    /\ priorities = {screen[s].priority : s \in {x \in Screens : IsOn(x)}}
    /\ \A s, t \in Screens :
          IsOn(s) /\ IsOn(t) /\ s # t => screen[s].priority # screen[t].priority

(* While a screen is shown no reader takes an event out of the queue, not   *)
(* even one that had peeked it before the screen appeared.                  *)
ScreenGetsTheInput ==
    [][\A r \in Readers :
          reader[r].at \in {"read", "check"} /\ Len(pending') < Len(pending)
             /\ reader'[r] # reader[r]
          => priorities = {}]_vars

(* A main thread that peeked an event gets one although a screen takes the  *)
(* peeked one away: GetInputRecordImpl() returns, or polls on if it was a   *)
(* lock key, as soon as the screens are answered, without another event from*)
(* the user (and as long as no shell reads besides, which may take the event*)
(* for good).                                                               *)
PeekedReaderReturns ==
    [](\A x \in ShellReaders : reader[x].at = "away") =>
       \A r \in Readers :
          reader[r].at = "read" /\ reader[r].peeked # "none"
          ~> reader[r].at = "away"
=============================================================================
