# A TLA+ development for far2m

far2m is a two-panel file manager for Unix: a main thread that runs all of the
user interface and the plugins, and around it threads, helper processes and
back ends that talk to that thread through queues, locks and pipes.  This
directory models the parts whose correctness depends on *order*: who steps
first, which request meets which, who wakes whom.  It holds TLA+ modules, the
configurations that check them with TLC, and proofs checked by TLAPS.

* [Inventory](#inventory): the parts of the program and what makes them hard
* [Plan](#plan): the modules, in the order in which they are written
* [The thread pool](#the-thread-pool)
* [The frame manager](#the-frame-manager)
* [The console input](#the-console-input)
* [Calls into the main thread](#calls-into-the-main-thread)
* [Connections of NetRocks](#connections-of-netrocks): pool, commands, locks
* [Operations of NetRocks](#operations-of-netrocks)
* [Runs, bounds and fairness](#runs-bounds-and-fairness)
* [Proofs](#proofs)
* [What the models leave out](#what-the-models-leave-out)

## Inventory

Paths are relative to the root of the repository.

| part | state | operations | interacts by | hard |
|---|---|---|---|---|
| **Frame manager** `far/src/manager.cpp` | frame list, modal stack, current frame, six request slots, each frame's `FrameToBack` | `InsertFrame`, `DeleteFrame`, `ActivateFrame`, `DeactivateFrame`, `ExecuteFrame`, `Commit`, nested loops | calls from every frame and plugin, destructors that call back | which requests meet in one `Commit()`; nested loops; close events |
| **Frames** `far/src/frame.cpp`, `vmenu.cpp` | chain `NextModal` of menus | `PushFrame`, `RemoveModal`, `DestroyAllModal` | manager | a chain cut in the middle |
| **Thread pool** `utils/src/ThreadedWorkQueue.cpp` | backlog, finished items, counters, workers | `Queue`, `Finalize`, destructor, `WorkerThreadProc` | one mutex, one condition variable | lost wake-ups, order of deletion |
| **Threaded** `utils/src/Threaded.cpp` | started/exited/joined flags | `StartThread`, `WaitThread` | mutex, condition variable | a restart that races with the exit |
| **InterThreadCall** `far/src/base/InterThreadCall.cpp` | queue of delegates, id of the dispatching thread | enqueue, dispatch, shutdown | any thread to the main one; a NOOP console event wakes it | kick given only when the queue was empty; nested dispatch; mutual waiting |
| **Console input** `WinPort/src/ConsoleInput.cpp` | pending events, priorities, backtrace | enqueue, peek, dequeue, flush, wait, raise/lower, fork/join | back ends write, main thread and shells read | priorities and wake-ups; callbacks outside the lock |
| **Plugin synchro** `far/src/synchro.cpp` | queue of callbacks | `Synchro`, `Process` | any thread to the main one | plugin unloaded meanwhile |
| **NetRocks pool** `plugins/NetRocks/src/ConnectionsPool.cpp` | idle connections with time stamps | `Put`, `Get`, `PurgeAll`, the expiration thread | mutex, `Threaded` | thread leaving while an entry arrives |
| **NetRocks operations** `Op/OpBase.cpp`, `UI/Activities` | progress state, abort and pause flags | operation thread, progress dialog, error questions | shared state, calls into the main thread | abort before the start, two questions at once |
| **NetRocks hosts** `Host/HostRemote.cpp`, `HostRemoteBroker.cpp` | connection, busy flag, broker process | request/response over pipes | a process per connection | abort in the middle of a transfer |
| **NetRocks background tasks** `BackgroundTasks.cpp` | registry | add, show, abort | one mutex | the mutex is held while a dialog is shown |
| **SharedResource**, `InitDeinitCmd`, `FSClipboardBackend` | lock files, modification mark | read/write lock, unlock | `flock()` between processes | crash of an owner, inherited descriptors |
| **Console output** `WinPort/src/ConsoleOutput.cpp` | screen buffer, dirty area, cursor | writes, scroll, repaint | mutex, back end callback | repaint requests under lock |
| **TTY, wx back ends** `WinPort/src/Backend` | terminal state | reader/writer threads, events | console input and output | reattaching terminals |
| **sudo client/dispatcher** `WinPort/src/sudo` | one socket, nesting counters | file operations of another user | pipe protocol | failure in the middle of a transaction |
| **Terminal emulator** `far/src/vt` | shell process, readers | start, stop, escape sequences | pipes, console | stopping the readers |
| **Plugin manager** `far/src/plug` | loaded plugins | load, unload, events | calls | unload inside a call |
| **File search** `far/src/findfile.cpp` | result list | search thread, dialog | the thread pool, the dialog | search stopped half-way |
| **Editor, viewer, panels, file operations, history, settings, macros, Lua** | texts, lists, files | sequential code | calls | long, mostly data |
| vendored code, code pages, other plugins | | | | not part of the core logic |

What makes the first ones correct:

* pool: items are deleted in the order of queueing, exactly once, never while
  a worker has them; no thread sleeps through what it waits for; `Finalize()`
  leaves nothing half-done; every call returns;
* manager: every request is carried out, no deleted frame is referred to, list
  and stack stay disjoint, keys go to the frame that is shown and that is the
  topmost modal one, `Commit()` ends, modal loops can be ended;
* calls into the main thread: every call is run once or refused, in order, and
  its caller wakes up; none waits while the main thread waits for input;
* connections: an entry is in the pool, with a caller or gone, and it goes
  some time after it expired;
* operations: an abort the user confirmed is honoured; a pause ends;
* shared resources: a writer excludes everyone, also after a crash; a change
  by another process is noticed.

`PROJECT.json` lists all parts with their state of modelling, and under
`hazards` the places where the code is hard to test.

## Plan

| step | modules | composes | checks and theorems | state |
|---|---|---|---|---|
| 1 | `ThreadedWorkQueue`, `OrderedWorkQueue`, `ThreadedWorkQueueProofs` | the pool implements its header's promise | all safety and the refinement proved, liveness checked | done |
| 2 | `Manager`, `ManagerProofs` | – | types and `NoFrameTwice` proved whatever plugins do, the rest of safety for handlers with one request; liveness checked | done |
| 3 | `ConsoleInput`, `ConsoleInputProofs`; `RemoteCalls`, `InterThreadCall`, `InterThreadCallProofs` | `InterThreadCall` uses `ConsoleInput` for its kick and implements `RemoteCalls` | safety and the refinement proved, liveness checked | done |
| 4 | `Threaded`, `ConnectionsPool`, `ConnectionsPoolProofs` | the pool starts and restarts its thread | an entry is never in two places, the destructor: proved; expiry checked | done |
| 5 | `OpBase`, `OpBaseProofs` | operation thread and dialogs, with `Threaded` | pause restored: proved; abort honoured, thread joined: checked | done |
| 6 | `InitDeinitCmd` (with the locks of `SharedResource`), `InitDeinitCmdProofs` | several processes | exclusion, first and last connection, crash: proved; locks granted: checked | done |
| 7 | `VTShell` | start and stop of the shell's readers, with `InterThreadCall` and `ConsoleInput` | no mutual waiting of main thread and input reader | |
| 8 | `NextModal` chains in `Manager` | menus that hang from frames | `ModalizeFrame()` never meets a null `CurrentFrame` | |

`NaturalSets` holds what the proofs of steps 3, 4 and 6 need of finite sets of
naturals.  Modules that are proved about declare their parameters as constants with named
assumptions, have one action per operation and no recursive operator.

## The thread pool

`ThreadedWorkQueue` models `utils/src/ThreadedWorkQueue.cpp`.  The producer is
the search thread of `far/src/findfile.cpp`, the only one that calls `Queue()`,
`Finalize()` and the destructor; the workers run `WorkerThreadProc()`.

One step is what a thread does between taking `_mtx` and leaving it, by an
unlock or by `_cond.wait()`; `WorkProc()` and the deletions, which happen
without the lock, are steps of their own.

| code | model |
|---|---|
| `_backlog`, `_done`, `_working`, `_stopping`, `_notify_on_done`, `_done_counter`, `_finalized_counter` | variables of these names; `_done` is a set of pairs, as a map without its order |
| `_workers` | the threads with `pc # "off"` |
| sleepers on `_cond` | `waiting`; `notify_all()` empties it, `notify_one()` removes any one, `SpuriousWakeup` removes one for no reason |
| locals `twi`, `seq`, `backlog_limit`, `oid` | `twi`, `seq`, `limit`, `oid`, and `syncItem` for the item of a `Queue()` without workers |
| where the producer is | `main` |
| a thread that fails to start | `NewWorkers` may always be empty |
| `Queue()` | `Queue` (up to the first wait or the unlock), `QueueWoken`, `ProcessSync`, `DeleteSync`, `DeleteFetched`, `Return` |
| `Finalize()` | `Finalize`, `FinalizeLoop`, `DeleteFetched`, `Return` |
| destructor | `Destroy`, `Join`, `DiscardDone`, `DiscardBacklog`, `Free` |

`queued`, `processed`, `destroyed`, `synced` are histories the properties and
the proofs speak about.

`OrderedWorkQueue` is what the header promises, without threads: items are
submitted, processed in any order, destroyed in the order of submission, and
destroyed unprocessed only when the queue is being closed.
`ImplementsOrderedWorkQueue` states that the pool implements it.

The header says an item beyond the limit is processed synchronously; the code
queues it and waits (`QueueWoken`).

## The frame manager

`Manager` models `far/src/manager.cpp`, with the callers that use it.
Everything runs in one thread, but code is nested: a frame's key handler runs
inside a loop, may start a modal loop, whose handlers may close other frames,
whose destructors call plugins, which call the manager.  `calls` is the C++
call stack: loops, `Commit()` calls, key handlers, and destructors run by
`DeleteCommit()`.

| code | model |
|---|---|
| fields of `Manager`, `FrameToBack` of each frame | the record `m` |
| `FrameList[FramePos]` | `m.FrameList[m.FramePos + 1]` |
| what kind of frame an object is (panels; window = non-modal editor or viewer; dialog; modal viewer; modal editor put in its place) | `kind`; `"none"` is freed memory |
| `InsertFrame`, `DeleteFrame`, `ActivateFrame` (by frame, by index), `DeactivateFrame`, `ExecuteFrame` | operators of these names on `m` |
| one pass of `Commit()` | `Commit`, with `UpdateCommit`, `DeleteCommit`, … |
| `DeleteCommit()` around `delete aFrame` | `Unlink`, then the destructor on the call stack, then `Destroyed` with `Pop` |
| `EnterMainLoop`, `ExecuteModal`, `ExecuteNonModal` | entries `"main"`, `"modal"`, `"nonmodal"` of the call stack |
| opening, closing, replacing (F6), reopening and reloading editors and viewers, dialogs, Ctrl-Tab, F12, `ACTL_SETCURRENTWINDOW`, `ACTL_COMMIT`, `VCTL_QUIT`, exit | one action each |
| painting | `shown`: the frame painted last |

`closing` remembers which frames asked to be deleted.  A frame's name is
reused once nothing refers to it, so an address that is freed and still known
to the manager is visible to `NoDangling`.

Three bounds say how much one handler may do.  With `HandlerOps = 1` a handler
makes one request (and any number of modal questions before it); this is what
the editor, the viewer, the panels and the dialogs do, and all properties hold
(`Manager.cfg`).  What plugins may do beyond is checked separately:

* several requests in one handler (`HandlerOps = 2`): a frame that was to be
  activated is deleted first and its pointer used afterwards
  (`ManagerSafeToCall`).  The header says that these functions can be called
  safely from anywhere.  `RequestsHonoured` does not hold there either: the
  second `InsertFrame()` overwrites the first, and `UpdateCommit()` may drop
  both of its requests;
* calls in the close event of a frame (`"close event"` in `PluginUse`), and
  `VCTL_QUIT` of a viewer that is not current (`"quit other"`): `Commit()`
  still ends and no frame is listed twice (`ManagerPlugins`), but a window
  that is opened while there is no current frame has nothing to go back to:
  `InsertCommit()` remembers the null `CurrentFrame`, and after its deletion no
  frame is current (`SomeFrameIsNext` does not hold with close events).

When a viewer quits below a modal frame, the frame the viewer returns to becomes
current above the modal one, so that `DeleteFrame()` without an argument in
the modal frame's handler, entered earlier, means another frame; the sources
say nothing about this case, and so no property does.

## The console input

`ConsoleInput` models `WinPort/src/ConsoleInput.cpp` with those who read from
it.  A reader with priority 0 is either the main thread, which polls with
`Peek()` and then calls `ReadConsoleInput()` (`GetInputRecordImpl()` of
`far/src/console/keyboard.cpp`), or the input thread of a running shell, which
reads at once.  The password and confirmation screens of
`WinPort/src/Backend/SudoAskpassImpl.cpp` appear in whatever thread needs them,
raise the priority and so take the input away from everybody else.

| code | model |
|---|---|
| `_pending` | `pending`, as types of events: `"key"` for all that the user does, `"noop"`, `"callback"`, `"size"` |
| `_requestor_priorities` | `priorities` |
| sleepers on `_non_empty` | `sleeping` |
| the loops of the readers, and what they peeked | `reader[r].at`, `.peeked`; `CheckForKeyPress()` keeps its `backlog` there |
| a `SudoAskpassScreen`: constructor, `Loop()`, destructors in the order of the members | `screen[s]`: `Appear`, `DispatchInput`, `FinalUpdate`, `Disappear` |
| `ForkConsole()`, `JoinConsole()` | `ForkConsole`, `KickForked`, `JoinConsole`; `forked` is the queue of the other console |

A step is what happens under `_mutex`.  `WaitForNonEmpty(r)` is both entering
and being woken up: a reader out of `sleeping` looks at the queue again.

The event that is read need not be the one that was peeked.  When the main
thread has peeked a dummy event, and a screen appears, reads it, and is
answered, the final event of the screen, of type `"size"`, is what the main
thread then reads, in the branch for dummy events, which clears what was read:
the repaint is lost.

`PeekedReaderReturns` says what a screen does not break: the main thread,
which sleeps in `ReadConsoleInput()` because the event it peeked is gone, goes
on when the screen is answered, thanks to the same final event.  It holds as
long as no shell reads at the same time; the input thread of a shell may take
the peeked event for good.

## Calls into the main thread

`InterThreadCall` models `far/src/base/InterThreadCall.cpp` and the loops that
dispatch: `Manager::ProcessMainLoop()` for panels and modal frames,
`Modal::Process()` for menus, `WAIT_FOR_AND_DISPATCH_INTER_THREAD_CALLS`, and
plugins that call `DispatchInterThreadCalls()`.  It is composed with
`ConsoleInput` (`Con`): the dummy event that announces a call is an event of
that module, the main thread is its one reader, and password screens of that
module compete for the event.

| code | model |
|---|---|
| `s_interlocked_delegates` | `delegates`; a delegate is named by its caller |
| `s_interlocked_delegates_tid` | `dispatching`: it is the main thread's, or 0 |
| the C++ stack of the main thread | `stack`: a frame for each loop, with the local `interlocked_delegates` as its `batch` |
| `_done`, `_discarded`, and where the caller is | `call[c]` |
| sleeping on the condition variable in a wait | a frame `at` `"asleep"` |
| `Do()`, `EnqueueInterThreadCallDelegate()` | `Do`, `DoRefused`, with `Kick` |
| `DispatchInterThreadCalls()` | `TakeDelegates`, `Process`, `Finalize`, `Dispatched` |
| `GetInputRecord()` | `PollInput`, `ReadInput`, `ReturnUnread`, `KeyIdle` |
| what it loses while it polls | `Divert`: `UpdatePanels`, `ScreenSaver`, `SkipInput`, `CallBack` |
| destructor of the dispatcher | `StopDispatching`, `Discard` |

What handlers and functions do is open: they flush the input, open further
loops up to `MaxDepth`, or end, with an exception perhaps.  A wait is for a
thread, and ends when this thread is between two calls.

`RemoteCalls` is the promise: a function is executed once, between call and
return; functions under way form a stack (`running` says which function is
under way at which depth of nesting); after the main thread stopped
nothing is executed and every call fails.  `ImplementsRemoteCalls` states that
the code keeps it.

The dummy event is not always enough.  `GetInputRecord()` polls the console,
for the panels without end, and takes events away meanwhile without returning
to a dispatch.  The constant `Diversions` says which of these ways exist in an
instance:

* `"update"`: `UpdateIfChanged()` of the panels flushes the input, or reads an
  event to see whether it is Esc (`flupdate.cpp:154`, `330`);
* `"saver"`: the screen saver, which any event ends, flushes the input
  (`scrsaver.cpp:219`);
* `"nested"`: with the cursor in the lower left corner, the function calls itself
  and drops what it gets (`keyboard.cpp:681`);
* `"skip"`: a lock key that was peeked is read and skipped
  (`keyboard.cpp:627`).  Such a key is no kick; but a password screen may take it
  between the peek and the read, which then gets the event behind it;
* `"callback"`: what plugins and macros do before it polls.

A call that lost its event in the panels waits until the user does something,
and so do the calls behind it: they find the queue of delegates not empty
and write no event.  Dialogs and menus get `KEY_IDLE` soon, and dispatch.
The run `InterThreadCallLostKick` refutes `KickIsPending`, that a waiting call is
always announced.  It has the first three diversions and stops at the first it
finds; each of them alone, as the only member of `Diversions`, refutes it too.
What does hold is that nothing else loses the event: not flushes in handlers, not
password screens, not events that are read in place of others.  The history
`diverted` tells that the panels threw away an event other than a key while
delegates were queued, and have not dispatched since; `OnlyDiversionsLoseKicks`
says that a call that waits is announced unless this happened, and
`CallsReturn` exempts a call only while nothing ever makes the panels dispatch.

A function that waits,
dispatching, for a thread whose delegate was swapped out together with its own
waits for ever.  `WaitForTaken = FALSE` excludes such waits in the run that
checks that calls return: no code of the repository is known to wait so.

The 5 seconds of `WaitForWake()` are needed: the macro lets go of the mutex
between dispatching and waiting, so that a notification can be missed.

## Connections of NetRocks

### The pool

`ConnectionsPool` models `plugins/NetRocks/src/ConnectionsPool.cpp`, and
extends `Threaded`, the model of `utils/src/Threaded.cpp`: an object that owns
at most one thread, with the flags `_trd_exited` and `_trd_joined`.  A panel
that leaves a site puts its connection into the pool; one that opens the site
gets it back; a thread, started when the pool is not empty, closes what
expires, and ends when the pool is empty.

| code | model |
|---|---|
| `_id_2_pooled_host` | `pool`: for an id, the host and the age of the entry in seconds |
| hosts that panels use | `remotes` |
| `purgeds` of a call and of the thread, destroyed out of the lock | `mainPurgeds`, `threadPurgeds` |
| where the thread is, what `wait_for()` has left | `thread`, `sleep` |
| the setting `ConnectionsPoolExpiration` | `expiration` |
| `time()` | `Tick`: all ages grow, up to `MaxAge` |

A step is what happens under `_mutex`.  The thread lets go of it only in
`wait_for()` and while it destroys hosts, which is what `MutexIsFree` says.

`ConnectionsPoolExpiry` is a finding.  A thread that found the pool empty has
left the mutex and is not marked as exited yet; a connection put at that
moment finds `StartThread()` failing, and notifies nobody.  It stays, open, until the user opens
or leaves another site.  `WatchedEntriesExpire` is what does hold: an entry
that is there while the thread is in its loop does not stay.

### Commands that are run when a connection opens and closes

`InitDeinitCmd` models `Host/InitDeinitCmd.cpp` with the file locks of
`utils/src/SharedResource.cpp`.  Before it connects to a site, NetRocks runs
the site's `Command`, and `CommandDeinit` when the connection is closed, and
tells both whether the connection is the only one to this site, of all
processes (`SINGULAR`).  A *group* lock serialises all this, a *private* lock
of the site, held for reading, counts the connections.  What the commands do
is the user's: the model lets a command that is told to be alone set up or
clean up something `shared`, which the properties follow.

| code | model |
|---|---|
| where a `HostRemote` and its `InitDeinitCmdImpl` are | `pc[c]` |
| the locked description of the group file, of the private files | `group`, `readers` |
| private lock files; those open descriptions that refer to a file that was not unlinked | `files`, `linked` |
| the child of `Run()` | `child`, `singular` |
| `_aborted` | `aborted` |
| `~Cleanup()`, which removes the files of all unused sites | `todo`, `current`; `Enum`, `LockGroup`, `Unlink` |

`flock()` belongs to the open file description, and there is no `O_CLOEXEC`:
children of a crashed process, among them the command it was running, keep its
locks.  `Crash` therefore turns connections with surviving children into `dead`
ones, which hold their locks until `LastChildExits`; `lingering` ones have
children that need not end (a daemon left by a command).  `CommandsAreSerial`
depends on this inheritance, and `GroupLockIsGranted` has its exception from
it: a daemon that was started by a command under the group lock blocks, after
a crash, all that follows.

`LastOneCleansUp` leaves out sites that are `spoiled`: a command failed there,
a process crashed, or the user broke the connection.  The last is not
obvious: `HostRemote::ReInitialize()` destroys the old object (`OnBroken()`) before it
resets `_aborted`, so that after an abort `Run()` throws and `CommandDeinit`
is not run.

## Operations of NetRocks

`OpBase` models `plugins/NetRocks/src/Op/OpBase.cpp` with the dialogs of
`UI/Activities` and the background tasks.  An operation has a thread of its
own, which calls the host and asks what to do about errors; the main thread
shows its progress, lets the user pause it, abort it, break the connection and
send it to the background, and joins the thread at the end.  `Kinds` are the
shapes operations have: `"connect"` (which is broken at once when it is
aborted), `"make"` (simple progress, no `ProgressStateUpdate`), `"remove"`
(complex progress) and `"xfer"` (may go to the background).

| code | model |
|---|---|
| `ProgressState` | `paused`, `aborting`, `finished` |
| what the main thread shows or waits in | `main` |
| where the thread is | `thread`, and `items` that are left |
| that the host was aborted: its pipes are broken | `hostAborted` |
| `_default_weas` | `default` |
| `saved_paused`, `AbortOperationProgress::_finished` | `saved`, `broken` |

A question of the thread is a call into the main thread.  `Dispatch` shows it
on top of whatever the main thread is in; until it is answered the main thread
makes no other step (`MainAt`).  `InterThreadCall` shows that such calls
return.

Two histories tell what the user wanted: `chosen`, the last use of the pause
button, and `early`, a progress that was shown before the thread had started
(when `ResetProgressState()` forgets what was chosen, as it does with an
abort).  An abort is forgotten, too, by a host that reconnects for a retry;
`AbortedOperationEnds` holds nevertheless, because the dialog that says the
operation is being aborted offers to break the connection again.  When far2m
exits there is no such dialog; then a reconnection that forgot the abort and
hangs keeps far2m waiting, and the property says so.

After 60 seconds the abort dialog breaks the connection by itself; the flag
that closed it stays set, and the dialog that is shown next is not closed by
the end of the operation, only by the user's next press of the button.

## Runs, bounds and fairness

| configuration | instance | distinct states |
|---|---|---|
| `ThreadedWorkQueue` | 4 items, 2 workers, limit 0 and the default | 475 274 |
| `Manager` | panels, 3 frames, 2 nested loops | 193 482 |
| `ManagerPlugins` | panels, 2 frames, 2 nested loops, close events and quitting viewers | 270 991 |
| `ManagerSafeToCall` | panels, 3 frames, 1 nested loop | violation |
| `ConsoleInput` | 2 readers, 2 screens that appear 3 times, 2 pending events | 218 070 |
| `InterThreadCallSafety` | 3 callers, 1 of them asynchronous, 3 nested loops of all kinds, all diversions, 1 screen, symmetry | 888 531 |
| `InterThreadCallLiveness` | 2 callers, 1 of them asynchronous, 2 nested loops of all kinds, all diversions, 1 screen | 13 036 |
| `InterThreadCallLostKick` | 1 caller, diversions `"update"`, `"saver"`, `"nested"` | violation |
| `ConnectionsPool` | 2 sites, 3 connections, expiration after 0, 1 or 3 seconds | 36 231 |
| `ConnectionsPoolExpiry` | 1 site, 2 connections | violation |
| `InitDeinitCmd` | 3 connections to one site, in 2 processes; another site with a left-over lock file | 95 518 |
| `OpBase` | 4 kinds of operations, up to 2 items | 25 447 |

*Pool.*  Two workers are enough for one to overtake another and for one to
sleep while the other works; with both at work and a limit of 0, the third
item makes the producer wait, and a fourth one comes after it, with items finished out of
order behind a gap.  One run checks safety and liveness, so no symmetry is
used.

*Manager.*  With the panels, a current window, a window behind it, and a modal
frame or its replacement all pairs of requests of one `Commit()` occur, on
the list and on the stack.  Two nested loops give a modal frame above a modal
one, and a modal one inside a plugin's viewer.

*Console input and calls.*  Two screens can appear and disappear in any order,
and the third appearance reuses a priority.  Two pending events
(`MaxPending`, a bound on what back ends and callers add) give an event behind
the one that was peeked.  Two synchronous callers make a batch of two, with a
third, asynchronous call queued behind it; three loops make a batch inside a
batch inside a handler.  The run for liveness has two loops and one pending
event, because each depth of the stack and each screen has fairness conditions
of its own.

*Connections.*  Two sites let one entry expire while another stays, and three
connections let one take another's place in the pool.  The expiration times
are zero (the entry goes at once), one, where half of it is zero, and three,
where the thread wakes up before the entry expires; they change at any moment.
`MaxAge` is beyond the longest of them plus the second that is added to each
sleep.  Of the commands, two connections in one process and one in another
show what depends on the process (crashes) and what does not (locks); all
share one group lock, which is the worst case.  The second site exists for
`~Cleanup()`, which looks at files of all sites.

*Operations.*  Two items: an error in the first one sets the default action
for the second.  One operation at a time, as in a panel; a background task
beside another operation shares no state with it but the list of tasks.

*Fairness.*  For the pool: every worker and the producer inside a call are
weakly fair.  Threads are scheduled by the system, the mutex is contended only
for short sections, and `WorkProc()` reads one file and ends; a thread that is
asleep has no step, so nothing is assumed about wake-ups.  What the producer
calls next, and spurious wake-ups, are not fair.  For the manager: its one
thread runs (`WF_vars(Step)`), and handlers eventually return; what they ask
for is not fair.  For the console input: threads run, the user types while a
screen asks for it and at last answers, and a screen reads faster than events
come (`ScreensKeepUp`), which is true of a user and of back ends.  For the
calls, in addition: functions and handlers return, the user closes dialogs,
waited threads get to the end of what they do, and a thread that calls without
a pause does not keep `DispatchInterThreadCalls()` from ever seeing the queue
empty.  These are strong fairness of the loop at each depth, because other
loops may run on top of it in between; weak fairness of the main thread is enough
where nothing can be opened any more (`MaxDepth`).
Lock keys are not pressed so fast that a dialog never gets `KEY_IDLE`.  No key in the panels is assumed, nor anything else that would
make them dispatch.
For the connections: threads run and time goes on, strongly, because a step of
the user may come between any two seconds.  For the commands: whoever waits
for the group lock gets it if it is free again and again, as `flock()` wakes
its waiters; `RunEnds` is fair because of the time limit; children of a crashed
process end, except the lingering ones.  For the operations: both threads run,
every dialog dispatches, the user answers what is asked and breaks the
connection if he is told again and again that the operation is being aborted;
a call of a host that was aborted fails, as its pipes are broken.  Calls of
other hosts may hang.

Deadlock is checked in all runs; the end of the program is a stuttering action.

Each property of a passing run has a mutant in `PROJECT.json`: a variant of one
operator with a plausible mistake (the `Bug…` operators at the top of the
modules), under which TLC finds the property violated.

## Proofs

Each theorem below holds for every value of the constants that satisfies the
assumptions named in the modules: any number of threads, frames, connections,
processes and nested loops.  An inductive invariant, checked by TLC on the
small instance first, carries each group of theorems; it is proved step by
step, one case for each action of `Next`.

### The thread pool: `ThreadedWorkQueueProofs`

| theorem | property |
|---|---|
| `WakeUpsAreNotLost` | `WakeInv` |
| `TypeCorrect`, `WorkingExact` | `TypeOK`, `WorkingIsExact` |
| `BacklogAttended` | `BacklogIsAttended`: an item never waits while the workers sleep |
| `ProducerNotified` | `ProducerWillBeNotified` |
| `DeletionFollowsQueueing` | `DestroyedInQueueOrder` |
| `NoUseAfterDeletion` | `NoUseAfterDelete` |
| `DestructorLeavesNothing` | `NothingLeaked` |
| `FinalizeLeavesNothing` | `FinalizeDrains`: `Finalize()` returns only when all items were processed |
| `PoolIsAnOrderedQueue` | `ImplementsOrderedWorkQueue`: the refinement |

The argument has three layers.

*Who sleeps.*  `BacklogIsAttended` is not inductive: `notify_one()` wakes a
single worker, and whether that is enough depends on what the others do.
`WakeInv` adds where a thread may be when it sleeps or holds an item
(`ThreadStates`) and that two items in the backlog leave no worker asleep
(`TwoWakeAll`): the second item was announced with `notify_all()`, and a worker
goes back to sleep only when it finds the backlog empty.  The producer's side
needs that `_working` counts the busy workers exactly, because what will wake
it is a busy worker.

*Where an item is.*  `OrderInv` ties positions in `queued` to places.  The
first `Len(destroyed)` items are deleted, the next are in the batch of the
call in progress, up to `Fetched`; those up to `Numbered` have a sequence
number and are each in `_done` or in the hands of exactly one worker; the rest
is the backlog, in order.  `_finalized_counter` and `_done_counter` mark the
two borders, shifted by the items the producer processed itself, which only
happens before the first worker exists.  The order of deletion, the absence of
a deletion under a worker's hands, and the completeness of the destructor
follow from it.  Its proof uses `TypeOK` and `ThreadStates` of the first layer.

*What was processed.*  `ProcessedInv` says that what is past the workers was
processed, and what is on its way to one was not.  With the other two it gives
`FinalizeDrains` and the refinement of `OrderedWorkQueue`: every step of a
worker, the producer or the destructor is a step of the promise or leaves
`queued`, `processed` and `destroyed` alone.

Assumptions: the workers are a finite non-empty set that does not contain the
producer (`ThreadsAssumption`), limits are naturals (`LimitsAssumption`), and
`None` is no item (`NoneAssumption`).

### The frame manager: `ManagerProofs`

| theorem | property |
|---|---|
| `TypeCorrect` | `TypeOK`, with `FramePos` an index of the list |
| `NothingIsListedTwice` | `NoFrameTwice`: no frame is twice in the list or on the stack, or in both |
| `NothingDangles` | `NoDangling`: no pointer to a deleted frame |
| `EveryRequestIsHonoured` | `RequestsHonoured`: no request is lost |
| `ShownFrameGetsTheKey` | `KeysGoToWhatIsShown` |
| `TopModalFrameIsCurrent` | `ModalFrameIsCurrent` |
| `AFrameIsNext` | `SomeFrameIsNext`: `CurrentFrame` is null only while its successor is known |
| `CallerIsCurrentAgain` | `ModalReturnsToCaller`: after a modal loop its caller is current |

The first two hold whatever a handler asks for, however many requests it makes
(`HandlerOps`), however deep loops nest (`Nesting`), and whatever plugins do
from close events (`PluginUse`): also where `NoDangling` does not hold.  The
others assume `Disciplined`: a handler makes one request, and plugins do
nothing unusual (`HandlerOps = 1`, `PluginUse = {}`, the values of
`Manager.cfg`).  Frames and nesting remain arbitrary.  The assumption is not a
convenience: with two requests `NoDangling` is false (run
`manager_safe_to_call`).

`NoFrameTwice` is far from inductive: `InsertCommit()`, `ExecuteCommit()` and
`UpdateCommit()` put a frame into the list or onto the stack without looking
whether it is there.  `IInv` (at the end of `Manager`) says why it is not:

* a frame on its way in (`Pending`: `InsertedFrame`, `ExecutedFrame`, and what
  a destructor on the call stack is to execute when it returns) is on one such
  way only (`PendingOnce`), and nothing that a handler or `Commit()` uses to
  name a frame knows it yet: not the list, not the stack, not `CurrentFrame`,
  not the frame of a handler or of a destructor under way
  (`PendingIsUnknown`).  So no request can be made for it before it has arrived;
* what is on the stack cannot lose focus, and is not what `DeactivateCommit()`
  replaces there (`StackKeepsFocus`); that function puts `ActivatedFrame` in
  the place of the deactivated one, which is the one way into the stack besides
  execution;
* `ExecuteModal()` has its frame executed by the `Commit()` it starts before
  its loop goes on (`ModalIsExecuted`), so that a frame a nested loop was
  entered for is not pending when a handler of that loop runs.

The proof has one lemma for each request and each part of `Commit()`.  These
are functions of the record `m`, so their lemmas speak about a record, and all
have one conclusion, `Keeps`: which frames they may put into the list and the
stack, and which pending frames and known ones they may leave.  A step on the
call stack (`CallsStep`), on the record (`FieldsStep`) or one that frees or
allocates a frame (`KindStep`) then follows from `Keeps` and from what it does
to the call stack.

The six properties under `Disciplined` come from one invariant, `DInv`, proved
together with `IInv`.  It says:

* *What may be asked at one time* (`Plans`, `Executes`): nothing; a new window,
  perhaps in the place of another one; a modal frame; the end of the current
  frame, perhaps with an editor in the place of a modal one; a switch between
  windows; the start of the frame just put onto the stack.  All other
  combinations of the six request slots, of which `Commit()` would make
  something else, do not occur.  Which plan is possible depends on who runs
  (`PlanFits`): a handler that has asked nothing yet finds none (`Settled`), a
  destructor finds the successor of its window chosen (`WindowDies`), or is
  that of a modal editor on top of the stack (`EditorDies`), or runs at the exit
  (`Ends`).
* *Where the frames are* (`Places`, `BackIsListed`, `ClosingLeaves`): windows
  in the list, or about to be inserted, or in their destructor; the panels at
  its head; modal frames on the stack; the `FrameToBack` of a listed frame in the list, since
  `DeleteCommit()` redirects those that name the deleted one; frames
  that asked to be deleted nowhere but in `DeletedFrame`.
* *What is painted* (`Drawn`, in `PlanFits`): the frame to be refreshed, or else the one painted
  last, is the current one, unless another is about to be activated.
* *How loops and stack fit* (`LoopsInv`): who calls whom (`Shape`), and
  that the modal loops on the call stack have the levels 0, 1, … of the modal stack,
  except between a request and the `Commit()` that carries it out
  (`LoopsFit`); that the frame of a loop is, if on the stack, at the place of its level
  (`ModalFrames`; an editor may have taken the place); and that the caller of a
  loop is the frame that would be current without it (`Callers`).

`NoDangling` needs all of it: that the frame a slot names is still in the
list or on the stack follows from the plan, that the plan is carried out
before another one is made follows from who runs, and what `Pop()` makes
current when a modal editor dies, or what the loop's caller finds, from the
fit of loops and stack.  A lemma for each request and for each branch of `Commit()`
says to which plan it leads; nested loops and destructors are handled by
lemmas on the shape of the call stack (`GoShape`, `PopShape`, `DestroyShape`).
`CallerIsCurrentAgain` needs `Callers` and the fact that a modal loop ends
only when nothing is asked (`Settled`).

Assumptions: the panels are a frame and `None` is none (`FramesAssumption`), a
handler makes at least one request and nesting is bounded by a natural
(`BoundsAssumption`), and `PluginUse` names ways that exist
(`PluginsAssumption`).  The set of frames may be infinite.

### The console input: `ConsoleInputProofs`

| theorem | property |
|---|---|
| `NoLostWakeUp` | `NobodyOversleeps`: no reader sleeps while the queue has an event for it |
| `PrioritiesHaveOneOwner` | `PrioritiesAreOwned` |
| `ScreensHaveTheInput` | `ScreenGetsTheInput`, an action property |

`IInv` is `TypeOK` and the first two properties: a reader may read when no
screen has a higher priority, so `NobodyOversleeps` needs that a screen that
goes away takes its own priority with it and wakes the others.  The highest
priority is a maximum of a finite set, whose existence is a fact of
`NaturalSets`.  `ScreenGetsTheInput` follows from the guard of each step that
removes events, those of `FlushInput` and `CheckForKeyPress()` included.

Assumptions: `ReadersAssumption`, `UsesAssumption`, `BoundsAssumption`; the set
of screens, of readers and the bounds are arbitrary otherwise.

### Calls into the main thread: `InterThreadCallProofs`

| theorem | property |
|---|---|
| `CallsAreRemoteCalls` | `ImplementsRemoteCalls`: the refinement |
| `NoDanglingDelegates` | `DelegatesInOnePlace`: no pointer to the delegate of a call that returned, none twice |
| `KickSuffices` | `OnlyDiversionsLoseKicks`: what announces a waiting call is lost by the diversions only, whichever of them exist |

`IInv` says where a delegate is.  The status of a call tells the place its
delegate is in (`StatusesTell`): the queue, the batch of one of the nested
loops, the head of that batch if it runs.  A call under way is in some place
(`EveryCallIsSomewhere`), and in no two (`NoneIsTwice`); batches that run have
elements, and nothing is on the stack or in the queue once the dispatcher is
gone (`StackOK`).  It follows that a running function is the head of exactly
one batch, which is what `running` of `RemoteCalls` says by depth.

`KickSuffices` has no hypothesis about what the polling does.  The first call
into an empty queue appends an event that is no key (`EnqueueKeeps`), and the
proof follows what becomes of the events that are none (`HasKick`).  A step that
shortens the queue of events either is followed by a dispatch before the next
wait (an event that is read for a handler, a flush in one), or is a diversion,
which sets `diverted` when it takes such an event (`DivertTells`), or is one of
a password screen, which leaves an event behind when it closes.  Only `Dispatched`
resets `diverted`, when no delegate is queued.

Assumptions: `CallersAssumption`, `LoopsAssumption`, `DiversionsAssumption`,
`SwitchAssumption`, `DepthAssumption`, and those of `ConsoleInput`.

### The pool of connections: `ConnectionsPoolProofs`

| theorem | property |
|---|---|
| `TypeCorrect` | `TypeOK` |
| `HostsHaveOneOwner` | `OneOwner` |
| `SleepIsShortEnough` | `SleepFitsEntries`: the thread never sleeps past an expiration by more than a second |
| `DestructorLeavesNothing` | `NothingIsLeft`: after the destructor the thread is joined, no host remains |

`OneOwner` needs to know that purged hosts are only where they are about to be
destroyed (`PurgedsAreTaken`), and the destructor that nothing is put once it
has purged everything (`NothingIsPutAtTheEnd`) and that the flags of `Threaded`
tell whether there is a thread (`ThreadIsKnown`).  `SleepFitsEntries` is about
a thread asleep; `EstimateFitsEntries` extends it to one that has computed its
time and still holds the mutex.  That `EstimateTimeToSleep` is well defined and
fits every entry is a lemma (`EstimateFits`), by a least element of a set of
naturals.

Assumptions: expiration times are a finite non-empty set of naturals
(`ExpirationsAssumption`), `CreationAssumption`.

### Commands at connection: `InitDeinitCmdProofs`

| theorem | property |
|---|---|
| `TypeCorrect` | `TypeOK`, with the group lock held by exactly the one in the locked part |
| `SerialCommands` | `CommandsAreSerial`: commands do not meet; one told `SINGULAR=1` is alone |
| `SharedStay` | `SharedThingsStay` |
| `LastCleansUp` | `LastOneCleansUp` |

`IInv` ties locks to connections: a read lock is held by an open connection, on
the file its path still names (`ReadLocksShow`), so that a write lock is
granted exactly to a connection that is alone at its site (lemma
`WriteLockTells`).  From this follow `SingularIsAlone`, that shared things are
there for all who rely on them (`SharedAreThere`) and that for all shared things
there is someone who will remove them (`SharedAreCaredFor`), unless something
failed or crashed there (`DeadSpoil`).  Crashes, inherited locks and left-over
files are cases of the proof like any other step.

Assumptions: the connections are a finite set, each with a site and a process
(`ConnsAssumption`), and `None` is neither (`NoneAssumption`).

### Operations: `OpBaseProofs`

| theorem | property |
|---|---|
| `TypeCorrect` | `TypeOK` |
| `PauseIsKept` | `PauseIsTheUsers`: only the user, or the abort question, pauses |
| `EndIsSeen` | `EndedIsFinished`: a thread at its end has set `finished` |

`PauseIsTheUsers` is inductive with `NobodyPausesTheStart`: before the thread
resets the state, nobody has had a Pause button, unless the progress was shown
early.  The other parts of `IInv` (`ThreadIsKnown`, `ItemsAreLeft`) give types.

Assumptions: `KindsAssumption`, `MaxItemsAssumption`, `CreationAssumption`.

### Lemmas on sets of naturals: `NaturalSets`

That finite sets of naturals have a greatest element is an induction, and the
induction theorems of the library take the predicate as an operator, which the
provers cannot instantiate.  `NaturalSets` takes another way: a non-empty set
of naturals has a least element, by well-foundedness, which the library states
for relations; and a finite set is enumerated by a function on `1 .. n`, whose
prefixes all have a greatest value, since there is no least prefix without one.

### What is only model-checked

* All liveness, which is beyond the prover: `CallsReturn`, `CommitReturns`,
  `ClosedFrameLeaves`, `PeekedReaderReturns`, `WatchedEntriesExpire`,
  `DestructorReturns`, `GroupLockIsGranted`, `AbortedOperationEnds`,
  `EndedIsCollected`.
* Nothing else: each invariant and each action property of a passing run is
  stated by a theorem.  Those of the manager listed under `Disciplined`
  are false beyond it, as `manager_safe_to_call` shows for `NoDangling`, so no
  theorem for all values of `HandlerOps` and `PluginUse` exists.

## What the models leave out

*Pool.*  What an item is and does; exceptions of `WorkProc()`, which the code
catches and ignores, are its return.  Running out of memory (the retry loop of
`WorkerThreadProc()`, an exception from `_backlog.emplace_back`) is left out,
and so is the statistics output.  `ThreadedWorkQueuePtrScope` is a call of
`Finalize()` followed, for the outermost scope, by the destructor, both of
which the producer may call at any time.  Sequence numbers do not wrap.

*Manager.*  Menus hanging from a frame (`ModalizeFrame`, `UnmodalizeFrame`,
`NextModal`) and what they do to a pending activation; what is drawn; macros;
the questions of `ExitAll()` about modified files, so that exit is possible
when the modal stack is empty; the dispatch of calls at the start of
`ProcessMainLoop()` (`InterThreadCall` has it, without the frames); what
`ActivateCommit()` tells plugins when it activates the panels
(`SE_FOLDERCHANGED`, `manager.cpp:1041`) and what frames do when they get or lose focus
(`OnChangeFocus()`), both of which run inside `Commit()`; events without a frame.  `RefreshFrame()` is not offered
to handlers: it changes what is painted, not who is current.  A dialog of a
plugin that can lose focus is a window as far as the manager is concerned, but
may be inserted above a modal frame, which no window of the model is.  When
`CurrentFrame` is null, requests that would use it are not made.

*Console input.*  The backtrace of events, `Count()`, waits with a timeout
other than those of `CheckForKeyPress()` and the screens (a timeout there is a
stuttering step), what callbacks do, what a reader does with the event it has
read (lock keys and focus events are read like any other; what
skipping them means for calls is in `InterThreadCall`), and failures to allocate.
`CheckForKeyPress()` is modelled with the flags that keep other events and
drop keys.  Priorities do not wrap.

*Calls.*  Dialogs opened while the panels are being updated, by callbacks, or by
the nested `GetInputRecord()`; what such a call to itself diverts in turn, which
is what the outer one may divert; loops inside a handler that read without dispatching
(they are part of the handler, and a dispatch follows it);
`OverrideInterThreadID()`,
exceptions that are not `std::exception`, and the destructors that run between
the end of the main loop and the end of the dispatcher, which may wait for
threads (see the hazards).

*Pool of connections.*  Hosts are created and destroyed in one step;
`Threaded` is the case that a thread is not the one that destroys the object.
The clock does not go backwards, and does not advance between two steps of the
thread that are not a wait or a destruction of hosts.

*Commands.*  Commands are not empty, and `kill -9` ends all of a command
that is aborted or runs out of time, not just its shell.  All sites share one
group file, which is never removed.  Results of `Lock()` that the code ignores
(`flock()` interrupted by a signal, a lock file that cannot be opened) are left
out, and so are modification marks (`UnlockWrite()` writes one, `IsModified()`
is used by the clipboard only).

*Operations.*  What is done with files, the scan before it, silent mode,
`OpExecute` with its FIFOs, the second host of a transfer, a thread that does
not start, and renames, which do not heed the pause.  Making directories and its
like (`"make"`) do not heed it either: there it only concerns the flags, although
`AbortOperationRequest.cpp:126` speaks of pausing the operation.  The change of
modes and the enumeration of a directory do (`OpChangeMode.cpp:91`,
`OpEnumDirectory.cpp:64`) below a simple progress; they are no kind of their
own, and combine the progress of `"make"` with the thread of `"remove"`.  Actions that
are remembered are per kind of error and per message in the code, and one
`default` in the model; recovery of a directory is a retry.  After the exit of
far2m the model may start again.  The mutex of the list of background tasks,
held while a progress dialog is shown, is not modelled: `GetPluginInfoW()`
takes it again on the same thread when F11 is pressed there (see the hazards).

The other parts of the inventory are not modelled yet, or, where the table of
components in `PROJECT.json` says so, will not be: they are input and output,
data processing, or code of third parties.
