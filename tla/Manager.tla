------------------------------ MODULE Manager -------------------------------
(***************************************************************************)
(* far/src/manager.cpp: the frame manager.  Frames (panels, editors,        *)
(* viewers, dialogs) never change the frame list or the modal stack         *)
(* themselves: their handlers leave requests in a few pointers of the       *)
(* manager, and Commit() carries them out in a fixed order of priority.     *)
(* Handlers run inside ProcessMainLoop() of a possibly nested loop:         *)
(* EnterMainLoop(), ExecuteModal(), ExecuteNonModal().  Everything is one   *)
(* thread; what is hard is which requests meet in one Commit(), and what    *)
(* the nested loops and the close events of a frame under deletion do.      *)
(*                                                                          *)
(* `calls' is the C++ call stack, as far as it matters:                     *)
(*   [at |-> "main" | "modal" | "nonmodal", ...]   an event loop            *)
(*   [at |-> "commit", count]                      Commit(count)            *)
(*   [at |-> "handler", frame, ops, began]         frame's ProcessKey()     *)
(*   [at |-> "destroy", frame, ops, began, listed, then]                    *)
(*                           frame's destructor, run by DeleteCommit()      *)
(*   [at |-> "closeall"]                           CloseAll() at exit       *)
(***************************************************************************)
EXTENDS Integers, Sequences, FiniteSets

CONSTANTS Frames,        \* the frames, a name standing for an address
          Panels,        \* CtrlObject->Cp()
          None,          \* nullptr
          HandlerOps,    \* bound: requests of one handler
          Nesting,       \* bound: loops nested in the main one
          PluginUse      \* what plugins do beyond the usual, a subset of
                         \*   "close event": call the manager in EE_CLOSE
                         \*   "quit other": VCTL_QUIT of a background viewer

ASSUME FramesAssumption == Panels \in Frames /\ None \notin Frames
ASSUME BoundsAssumption == HandlerOps \in Nat \ {0} /\ Nesting \in Nat
ASSUME PluginsAssumption ==
    PluginUse \subseteq {"close event", "quit other"}

VARIABLES
    m,        \* the fields of the Manager object, and every FrameToBack
    kind,     \* what each frame is; "none" when it does not exist
    calls,    \* the call stack
    endLoop,  \* EndLoop
    shown,    \* the frame painted last
    closing   \* history: frames whose handler asked to delete them

vars == <<m, kind, calls, endLoop, shown, closing>>

InSeq(s) == {s[k] : k \in DOMAIN s}
Top == calls[Len(calls)]
Rest == SubSeq(calls, 1, Len(calls) - 1)
LastOf(s) == s[Len(s)]
IndexOf(s, f) == CHOOSE k \in DOMAIN s : s[k] = f
Without(s, f) ==
    IF f \in InSeq(s)
    THEN [k \in 1 .. Len(s) - 1 |-> s[IF k < IndexOf(s, f) THEN k ELSE k + 1]]
    ELSE s

(* Panels and windows (non-modal editors and viewers) live in the           *)
(* frame list and can lose focus.  Dialogs and modal viewers belong to the  *)
(* caller of ExecuteModal(); a modal editor that replaced such a viewer     *)
(* (F6) is on the modal stack, too, but deleted by the manager.             *)
Kinds == {"none", "panels", "window", "dialog", "viewer", "editor"}
CanLoseFocus(f) == kind[f] \in {"panels", "window"}
DynamicallyBorn(f) == kind[f] \in {"panels", "window", "editor"}

InList(mm, f) == f \in InSeq(mm.FrameList)
InStack(mm, f) == f \in InSeq(mm.ModalStack)

Slots == {m.InsertedFrame, m.DeletedFrame, m.ActivatedFrame,
          m.RefreshedFrame, m.DeactivatedFrame, m.ExecutedFrame}

(* A name is used for a new frame once nothing refers to it any more.       *)
Referenced ==
    InSeq(m.FrameList) \cup InSeq(m.ModalStack) \cup Slots
    \cup {m.CurrentFrame, shown} \cup {m.FrameToBack[f] : f \in Frames}
    \cup {calls[k].frame : k \in {j \in DOMAIN calls :
                                    calls[j].at \in {"handler", "destroy",
                                                     "modal", "nonmodal"}}}
Fresh(f) == kind[f] = "none" /\ f \notin Referenced

(* ControlObject::Init(): InsertFrame(FPanels), Commit(); then the main     *)
(* loop is entered.                                                         *)
Init ==
    /\ m = [FrameList |-> <<Panels>>, ModalStack |-> <<>>, FramePos |-> 0,
            InsertedFrame |-> None, DeletedFrame |-> None,
            ActivatedFrame |-> None, RefreshedFrame |-> None,
            DeactivatedFrame |-> None, ExecutedFrame |-> None,
            CurrentFrame |-> Panels, FrameToBack |-> [f \in Frames |-> None]]
    /\ kind = [f \in Frames |-> IF f = Panels THEN "panels" ELSE "none"]
    /\ calls = <<[at |-> "main", phase |-> "commit"]>>
    /\ endLoop = FALSE
    /\ shown = Panels
    /\ closing = {}

-----------------------------------------------------------------------------
(* Variants of the definitions below with one plausible mistake each; the   *)
(* properties must tell them from the code.                                 *)

(* FramePos runs over the ends of the list.                                 *)
BugNoWrapAround(mm, f, direction) ==
    LET pos == mm.FramePos + direction
    IN [mm EXCEPT !.FramePos = IF direction # 0 THEN pos ELSE @,
                  !.DeactivatedFrame = f,
                  !.ActivatedFrame = IF direction # 0 /\ @ = None
                                        /\ pos + 1 \in DOMAIN mm.FrameList
                                     THEN mm.FrameList[pos + 1] ELSE @]

(* The activated frame is pushed again instead of moved to the top.         *)
BugPushAgain(mm, f) ==
    [mm EXCEPT !.ActivatedFrame = None, !.RefreshedFrame = f, !.CurrentFrame = f,
       !.FramePos = IF InList(mm, f) THEN IndexOf(mm.FrameList, f) - 1
                                                 ELSE @,
       !.ModalStack = IF InStack(mm, f) /\ mm.CurrentFrame # f
                      THEN Append(@, f) ELSE @]

(* The activated frame is not painted.                                      *)
BugNoRefresh(mm, f) ==
    [mm EXCEPT !.ActivatedFrame = None, !.CurrentFrame = f,
       !.FramePos = IF InList(mm, f) THEN IndexOf(mm.FrameList, f) - 1
                                                 ELSE @]

(* No successor is chosen for the deleted window.                           *)
BugNoSuccessor(mm, f) ==
    LET list == Without(mm.FrameList, f)
    IN [mm EXCEPT !.DeletedFrame = None, !.FrameList = list,
                  !.FramePos = IF @ >= Len(list) THEN 0 ELSE @]

(* A closed modal frame always gives way to the panels.                     *)
BugPopToPanels(mm, f, listed) ==
    IF listed THEN mm
    ELSE [mm EXCEPT !.ModalStack = Without(@, f), !.CurrentFrame = Panels,
                    !.FramePos = 0, !.RefreshedFrame = Panels]

(* The replaced frame is not deleted.                                       *)
BugReplaceKeepsDeleted(deleted, inserted, executed, stack) ==
    /\ m' = [m EXCEPT
               !.DeletedFrame = None, !.InsertedFrame = None,
               !.ExecutedFrame = None,
               !.FrameList = IF inserted # None THEN Append(@, inserted) ELSE @,
               !.ModalStack = IF executed # None THEN Append(@, executed) ELSE @,
               !.ActivatedFrame = IF executed # None THEN executed ELSE inserted]
    /\ calls' = stack

(* RefreshedFrame is not cleared.                                           *)
BugRefreshForever(stack) ==
    /\ m.DeletedFrame = None /\ m.InsertedFrame = None /\ m.ExecutedFrame = None
    /\ m.DeactivatedFrame = None /\ m.ActivatedFrame = None
    /\ m.RefreshedFrame # None
    /\ shown' = m.RefreshedFrame
    /\ m' = m
    /\ calls' = stack

-----------------------------------------------------------------------------
(* Requests: they only set pointers, for the next Commit().                 *)

InsertFrame(mm, f) == [mm EXCEPT !.InsertedFrame = f]

DeleteFrame(mm, f) ==
    [mm EXCEPT !.DeletedFrame = IF f = None THEN mm.CurrentFrame ELSE f]

ActivateFrame(mm, f) ==
    IF mm.ActivatedFrame = None /\ f # None /\ (InList(mm, f) \/ InStack(mm, f))
    THEN [mm EXCEPT !.ActivatedFrame = f]
    ELSE mm

ActivateIndex(mm, index) ==
    IF mm.ActivatedFrame = None /\ index < Len(mm.FrameList)
    THEN [mm EXCEPT !.ActivatedFrame = mm.FrameList[index + 1]]
    ELSE mm

DeactivateFrame(mm, f, direction) ==
    LET n == Len(mm.FrameList)
        pos == (mm.FramePos + direction + n) % n
        moved == IF direction # 0 /\ n # 0
                 THEN ActivateIndex([mm EXCEPT !.FramePos = pos], pos)
                 ELSE mm
    IN [moved EXCEPT !.DeactivatedFrame = f]

ExecuteFrame(mm, f) == [mm EXCEPT !.ExecutedFrame = f]

-----------------------------------------------------------------------------
(* Commit().  Callbacks of plugins after a change of folders, once no slot  *)
(* is set, and what OnChangeFocus() of a frame does are left out.           *)

ActivateCommit(mm, f) ==
    LET m1 == [mm EXCEPT !.ActivatedFrame = None, !.RefreshedFrame = f]
        cur == mm.CurrentFrame
    IN IF cur = f
       THEN m1
       ELSE [m1 EXCEPT
               !.CurrentFrame = f,
               !.FramePos = IF InList(mm, f) THEN IndexOf(mm.FrameList, f) - 1
                                             ELSE @,
               !.FrameToBack[f] = IF InList(mm, f) /\ InList(mm, cur)
                                  THEN cur ELSE @,
               !.ModalStack = IF InStack(mm, f) THEN Append(Without(@, f), f)
                                                ELSE @]

DeactivateCommit(mm, deactivated, activated) ==
    LET stack == mm.ModalStack
    IN [mm EXCEPT
          !.DeactivatedFrame = None,
          !.ModalStack =
              IF stack = <<>> \/ LastOf(stack) # deactivated THEN stack
              ELSE SubSeq(stack, 1, Len(stack) - 1) \o
                   (IF InStack(mm, activated) THEN <<>> ELSE <<activated>>)]

InsertCommit(mm, f) ==
    [mm EXCEPT !.InsertedFrame = None,
               !.FrameToBack[f] = mm.CurrentFrame,
               !.FrameList = Append(@, f),
               !.ActivatedFrame = IF @ = None THEN f ELSE @]

ExecuteCommit(mm, f) ==
    [mm EXCEPT !.ExecutedFrame = None,
               !.ModalStack = Append(@, f),
               !.ActivatedFrame = f]

(* The other frames' FrameToBack still name the deleted one.                *)
BugKeepFrameToBack(mm, f) ==
    LET list == Without(mm.FrameList, f)
        pos == IF mm.FramePos >= Len(list) THEN 0 ELSE mm.FramePos
        m1 == [mm EXCEPT !.DeletedFrame = None, !.FrameList = list,
                         !.FramePos = pos]
    IN IF ~InList(mm, f) THEN [mm EXCEPT !.DeletedFrame = None]
       ELSE IF mm.FrameToBack[f] # Panels
            THEN ActivateFrame(m1, mm.FrameToBack[f])
       ELSE IF list # <<>> THEN ActivateFrame(m1, list[pos + 1])
       ELSE m1

(* DeleteCommit() up to the `delete': the frame leaves the list, and its    *)
(* FrameToBack is to be activated.                                          *)
Unlink(mm, f) ==
    LET m1 == [mm EXCEPT
                 !.DeletedFrame = None,
                 !.FrameToBack = [g \in Frames |->
                     IF InList(mm, g) /\ @[g] = f THEN Panels ELSE @[g]]]
        list == Without(mm.FrameList, f)
        pos == IF mm.FramePos >= Len(list) THEN 0 ELSE mm.FramePos
        m2 == [m1 EXCEPT !.FrameList = list, !.FramePos = pos]
        back == m2.FrameToBack[f]
    IN IF ~InList(mm, f) THEN m1
       ELSE IF back # Panels THEN ActivateFrame(m2, back)
       ELSE IF list # <<>> THEN ActivateFrame(m2, list[pos + 1])
       ELSE m2

(* The rest of it: a frame that was not in the list may be on the stack.    *)
Pop(mm, f, listed) ==
    LET m1 == [mm EXCEPT !.ModalStack = Without(@, f)]
    IN IF listed \/ ~InStack(mm, f) THEN mm
       ELSE IF m1.ModalStack # <<>> THEN ActivateCommit(m1, LastOf(m1.ModalStack))
       ELSE IF m1.FrameList # <<>>
            THEN ActivateCommit(m1, m1.FrameList[m1.FramePos + 1])
       ELSE m1

ThenExecute(mm, f) == IF f = None THEN mm ELSE ExecuteCommit(mm, f)

(* DeleteCommit(f), followed by ExecuteCommit(then) unless it is null, with *)
(* `stack' the call stack to return to.                                     *)
DeleteCommit(mm, f, then, stack) ==
    LET m1 == Unlink(mm, f)
        listed == InList(mm, f)
    IN IF DynamicallyBorn(f)
       THEN /\ m' = [m1 EXCEPT !.CurrentFrame = IF @ = f THEN None ELSE @]
            /\ calls' = Append(stack, [at |-> "destroy", frame |-> f, ops |-> 0,
                                       began |-> FALSE, listed |-> listed, then |-> then])
       ELSE /\ m' = ThenExecute(Pop(m1, f, listed), then)
            /\ calls' = stack

(* The end of a destructor, and of the DeleteCommit() that runs it.         *)
Destroyed ==
    /\ Top.at = "destroy"
    /\ m' = ThenExecute(Pop([m EXCEPT !.FrameToBack[Top.frame] = None],
                            Top.frame, Top.listed), Top.then)
    /\ kind' = [kind EXCEPT ![Top.frame] = "none"]
    /\ closing' = closing \ {Top.frame}
    /\ calls' = Rest
    /\ UNCHANGED <<endLoop, shown>>

(* One frame is replaced by another.                                        *)
UpdateCommit(deleted, inserted, executed, stack) ==
    LET m1 == [m EXCEPT !.DeletedFrame = None, !.InsertedFrame = None,
                        !.ExecutedFrame = None]
        index == IndexOf(m.FrameList, deleted)
        m2 == ActivateFrame([m1 EXCEPT !.FrameList[index] = inserted], inserted)
        m3 == [m2 EXCEPT !.FrameToBack[m2.ActivatedFrame] = m.CurrentFrame]
    IN IF executed # None THEN DeleteCommit(m1, deleted, executed, stack)
       ELSE IF InList(m, deleted) THEN DeleteCommit(m3, deleted, None, stack)
       ELSE m' = m1 /\ calls' = stack

Requested == m.InsertedFrame # None \/ m.ExecutedFrame # None

(* One pass of the loop of Commit(Count).                                   *)
CommitDelete(stack) ==
    /\ m.DeletedFrame # None
    /\ IF Requested
       THEN UpdateCommit(m.DeletedFrame, m.InsertedFrame, m.ExecutedFrame, stack)
       ELSE DeleteCommit(m, m.DeletedFrame, None, stack)
    /\ shown' = shown

CommitExecute(stack) ==
    /\ m.DeletedFrame = None /\ m.ExecutedFrame # None
    /\ m' = ExecuteCommit(m, m.ExecutedFrame)
    /\ calls' = stack
    /\ shown' = shown

CommitInsert(stack) ==
    /\ m.DeletedFrame = None /\ m.ExecutedFrame = None
    /\ m.InsertedFrame # None
    /\ m' = InsertCommit(m, m.InsertedFrame)
    /\ calls' = stack
    /\ shown' = shown

CommitActivate(stack) ==
    /\ m.DeletedFrame = None /\ ~Requested
    /\ LET deactivated == m.DeactivatedFrame
           m1 == [m EXCEPT !.DeactivatedFrame = None]
       IN \/ /\ m.ActivatedFrame # None
             /\ m' = ActivateCommit(IF deactivated = None THEN m
                        ELSE DeactivateCommit(m, deactivated, m.ActivatedFrame),
                        m.ActivatedFrame)
          \/ /\ m.ActivatedFrame = None /\ deactivated # None
             /\ m' = m1
    /\ calls' = stack
    /\ shown' = shown

CommitRefresh(stack) ==
    /\ m.DeletedFrame = None /\ ~Requested
    /\ m.DeactivatedFrame = None /\ m.ActivatedFrame = None
    /\ m.RefreshedFrame # None
    /\ shown' = IF InList(m, m.RefreshedFrame) \/ InStack(m, m.RefreshedFrame)
                THEN m.RefreshedFrame ELSE shown
    /\ m' = [m EXCEPT !.RefreshedFrame = None]
    /\ calls' = stack

Commit ==
    /\ Top.at = "commit"
    /\ LET stack == IF Top.count = 1 THEN Rest ELSE calls
       IN \/ CommitDelete(stack)
          \/ CommitExecute(stack)
          \/ CommitInsert(stack)
          \/ CommitActivate(stack)
          \/ CommitRefresh(stack)
          \/ Slots = {None} /\ calls' = Rest /\ UNCHANGED <<m, shown>>
    /\ UNCHANGED <<kind, endLoop, closing>>

CommitCall(count) == [at |-> "commit", count |-> count]

-----------------------------------------------------------------------------
(* The event loops *)

IsLoop(c) == c.at \in {"main", "modal", "nonmodal"}
LoopGoesOn(c) == CASE c.at = "main"     -> ~endLoop
                   [] c.at = "modal"    -> Len(m.ModalStack) > c.level
                   [] c.at = "nonmodal" -> m.CurrentFrame = c.frame /\ ~endLoop

(* The Commit() of a loop; ExecuteModal()'s is skipped when it is over.     *)
LoopCommit ==
    /\ IsLoop(Top)
    /\ Top.phase = "commit"
    /\ Top.at = "modal" => LoopGoesOn(Top)
    /\ calls' = Rest \o <<[Top EXCEPT !.phase = "run"], CommitCall(0)>>
    /\ UNCHANGED <<m, kind, endLoop, shown, closing>>

(* CurrentFrame gets the next event; without one the loop just spins.       *)
ProcessMainLoop ==
    /\ IsLoop(Top)
    /\ Top.phase = "run"
    /\ LoopGoesOn(Top)
    /\ calls' = Rest \o <<[Top EXCEPT !.phase = "commit"]>> \o
                IF m.CurrentFrame = None THEN <<>>
                ELSE <<[at |-> "handler", frame |-> m.CurrentFrame, ops |-> 0,
                       began |-> FALSE]>>
    /\ UNCHANGED <<m, kind, endLoop, shown, closing>>

(* The loop is over.  The frame given to ExecuteModal() is an object of the *)
(* caller, which destroys it.                                               *)
LeaveLoop ==
    /\ IsLoop(Top)
    /\ Top.phase = "run" \/ Top.at = "modal"
    /\ ~LoopGoesOn(Top)
    /\ IF Top.at = "modal"
       THEN /\ kind' = [kind EXCEPT ![Top.frame] = "none"]
            /\ closing' = closing \ {Top.frame}
       ELSE UNCHANGED <<kind, closing>>
    /\ calls' = IF Top.at = "main" THEN <<[at |-> "closeall"]>> ELSE Rest
    /\ UNCHANGED <<m, endLoop, shown>>

CloseAll ==
    /\ Top.at = "closeall"
    /\ CASE m.ModalStack # <<>> -> DeleteCommit(m, LastOf(m.ModalStack), None, calls)
         [] m.ModalStack = <<>> /\ m.FrameList # <<>> ->
                DeleteCommit(m, LastOf(m.FrameList), None, calls)
         [] OTHER -> calls' = <<[at |-> "exited"]>> /\ UNCHANGED m
    /\ UNCHANGED <<kind, endLoop, shown, closing>>

-----------------------------------------------------------------------------
(* Handlers: what frames and plugins ask of the manager.                    *)

(* Code of a frame or a plugin is running and may do one more thing: in a   *)
(* key handler, or in the close event of a frame under deletion.            *)
Running == /\ Top.at = "handler" \/ (Top.at = "destroy" /\ "close event" \in PluginUse)
           /\ Top.ops < HandlerOps
           /\ ~endLoop
Keys == Running /\ Top.at = "handler" /\ kind[Top.frame] # "none"
Goes(ops, calls2) ==
    calls' = Rest \o <<[Top EXCEPT !.ops = ops, !.began = TRUE]>> \o calls2
Did(calls2) == Goes(Top.ops + 1, calls2)
Finish(calls2) == Goes(HandlerOps, calls2)

NestedLoops == {k \in DOMAIN calls : calls[k].at \in {"modal", "nonmodal"}}
MayNest == Cardinality(NestedLoops) < Nesting
InModalEV == \E k \in DOMAIN calls : calls[k].at = "modal" /\ calls[k].ev

(* No non-modal editor or viewer is opened over a modal frame.              *)
MayOpenWindow ==
    /\ m.CurrentFrame # None => CanLoseFocus(m.CurrentFrame)
    /\ ~InModalEV

(* new FileEditor or FileViewer with EnableSwitch.                          *)
OpenWindow(w) ==
    /\ Running /\ Fresh(w) /\ MayOpenWindow
    /\ kind' = [kind EXCEPT ![w] = "window"]
    /\ m' = InsertFrame(m, w)
    /\ Did(<<>>)
    /\ UNCHANGED <<endLoop, shown, closing>>

(* The same, then ExecuteNonModal(): a plugin's Viewer() and Editor().      *)
ExecuteNonModal(w) ==
    /\ Running /\ Fresh(w) /\ MayOpenWindow /\ MayNest
    /\ kind' = [kind EXCEPT ![w] = "window"]
    /\ m' = InsertCommit([m EXCEPT !.ExecutedFrame = None], w)
    /\ Did(<<[at |-> "nonmodal", phase |-> "run", frame |-> w], CommitCall(0)>>)
    /\ UNCHANGED <<endLoop, shown, closing>>

(* Dialog::Process(), and modal viewers through ExecuteModalEV().  Handlers *)
(* ask questions before they do something else, so this one is not counted. *)
ExecuteModal(d, k) ==
    /\ Running /\ Fresh(d) /\ MayNest
    /\ kind' = [kind EXCEPT ![d] = k]
    /\ m' = ExecuteFrame(m, d)
    /\ Goes(Top.ops, <<[at |-> "modal", phase |-> "run", frame |-> d,
                        level |-> Len(m.ModalStack), ev |-> k = "viewer"],
                       CommitCall(0)>>)
    /\ UNCHANGED <<endLoop, shown, closing>>

(* Esc: editors and viewers call DeleteFrame() without naming themselves;   *)
(* Dialog::CloseDialog() names itself and commits one step.                 *)
CloseFrame ==
    /\ Keys /\ kind[Top.frame] # "panels"
    /\ closing' = closing \cup {Top.frame}
    /\ IF kind[Top.frame] = "dialog"
       THEN m' = DeleteFrame(m, Top.frame) /\ Finish(<<CommitCall(1)>>)
       ELSE m' = DeleteFrame(m, None) /\ Finish(<<>>)
    /\ UNCHANGED <<kind, endLoop, shown>>

(* F6 in a viewer or an editor: the other one takes its place.              *)
ReplaceFrame(w) ==
    /\ Keys /\ Fresh(w) /\ kind[Top.frame] \in {"window", "viewer", "editor"}
    /\ closing' = closing \cup {Top.frame}
    /\ IF kind[Top.frame] = "window"
       THEN /\ kind' = [kind EXCEPT ![w] = "window"]
            /\ m' = DeleteFrame(InsertFrame(m, w), Top.frame)
       ELSE /\ kind' = [kind EXCEPT ![w] = "editor"]
            /\ m' = DeleteFrame(ExecuteFrame(m, w), Top.frame)
    /\ Finish(<<>>)
    /\ UNCHANGED <<endLoop, shown>>

(* FileEditor::Init() of a file that is open already: switch to its window  *)
(* (an opened one, not the new object, is activated) or reload it.          *)
SwitchToOpenFile(g) ==
    /\ Running /\ MayOpenWindow /\ InList(m, g) /\ kind[g] = "window"
    /\ m' = ActivateFrame(m, g)
    /\ Did(<<>>)
    /\ UNCHANGED <<kind, endLoop, shown, closing>>

ReloadFile(g, w) ==
    /\ Running /\ MayOpenWindow /\ InList(m, g) /\ kind[g] = "window"
    /\ Fresh(w)
    /\ kind' = [kind EXCEPT ![w] = "window"]
    /\ closing' = closing \cup {g}
    /\ m' = InsertFrame(DeleteFrame(m, g), w)
    /\ Did(<<>>)
    /\ UNCHANGED <<endLoop, shown>>

(* Ctrl-Tab, Ctrl-Shift-Tab.                                                *)
SwitchFrame(direction) ==
    /\ Keys /\ m.CurrentFrame # None /\ CanLoseFocus(m.CurrentFrame)
    /\ m' = DeactivateFrame(m, m.CurrentFrame, direction)
    /\ Finish(<<>>)
    /\ UNCHANGED <<kind, endLoop, shown, closing>>

(* F12: FrameMenu() activates the chosen frame, if any, and returns the     *)
(* frame to deactivate; an index beyond the list stands for Esc.            *)
FrameMenu(index) ==
    /\ Keys /\ m.CurrentFrame # None /\ CanLoseFocus(m.CurrentFrame)
    /\ index <= Len(m.FrameList)
    /\ LET m1 == ActivateIndex(m, index)
       IN m' = DeactivateFrame(m1, IF m1.ActivatedFrame = m.CurrentFrame
                                   THEN None ELSE m.CurrentFrame, 0)
    /\ Finish(<<>>)
    /\ UNCHANGED <<kind, endLoop, shown, closing>>

(* The plugin API.                                                          *)
SetCurrentWindow(index) ==
    /\ Running /\ ~InModalEV /\ index < Len(m.FrameList)
    /\ m.CurrentFrame # None /\ CanLoseFocus(m.CurrentFrame)
    /\ m' = DeactivateFrame(ActivateIndex(m, index), m.CurrentFrame, 0)
    /\ Did(<<>>)
    /\ UNCHANGED <<kind, endLoop, shown, closing>>

PluginCommit ==
    /\ Running
    /\ Did(<<CommitCall(0)>>)
    /\ UNCHANGED <<m, kind, endLoop, shown, closing>>

(* VCTL_QUIT names a viewer by its id, current or not.                      *)
QuitViewer(g) ==
    /\ Running /\ InList(m, g) /\ kind[g] = "window"
    /\ g = m.CurrentFrame \/ "quit other" \in PluginUse
    /\ closing' = closing \cup {g}
    /\ m' = DeleteFrame(m, g)
    /\ Did(<<CommitCall(0)>>)
    /\ UNCHANGED <<kind, endLoop, shown>>

(* ExitMainLoop() when ExitAll() finds no modal frame and nothing to save.  *)
ExitMainLoop ==
    /\ Keys /\ m.ModalStack = <<>>
    /\ endLoop' = TRUE
    /\ Finish(<<>>)
    /\ UNCHANGED <<m, kind, shown, closing>>

HandlerReturns ==
    /\ Top.at = "handler"
    /\ calls' = Rest
    /\ UNCHANGED <<m, kind, endLoop, shown, closing>>

Exited == Top.at = "exited" /\ UNCHANGED vars

(* The program's own steps; the rest is what handlers choose to ask.        *)
Step == Commit \/ Destroyed \/ LoopCommit \/ ProcessMainLoop \/ LeaveLoop
        \/ CloseAll \/ HandlerReturns

Next ==
    \/ Step
    \/ \E w \in Frames : OpenWindow(w) \/ ExecuteNonModal(w) \/ ReplaceFrame(w)
    \/ \E d \in Frames, k \in {"dialog", "viewer"} : ExecuteModal(d, k)
    \/ \E g \in Frames : SwitchToOpenFile(g) \/ QuitViewer(g)
    \/ \E g, w \in Frames : ReloadFile(g, w)
    \/ CloseFrame
    \/ \E direction \in {-1, 1} : SwitchFrame(direction)
    \/ \E index \in 0 .. Cardinality(Frames) : FrameMenu(index)
                                              \/ SetCurrentWindow(index)
    \/ PluginCommit
    \/ ExitMainLoop
    \/ Exited

Spec == Init /\ [][Next]_vars

(* The one thread runs: a Commit() goes on, a handler returns.              *)
FairSpec == Spec /\ WF_vars(Step)

-----------------------------------------------------------------------------
(* Properties *)

Exists(f) == f # None => kind[f] # "none"

FrameOrNone == Frames \cup {None}

Fields ==
    [FrameList : Seq(Frames), ModalStack : Seq(Frames), FramePos : Nat,
     InsertedFrame : FrameOrNone, DeletedFrame : FrameOrNone,
     ActivatedFrame : FrameOrNone, RefreshedFrame : FrameOrNone,
     DeactivatedFrame : FrameOrNone, ExecutedFrame : FrameOrNone,
     CurrentFrame : FrameOrNone, FrameToBack : [Frames -> FrameOrNone]]

Phases == {"commit", "run"}
CallTypes ==
    [at : {"main"}, phase : Phases]
    \cup [at : {"modal"}, phase : Phases, frame : Frames, level : Nat, ev : BOOLEAN]
    \cup [at : {"nonmodal"}, phase : Phases, frame : Frames]
    \cup [at : {"commit"}, count : {0, 1}]
    \cup [at : {"handler"}, frame : Frames, ops : Nat, began : BOOLEAN]
    \cup [at : {"destroy"}, frame : Frames, ops : Nat, began : BOOLEAN,
          listed : BOOLEAN, then : FrameOrNone]
    \cup [at : {"closeall", "exited"}]

(* FramePos is an index of the list, whatever was erased and inserted.      *)
TypeOK ==
    /\ m \in Fields
    /\ m.FramePos = 0 \/ m.FramePos < Len(m.FrameList)
    /\ kind \in [Frames -> Kinds]
    /\ calls \in Seq(CallTypes) /\ calls # <<>>
    /\ endLoop \in BOOLEAN
    /\ shown \in FrameOrNone
    /\ closing \subseteq Frames

(* The manager keeps no pointer to a frame that was deleted, except         *)
(* RefreshedFrame, which is looked up before it is used, and ActivatedFrame *)
(* once the loops are to end: CloseAll() deletes all frames one after the   *)
(* other, each of which may have the next one activated, and no Commit()    *)
(* that would look at it comes in between.                                  *)
NoDangling ==
    Top.at # "exited" =>
       /\ \A f \in InSeq(m.FrameList) : Exists(f) /\ Exists(m.FrameToBack[f])
       /\ \A f \in InSeq(m.ModalStack) : Exists(f)
       /\ \A f \in {m.CurrentFrame, m.InsertedFrame, m.DeletedFrame,
                    m.DeactivatedFrame, m.ExecutedFrame} : Exists(f)
       /\ ~endLoop => Exists(m.ActivatedFrame)

(* A handler is about to run: all requests have been carried out.           *)
AtRest == Top.at = "handler" /\ ~Top.began

UnderDeletion == {calls[k].frame : k \in {j \in DOMAIN calls :
                                            calls[j].at = "destroy"}}

(* No request is lost: every window opened is in the list, and no frame     *)
(* that asked to be deleted is still there.                                 *)
RequestsHonoured ==
    AtRest =>
       /\ \A f \in Frames \ UnderDeletion :
             kind[f] = "window" => InList(m, f)
       /\ \A f \in closing \ UnderDeletion : ~InList(m, f) /\ ~InStack(m, f)

(* A frame is at most once in the list or on the stack, never in both.      *)
NoFrameTwice ==
    /\ \A i, j \in DOMAIN m.FrameList : m.FrameList[i] = m.FrameList[j] => i = j
    /\ \A i, j \in DOMAIN m.ModalStack : m.ModalStack[i] = m.ModalStack[j] => i = j
    /\ InSeq(m.FrameList) \cap InSeq(m.ModalStack) = {}

(* The frame that gets the next key is the one painted last.                *)
KeysGoToWhatIsShown == AtRest => Top.frame = shown

(* It is the topmost modal frame, if there is one, so that the modal loop   *)
(* can be ended; otherwise it is the one FramePos names.                    *)
ModalFrameIsCurrent ==
    AtRest => m.CurrentFrame = IF m.ModalStack # <<>> THEN LastOf(m.ModalStack)
                               ELSE m.FrameList[m.FramePos + 1]

(* Between the deletion of a window and the next activation CurrentFrame    *)
(* may be null, but then its successor is known: ModalizeFrame() relies on  *)
(* it when a menu is opened in between.  (For a modal editor under deletion *)
(* it is not.)                                                              *)
SomeFrameIsNext ==
    /\ Top.at \notin {"exited", "closeall"}
    /\ ~endLoop
    /\ \A k \in DOMAIN calls : calls[k].at = "destroy" => calls[k].listed
    => m.CurrentFrame # None \/ m.ActivatedFrame # None \/ Requested

(* When the modal loop a handler started is over, the handler's own frame   *)
(* is current again: DeleteFrame() without an argument means that frame.    *)
ModalReturnsToCaller ==
    [][LeaveLoop /\ Top.at = "modal" /\ calls[Len(calls) - 1].at = "handler" =>
         m.CurrentFrame = calls[Len(calls) - 1].frame]_vars

(* Every Commit() ends, the destructors it runs included.                   *)
CommitReturns ==
    Top.at \in {"commit", "destroy"} ~> Top.at \notin {"commit", "destroy"}

(* A frame that asked to be deleted leaves the list or the stack, so that   *)
(* the modal loop waiting for it ends.                                      *)
ClosedFrameLeaves ==
    \A f \in Frames : f \in closing ~> ~InList(m, f) /\ ~InStack(m, f)

-----------------------------------------------------------------------------
(* The inductive invariant of NoFrameTwice: frames on their way into the    *)
(* list or onto the stack are each in one place, and nothing that deletes,  *)
(* activates or deactivates frames knows them yet.                          *)

CallsAt(places) == {k \in DOMAIN calls : calls[k].at \in places}

(* Frames that destructors on the call stack are to make room for.          *)
Thens == {calls[k].then : k \in CallsAt({"destroy"})} \ {None}
ToStack == Thens \cup ({m.ExecutedFrame} \ {None})
Pending == ToStack \cup ({m.InsertedFrame} \ {None})

Busy == {calls[k].frame : k \in CallsAt({"handler", "destroy"})}
Known(mm) == InSeq(mm.FrameList) \cup InSeq(mm.ModalStack)
             \cup {mm.CurrentFrame, mm.ActivatedFrame, mm.DeletedFrame}

PendingIsUnknown == Pending \cap (Known(m) \cup Busy) = {}

PendingOnce ==
    /\ m.InsertedFrame \notin ToStack
    /\ m.ExecutedFrame \notin Thens
    /\ \A j, k \in CallsAt({"destroy"}) :
          calls[j].then = calls[k].then => j = k \/ calls[j].then = None

(* What is on the stack or on the way to it cannot lose focus, and is not   *)
(* what DeactivateCommit() would replace there.                             *)
StackKeepsFocus ==
    /\ \A f \in ToStack : kind[f] # "none"
    /\ \A f \in InSeq(m.ModalStack) \cup ToStack : ~CanLoseFocus(f)
    /\ m.DeactivatedFrame \notin InSeq(m.ModalStack) \cup ToStack

(* The frame of a modal loop is executed before the loop goes on, unless a  *)
(* destructor that runs on top of the loop is to execute it.                *)
ModalIsExecuted ==
    \A j \in CallsAt({"modal"}) :
        /\ \A k \in CallsAt({"destroy"}) : k < j => calls[k].then # calls[j].frame
        /\ calls[j].frame = m.ExecutedFrame =>
              j = Len(calls) - 1 /\ Top.at = "commit"

(* The main loop, and CloseAll() after it, call everything else.            *)
MainIsAtTheBottom == calls[1].at \in {"main", "closeall", "exited"}

IInv == /\ TypeOK
        /\ MainIsAtTheBottom
        /\ NoFrameTwice
        /\ PendingIsUnknown
        /\ PendingOnce
        /\ StackKeepsFocus
        /\ ModalIsExecuted
=============================================================================
