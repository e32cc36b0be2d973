------------------------- MODULE ConsoleInputProofs --------------------------
(***************************************************************************)
(* Proofs, for any number of readers and screens and any bounds, about the  *)
(* queue of input events (ConsoleInput).                                    *)
(***************************************************************************)
EXTENDS ConsoleInput, NaturalSets, SequenceTheorems, TLAPS

-----------------------------------------------------------------------------
(* Facts about the operators the actions are built from. *)

(* The current priority is the greatest one that was raised, or 0.          *)
LEMMA CurrentPriorityIs ==
  ASSUME IsFiniteSet(priorities), priorities \subseteq Nat \ {0}
  PROVE  /\ CurrentPriority \in Nat
         /\ priorities = {} => CurrentPriority = 0
         /\ priorities # {} => CurrentPriority \in priorities
         /\ \A p \in priorities : p <= CurrentPriority
  <1>1. CASE priorities = {}
    BY <1>1 DEF CurrentPriority
  <1>2. CASE priorities # {}
    <2> DEFINE m == CHOOSE p \in priorities : \A q \in priorities : q <= p
    <2>1. m \in priorities /\ \A q \in priorities : q <= m
      BY <1>2, GreatestElement
    <2>2. CurrentPriority = m
      BY <1>2 DEF CurrentPriority
    <2> HIDE DEF m
    <2> QED
      BY <1>2, <2>1, <2>2
  <1> QED
    BY <1>1, <1>2

(* A reader may read when there is something and no screen is shown.        *)
LEMMA ReadableIs ==
  ASSUME IsFiniteSet(priorities), priorities \subseteq Nat \ {0}
  PROVE  Readable(0) <=> pending # <<>> /\ priorities = {}
  <1>1. 0 >= CurrentPriority <=> priorities = {}
    BY CurrentPriorityIs
  <1> QED
    BY <1>1 DEF Readable

LEMMA ReadableIsNext ==
  ASSUME IsFiniteSet(priorities'), priorities' \subseteq Nat \ {0}
  PROVE  Readable(0)' <=> pending' # <<>> /\ priorities' = {}
  <1>1. CASE priorities' = {}
    BY <1>1 DEF Readable, CurrentPriority
  <1>2. CASE priorities' # {}
    <2> DEFINE m == CHOOSE p \in priorities' : \A q \in priorities' : q <= p
    <2>1. m \in priorities'
      BY <1>2, GreatestElement
    <2>2. CurrentPriority' = m
      BY <1>2 DEF CurrentPriority
    <2> HIDE DEF m
    <2>3. ~(0 >= CurrentPriority')
      BY <2>1, <2>2
    <2> QED
      BY <1>2, <2>3 DEF Readable
  <1> QED
    BY <1>1, <1>2

-----------------------------------------------------------------------------
(* The inductive invariant: the last part says who raised the priorities.   *)
IInv == TypeOK /\ NobodyOversleeps /\ PrioritiesAreOwned

Places == {"away", "poll", "read", "wait", "check"}

Reader == [at : Places, peeked : EventTypes \cup {"none"},
           backlog : Seq(EventTypes)]

(* What changes the events and who sleeps, but neither the screens nor      *)
(* their priorities, keeps the invariant if the types are right and whoever *)
(* still sleeps has nothing to read.                                        *)
LEMMA QueueStep ==
  ASSUME IInv, UNCHANGED <<priorities, screen>>,
         pending' \in Seq(EventTypes),
         reader' \in [Readers -> Reader],
         sleeping' \subseteq {r \in Readers : reader'[r].at = "wait"},
         forked' \in {NoConsole, <<>>, <<"noop">>},
         opened' \in Nat,
         sleeping' = {} \/ pending' = <<>> \/ priorities # {}
  PROVE  IInv'
  <1> USE DEF IInv
  <1>1. TypeOK'
    BY DEF TypeOK, Reader, Places
  <1>2. PrioritiesAreOwned'
    BY <1>1 DEF PrioritiesAreOwned, IsOn
  <1>3. NobodyOversleeps'
    BY <1>1, ReadableIsNext DEF TypeOK, NobodyOversleeps
  <1> QED
    BY <1>1, <1>2, <1>3

(* Where the reader is written to, and where it stays as it is.             *)
LEMMA MoveReaderTypes ==
  ASSUME TypeOK, NEW r \in Readers, NEW place \in Places,
         NEW e \in EventTypes \cup {"none"}, MoveReader(r, place, e)
  PROVE  /\ reader' \in [Readers -> Reader]
         /\ reader'[r].at = place
         /\ \A x \in Readers \ {r} : reader'[x] = reader[x]
  BY DEF TypeOK, MoveReader, Reader, Places

(* Enqueue() wakes whoever sleeps, or leaves everything as it is.           *)
LEMMA EnqueueIs ==
  ASSUME TypeOK, NEW events \in Seq(EventTypes), Enqueue(events)
  PROVE  /\ pending' \in Seq(EventTypes)
         /\ sleeping' \subseteq sleeping
         /\ Len(pending') >= Len(pending)
         /\ sleeping' = {} \/ (sleeping' = sleeping /\ pending' = pending)
  <1>1. pending \in Seq(EventTypes)
    BY DEF TypeOK
  <1>2. pending' = pending \o events
    BY DEF Enqueue
  <1>3. /\ pending' \in Seq(EventTypes)
        /\ Len(pending') = Len(pending) + Len(events)
    BY <1>1, <1>2, ConcatProperties
  <1>4. Len(pending) \in Nat /\ Len(events) \in Nat
    BY <1>1, LenProperties
  <1>5. CASE events = <<>>
    <2>1. pending' = pending
      BY <1>1, <1>2, <1>5, ConcatEmptySeq
    <2> QED
      BY <1>3, <1>4, <1>5, <2>1 DEF Enqueue
  <1>6. CASE events # <<>>
    BY <1>3, <1>4, <1>6 DEF Enqueue
  <1> QED
    BY <1>5, <1>6

(* Who sleeps has nothing to read.                                          *)
LEMMA SleepersHaveNothing ==
  ASSUME IInv
  PROVE  /\ sleeping = {} \/ pending = <<>> \/ priorities # {}
         /\ Readable(0) <=> pending # <<>> /\ priorities = {}
  BY ReadableIs DEF IInv, TypeOK, NobodyOversleeps

LEMMA InitInv == Init => IInv
  <1> SUFFICES ASSUME Init PROVE IInv
    OBVIOUS
  <1>1. pending \in Seq(EventTypes) /\ <<>> \in Seq(EventTypes)
    BY EmptySeq DEF Init
  <1>2. IsFiniteSet(priorities) /\ priorities \subseteq Nat \ {0}
    BY FS_EmptySet DEF Init
  <1>3. TypeOK
    BY <1>1, <1>2 DEF Init, TypeOK, Off
  <1> QED
    BY <1>3 DEF Init, IInv, NobodyOversleeps, PrioritiesAreOwned, IsOn, Off

-----------------------------------------------------------------------------
(* Steps of those who write events, and of the readers. *)

LEMMA EventStep ==
  ASSUME IInv, NEW e \in EventTypes,
         \/ Enqueue(<<e>>) /\ UNCHANGED <<priorities, forked, opened, reader, screen>>
  PROVE  IInv'
  <1>1. <<e>> \in Seq(EventTypes)
    OBVIOUS
  <1>2. /\ pending' \in Seq(EventTypes) /\ sleeping' \subseteq sleeping
        /\ sleeping' = {} \/ (sleeping' = sleeping /\ pending' = pending)
    BY <1>1, EnqueueIs DEF IInv
  <1>3. TypeOK
    BY DEF IInv
  <1>4. reader' \in [Readers -> Reader]
    BY <1>3 DEF TypeOK, Reader, Places
  <1> QED
    BY <1>2, <1>3, <1>4, QueueStep, SleepersHaveNothing DEF TypeOK

LEMMA ReaderStepInv ==
  ASSUME IInv, NEW r \in Readers, ReaderStep(r)
  PROVE  IInv'
  <1>0. TypeOK
    BY DEF IInv
  <1>1. CASE StartReading(r)
    <2> DEFINE place == IF r \in ShellReaders THEN "read" ELSE "poll"
    <2>1. /\ MoveReader(r, place, "none") /\ place \in Places
          /\ reader[r].at = "away" /\ UNCHANGED <<conVars, screen>>
      BY <1>1 DEF StartReading, Places
    <2> HIDE DEF place
    <2>2. /\ reader' \in [Readers -> Reader]
          /\ \A x \in Readers \ {r} : reader'[x] = reader[x]
      BY <1>0, <2>1, MoveReaderTypes
    <2> QED
      BY <1>0, <2>1, <2>2, QueueStep, SleepersHaveNothing DEF TypeOK, conVars
  <1>2. CASE Peek(r)
    <2> DEFINE e == Inspected(Head(pending))
    <2>1. /\ MoveReader(r, "read", e) /\ pending # <<>>
          /\ reader[r].at = "poll" /\ UNCHANGED <<conVars, screen>>
      BY <1>2 DEF Peek, Readable
    <2>2. e \in EventTypes
      <3>1. Head(pending) \in EventTypes
        BY <1>0, <2>1, HeadTailProperties DEF TypeOK
      <3> QED
        BY <3>1 DEF Inspected, EventTypes
    <2> HIDE DEF e
    <2>3. /\ reader' \in [Readers -> Reader]
          /\ \A x \in Readers \ {r} : reader'[x] = reader[x]
      BY <1>0, <2>1, <2>2, MoveReaderTypes DEF Places
    <2> QED
      BY <1>0, <2>1, <2>3, QueueStep, SleepersHaveNothing DEF TypeOK, conVars
  <1>3. CASE Read(r)
    <2>1. /\ MoveReader(r, "away", "none") /\ pending' = Tail(pending)
          /\ reader[r].at = "read"
          /\ UNCHANGED <<priorities, sleeping, forked, opened, screen>>
      BY <1>3 DEF Read
    <2>2. pending # <<>> /\ priorities = {}
      BY <1>3, SleepersHaveNothing DEF Read
    <2>3. pending' \in Seq(EventTypes)
      BY <1>0, <2>1, <2>2, HeadTailProperties DEF TypeOK
    <2>4. reader' \in [Readers -> Reader]
      BY <1>0, <2>1, MoveReaderTypes DEF Places
    <2>5. sleeping = {}
      BY <2>2, SleepersHaveNothing
    <2> QED
      BY <1>0, <2>1, <2>3, <2>4, <2>5, QueueStep DEF TypeOK
  <1>4. CASE ReadNothing(r)
    <2>1. /\ MoveReader(r, "wait", reader[r].peeked)
          /\ reader[r].at = "read" /\ UNCHANGED <<conVars, screen>>
      BY <1>4 DEF ReadNothing
    <2>2. reader[r].peeked \in EventTypes \cup {"none"}
      BY <1>0 DEF TypeOK
    <2>3. /\ reader' \in [Readers -> Reader]
          /\ \A x \in Readers \ {r} : reader'[x] = reader[x]
      BY <1>0, <2>1, <2>2, MoveReaderTypes DEF Places
    <2> QED
      BY <1>0, <2>1, <2>3, QueueStep, SleepersHaveNothing DEF TypeOK, conVars
  <1>5. CASE WaitForNonEmpty(r)
    <2>1. UNCHANGED <<pending, priorities, forked, opened, screen>>
      BY <1>5 DEF WaitForNonEmpty
    <2>2. CASE Readable(0)
      <3>1. MoveReader(r, "read", reader[r].peeked) /\ UNCHANGED sleeping
        BY <1>5, <2>2 DEF WaitForNonEmpty
      <3>2. reader[r].peeked \in EventTypes \cup {"none"}
        BY <1>0 DEF TypeOK
      <3>3. reader' \in [Readers -> Reader]
        BY <1>0, <3>1, <3>2, MoveReaderTypes DEF Places
      <3>4. sleeping = {}
        BY <2>2, SleepersHaveNothing
      <3> QED
        BY <1>0, <2>1, <3>1, <3>3, <3>4, QueueStep DEF TypeOK
    <2>3. CASE ~Readable(0)
      <3>1. /\ sleeping' = sleeping \cup {r} /\ UNCHANGED reader
            /\ reader[r].at = "wait"
        BY <1>5, <2>3 DEF WaitForNonEmpty
      <3>2. pending = <<>> \/ priorities # {}
        BY <2>3, SleepersHaveNothing
      <3>3. reader' \in [Readers -> Reader]
        BY <1>0, <3>1 DEF TypeOK, Reader, Places
      <3> QED
        BY <1>0, <2>1, <3>1, <3>2, <3>3, QueueStep DEF TypeOK
    <2> QED
      BY <2>2, <2>3
  <1> QED
    BY <1>1, <1>2, <1>3, <1>4, <1>5 DEF ReaderStep

LEMMA FlushStep ==
  ASSUME IInv, NEW r \in Readers, Flush(r)
  PROVE  IInv'
  <1>1. /\ pending' = <<>>
        /\ UNCHANGED <<priorities, sleeping, forked, opened, reader, screen>>
    BY DEF Flush
  <1>2. pending' \in Seq(EventTypes)
    BY <1>1, EmptySeq
  <1>3. TypeOK
    BY DEF IInv
  <1>4. reader' \in [Readers -> Reader]
    BY <1>1, <1>3 DEF TypeOK, Reader, Places
  <1> QED
    BY <1>1, <1>2, <1>3, <1>4, QueueStep DEF TypeOK

(* CheckForKeyPress(): what it puts back wakes the sleepers.                *)
LEMMA CheckStepInv ==
  ASSUME IInv, NEW r \in Readers, CheckStep(r)
  PROVE  IInv'
  <1>0. TypeOK
    BY DEF IInv
  <1>1. CASE StartCheck(r)
    <2>1. /\ MoveReader(r, "check", "none")
          /\ reader[r].at = "away" /\ UNCHANGED <<conVars, screen>>
      BY <1>1 DEF StartCheck
    <2>2. /\ reader' \in [Readers -> Reader]
          /\ \A x \in Readers \ {r} : reader'[x] = reader[x]
      BY <1>0, <2>1, MoveReaderTypes DEF Places
    <2> QED
      BY <1>0, <2>1, <2>2, QueueStep, SleepersHaveNothing DEF TypeOK, conVars
  <1>2. CASE CheckNext(r)
    <2> DEFINE kept == IF Head(pending) = "key" THEN reader[r].backlog
                       ELSE Append(reader[r].backlog, Inspected(Head(pending)))
    <2>1. /\ pending' = Tail(pending)
          /\ reader' = [reader EXCEPT ![r].backlog = kept]
          /\ UNCHANGED <<priorities, sleeping, forked, opened, screen>>
      BY <1>2 DEF CheckNext
    <2>2. pending # <<>> /\ priorities = {}
      BY <1>2, SleepersHaveNothing DEF CheckNext
    <2>3. Head(pending) \in EventTypes /\ pending' \in Seq(EventTypes)
      BY <1>0, <2>1, <2>2, HeadTailProperties DEF TypeOK
    <2>4. Inspected(Head(pending)) \in EventTypes
      BY <2>3 DEF Inspected, EventTypes
    <2>5. reader[r].backlog \in Seq(EventTypes)
      BY <1>0 DEF TypeOK
    <2>6. kept \in Seq(EventTypes)
      BY <2>4, <2>5, AppendProperties
    <2> HIDE DEF kept
    <2>7. reader' \in [Readers -> Reader]
      <3>1. reader \in [Readers -> Reader]
        BY <1>0 DEF TypeOK, Reader, Places
      <3>2. [reader[r] EXCEPT !.backlog = kept] \in Reader
        BY <2>6, <3>1 DEF Reader
      <3> QED
        BY <2>1, <3>1, <3>2
    <2>8. sleeping = {}
      BY <2>2, SleepersHaveNothing
    <2> QED
      BY <1>0, <2>1, <2>3, <2>7, <2>8, QueueStep DEF TypeOK
  <1>3. CASE CheckDone(r)
    <2>1. /\ Enqueue(reader[r].backlog) /\ reader[r].at = "check"
          /\ reader' = [reader EXCEPT ![r].at = "away", ![r].backlog = <<>>]
          /\ UNCHANGED <<priorities, forked, opened, screen>>
      BY <1>3 DEF CheckDone
    <2>2. reader[r].backlog \in Seq(EventTypes) /\ <<>> \in Seq(EventTypes)
      BY <1>0, EmptySeq DEF TypeOK
    <2>3. /\ pending' \in Seq(EventTypes) /\ sleeping' \subseteq sleeping
          /\ sleeping' = {} \/ (sleeping' = sleeping /\ pending' = pending)
      BY <1>0, <2>1, <2>2, EnqueueIs
    <2>4. /\ reader' \in [Readers -> Reader]
          /\ \A x \in Readers \ {r} : reader'[x] = reader[x]
      <3>1. reader \in [Readers -> Reader]
        BY <1>0 DEF TypeOK, Reader, Places
      <3>2. [reader[r] EXCEPT !.at = "away", !.backlog = <<>>] \in Reader
        BY <2>2, <3>1 DEF Reader, Places
      <3> QED
        BY <2>1, <3>1, <3>2
    <2>5. sleeping' \subseteq {x \in Readers : reader'[x].at = "wait"}
      BY <1>0, <2>1, <2>3, <2>4 DEF TypeOK
    <2>6. sleeping' = {} \/ pending' = <<>> \/ priorities # {}
      BY <2>3, SleepersHaveNothing
    <2> QED
      BY <1>0, <2>1, <2>3, <2>4, <2>5, <2>6, QueueStep DEF TypeOK
  <1> QED
    BY <1>1, <1>2, <1>3 DEF CheckStep

-----------------------------------------------------------------------------
(* Steps of the screens, and of a shell in the background. *)

ScreenRecord == [at : {"off", "input", "lower"}, priority : Nat,
                 answered : BOOLEAN]

(* A new screen has a priority above all others, so nobody owns it.         *)
LEMMA AppearStep ==
  ASSUME IInv, NEW s \in Screens, Appear(s)
  PROVE  IInv'
  <1> USE DEF IInv
  <1> DEFINE new == NewPriority
             shown == [at |-> "input", priority |-> new, answered |-> FALSE]
  <1>1. /\ screen[s].at = "off" /\ opened' = opened + 1
        /\ priorities' = priorities \cup {new}
        /\ screen' = [screen EXCEPT ![s] = shown]
        /\ UNCHANGED <<pending, sleeping, forked, reader>>
    BY DEF Appear
  <1>2. new \in Nat \ {0} /\ \A p \in priorities : p < new
    <2>1. CurrentPriority \in Nat /\ \A p \in priorities : p <= CurrentPriority
      BY CurrentPriorityIs DEF TypeOK
    <2>2. priorities \subseteq Nat
      BY DEF TypeOK
    <2> QED
      BY <2>1, <2>2 DEF NewPriority
  <1> HIDE DEF new
  <1>3. IsFiniteSet(priorities') /\ priorities' \subseteq Nat \ {0}
    BY <1>1, <1>2, FS_AddElement DEF TypeOK
  <1>4. screen' \in [Screens -> ScreenRecord]
    BY <1>1, <1>2 DEF TypeOK, ScreenRecord
  <1>5. TypeOK'
    BY <1>1, <1>3, <1>4 DEF TypeOK, ScreenRecord
  <1>6. /\ screen'[s] = shown
        /\ \A t \in Screens \ {s} : screen'[t] = screen[t]
    BY <1>1 DEF TypeOK
  <1>7. /\ ~IsOn(s) /\ IsOn(s)'
        /\ \A t \in Screens \ {s} : IsOn(t)' <=> IsOn(t)
    BY <1>1, <1>6 DEF IsOn
  <1>8. priorities' = {screen'[t].priority : t \in {x \in Screens : IsOn(x)'}}
    BY <1>1, <1>6, <1>7 DEF PrioritiesAreOwned
  <1>9. ASSUME NEW t \in Screens, NEW u \in Screens, IsOn(t)', IsOn(u)', t # u
        PROVE  screen'[t].priority # screen'[u].priority
    <2>0. \A x \in Screens : IsOn(x) => screen[x].priority \in priorities
      BY DEF PrioritiesAreOwned
    <2>1. priorities \subseteq Nat
      BY DEF TypeOK
    <2>2. CASE t # s /\ u # s
      BY <1>6, <1>7, <1>9, <2>2 DEF PrioritiesAreOwned
    <2>3. CASE t = s
      <3>1. screen'[u].priority \in priorities
        BY <1>6, <1>7, <1>9, <2>0, <2>3
      <3> QED
        BY <1>2, <1>6, <2>1, <2>3, <3>1
    <2>4. CASE u = s
      <3>1. screen'[t].priority \in priorities
        BY <1>6, <1>7, <1>9, <2>0, <2>4
      <3> QED
        BY <1>2, <1>6, <2>1, <2>4, <3>1
    <2> QED
      BY <2>2, <2>3, <2>4
  <1>10. PrioritiesAreOwned'
    BY <1>5, <1>8, <1>9 DEF PrioritiesAreOwned, IsOn
  <1>11. NobodyOversleeps'
    BY <1>1, <1>3, ReadableIsNext DEF NobodyOversleeps
  <1> QED
    BY <1>5, <1>10, <1>11

(* A screen that is shown keeps its priority while it reads.                *)
LEMMA ScreenReads ==
  ASSUME IInv, NEW s \in Screens, IsOn(s),
         NEW new \in ScreenRecord, new.at # "off",
         new.priority = screen[s].priority,
         screen' = [screen EXCEPT ![s] = new],
         pending' \in Seq(EventTypes), sleeping' \subseteq sleeping,
         UNCHANGED <<priorities, forked, opened, reader>>
  PROVE  IInv'
  <1> USE DEF IInv
  <1>1. TypeOK'
    BY DEF TypeOK, ScreenRecord
  <1>2. \A t \in Screens : /\ IsOn(t)' <=> IsOn(t)
                           /\ screen'[t].priority = screen[t].priority
    BY DEF TypeOK, IsOn
  <1>3. {screen'[t].priority : t \in {x \in Screens : IsOn(x)'}}
           = {screen[t].priority : t \in {x \in Screens : IsOn(x)}}
    BY <1>2
  <1>4. PrioritiesAreOwned'
    BY <1>1, <1>2, <1>3 DEF PrioritiesAreOwned, IsOn
  <1>5. priorities # {}
    BY DEF PrioritiesAreOwned
  <1>6. NobodyOversleeps'
    BY <1>1, <1>5, ReadableIsNext DEF TypeOK, NobodyOversleeps
  <1> QED
    BY <1>1, <1>4, <1>6

LEMMA DispatchInputStep ==
  ASSUME IInv, NEW s \in Screens, NEW answer \in BOOLEAN, DispatchInput(s, answer)
  PROVE  IInv'
  <1> DEFINE new == [screen[s] EXCEPT !.answered = @ \/ answer]
  <1>0. TypeOK
    BY DEF IInv
  <1>1. /\ screen[s].at = "input" /\ pending # <<>>
        /\ pending' = Tail(pending)
        /\ screen' = [screen EXCEPT ![s] = new]
        /\ UNCHANGED <<priorities, sleeping, forked, opened, reader>>
    BY DEF DispatchInput, Readable
  <1>2. screen[s] \in ScreenRecord
    BY <1>0 DEF TypeOK, ScreenRecord
  <1>3. (screen[s].answered \/ answer) \in BOOLEAN
    OBVIOUS
  <1>4. /\ new \in ScreenRecord /\ new.at = screen[s].at
        /\ new.priority = screen[s].priority
    BY <1>2, <1>3 DEF ScreenRecord
  <1>5. pending' \in Seq(EventTypes)
    BY <1>0, <1>1, HeadTailProperties DEF TypeOK
  <1> HIDE DEF new
  <1> QED
    BY <1>1, <1>4, <1>5, ScreenReads DEF IsOn

LEMMA FinalUpdateStep ==
  ASSUME IInv, NEW s \in Screens, FinalUpdate(s)
  PROVE  IInv'
  <1> DEFINE new == [screen[s] EXCEPT !.at = "lower"]
  <1>0. TypeOK
    BY DEF IInv
  <1>1. /\ screen[s].at = "input" /\ Enqueue(<<"size">>)
        /\ screen' = [screen EXCEPT ![s] = new]
        /\ UNCHANGED <<priorities, forked, opened, reader>>
    BY DEF FinalUpdate
  <1>2. screen[s] \in ScreenRecord
    BY <1>0 DEF TypeOK, ScreenRecord
  <1>3. /\ new \in ScreenRecord /\ new.at = "lower"
        /\ new.priority = screen[s].priority
    BY <1>2 DEF ScreenRecord
  <1>4. <<"size">> \in Seq(EventTypes)
    BY DEF EventTypes
  <1>5. pending' \in Seq(EventTypes) /\ sleeping' \subseteq sleeping
    BY <1>0, <1>1, <1>4, EnqueueIs
  <1> HIDE DEF new
  <1> QED
    BY <1>1, <1>3, <1>5, ScreenReads DEF IsOn

(* Its owner takes a priority away, and nobody else's; the last one to do   *)
(* so wakes who may read now.                                               *)
LEMMA DisappearStep ==
  ASSUME IInv, NEW s \in Screens, Disappear(s)
  PROVE  IInv'
  <1> USE DEF IInv
  <1>1. /\ screen[s].at = "lower"
        /\ priorities' = priorities \ {screen[s].priority}
        /\ sleeping' = IF pending # <<>> THEN {} ELSE sleeping
        /\ screen' = [screen EXCEPT ![s] = Off]
        /\ UNCHANGED <<pending, forked, opened, reader>>
    BY DEF Disappear, AsleepAfterLower
  <1>2. IsFiniteSet(priorities') /\ priorities' \subseteq Nat \ {0}
    BY <1>1, FS_RemoveElement DEF TypeOK
  <1>3. screen' \in [Screens -> ScreenRecord]
    BY <1>1 DEF TypeOK, ScreenRecord, Off
  <1>4. TypeOK'
    BY <1>1, <1>2, <1>3 DEF TypeOK, ScreenRecord
  <1>5. /\ screen'[s] = Off
        /\ \A t \in Screens \ {s} : screen'[t] = screen[t]
    BY <1>1 DEF TypeOK
  <1>6. /\ IsOn(s) /\ ~IsOn(s)'
        /\ \A t \in Screens \ {s} : IsOn(t)' <=> IsOn(t)
    BY <1>1, <1>5 DEF IsOn, Off
  <1>7. \A t \in Screens \ {s} :
            IsOn(t) => screen[t].priority # screen[s].priority
    BY <1>6 DEF PrioritiesAreOwned
  <1>8. priorities' = {screen'[t].priority : t \in {x \in Screens : IsOn(x)'}}
    BY <1>1, <1>5, <1>6, <1>7 DEF PrioritiesAreOwned
  <1>9. \A t, u \in Screens :
            IsOn(t)' /\ IsOn(u)' /\ t # u
               => screen'[t].priority # screen'[u].priority
    BY <1>5, <1>6 DEF PrioritiesAreOwned
  <1>10. PrioritiesAreOwned'
    BY <1>4, <1>8, <1>9 DEF PrioritiesAreOwned, IsOn
  <1>11. NobodyOversleeps'
    BY <1>1, <1>2, ReadableIsNext DEF NobodyOversleeps
  <1> QED
    BY <1>4, <1>10, <1>11

LEMMA ForkStep ==
  ASSUME IInv, ForkConsole \/ KickForked \/ JoinConsole
  PROVE  IInv'
  <1>0. TypeOK
    BY DEF IInv
  <1>1. CASE ForkConsole \/ KickForked
    <2>1. /\ forked' \in {<<>>, <<"noop">>}
          /\ UNCHANGED <<pending, priorities, sleeping, opened, reader, screen>>
      BY <1>1 DEF ForkConsole, KickForked
    <2>2. reader' \in [Readers -> Reader]
      BY <1>0, <2>1 DEF TypeOK, Reader, Places
    <2> QED
      BY <1>0, <2>1, <2>2, QueueStep, SleepersHaveNothing DEF TypeOK
  <1>2. CASE JoinConsole
    <2>1. /\ forked # NoConsole /\ Enqueue(forked) /\ forked' = NoConsole
          /\ UNCHANGED <<priorities, opened, reader, screen>>
      BY <1>2 DEF JoinConsole
    <2>2. forked \in Seq(EventTypes)
      <3>1. <<>> \in Seq(EventTypes) /\ <<"noop">> \in Seq(EventTypes)
        BY EmptySeq DEF EventTypes
      <3> QED
        BY <1>0, <2>1, <3>1 DEF TypeOK
    <2>3. /\ pending' \in Seq(EventTypes) /\ sleeping' \subseteq sleeping
          /\ sleeping' = {} \/ (sleeping' = sleeping /\ pending' = pending)
      BY <1>0, <2>1, <2>2, EnqueueIs
    <2>4. reader' \in [Readers -> Reader]
      BY <1>0, <2>1 DEF TypeOK, Reader, Places
    <2>5. sleeping' = {} \/ pending' = <<>> \/ priorities # {}
      BY <2>3, SleepersHaveNothing
    <2> QED
      BY <1>0, <2>1, <2>3, <2>4, <2>5, QueueStep DEF TypeOK
  <1> QED
    BY <1>1, <1>2

-----------------------------------------------------------------------------
(* The invariant in every behaviour, and what it is there for. *)

LEMMA StepInv == IInv /\ [Next]_vars => IInv'
  <1> SUFFICES ASSUME IInv, [Next]_vars PROVE IInv'
    OBVIOUS
  <1>1. ASSUME NEW e \in {"key", "callback"}, Deliver(e) PROVE IInv'
    BY <1>1, EventStep DEF Deliver, EventTypes
  <1>2. CASE Kick
    <2>1. /\ Enqueue(<<"noop">>)
          /\ UNCHANGED <<priorities, forked, opened, reader, screen>>
      BY <1>2 DEF Kick
    <2>2. "noop" \in EventTypes
      BY DEF EventTypes
    <2> QED
      BY <2>1, <2>2, EventStep
  <1>3. ASSUME NEW r \in Readers, ReaderStep(r) PROVE IInv'
    BY <1>3, ReaderStepInv
  <1>4. ASSUME NEW r \in Readers, Flush(r) PROVE IInv'
    BY <1>4, FlushStep
  <1>5. ASSUME NEW r \in Readers, CheckStep(r) PROVE IInv'
    BY <1>5, CheckStepInv
  <1>6. ASSUME NEW s \in Screens, ScreenStep(s) PROVE IInv'
    BY <1>6, AppearStep, DispatchInputStep, FinalUpdateStep, DisappearStep
       DEF ScreenStep
  <1>7. CASE ForkConsole \/ KickForked \/ JoinConsole
    BY <1>7, ForkStep
  <1>8. CASE UNCHANGED vars
    <2>1. UNCHANGED <<pending, priorities, sleeping, reader, screen, forked, opened>>
      BY <1>8 DEF vars, conVars
    <2>2. reader' \in [Readers -> Reader]
      BY <2>1 DEF IInv, TypeOK, Reader, Places
    <2> QED
      BY <2>1, <2>2, QueueStep, SleepersHaveNothing DEF IInv, TypeOK
  <1> QED
    BY <1>1, <1>2, <1>3, <1>4, <1>5, <1>6, <1>7, <1>8 DEF Next

LEMMA Invariance == Spec => []IInv
  BY InitInv, StepInv, PTL DEF Spec

(* No reader sleeps through an event it may read, whatever is written,      *)
(* dropped, queued again, and whichever screens appear and disappear: every *)
(* notify_all() that is needed is there.                                    *)
THEOREM NoLostWakeUp == Spec => []NobodyOversleeps
  <1>1. IInv => NobodyOversleeps
    BY DEF IInv
  <1> QED
    BY <1>1, Invariance, PTL

(* Types; and each screen that is shown owns the priority it raised, alone: *)
(* LowerRequestorPriority() finds the priority it is to erase (its assert). *)
THEOREM PrioritiesHaveOneOwner == Spec => []PrioritiesAreOwned
  <1>1. IInv => PrioritiesAreOwned
    BY DEF IInv
  <1> QED
    BY <1>1, Invariance, PTL

(* What a reader takes out of the queue it takes while no screen is shown.  *)
TakesWhileFree(r) ==
    reader[r].at \in {"read", "check"} /\ Len(pending') < Len(pending)
       /\ reader'[r] # reader[r]
    => priorities = {}

LEMMA OnlyFreeReadersTake ==
  ASSUME IInv, [Next]_vars, NEW r \in Readers
  PROVE  TakesWhileFree(r)
  <1> SUFFICES ASSUME reader[r].at \in {"read", "check"},
                      Len(pending') < Len(pending), reader' # reader
               PROVE  priorities = {}
    BY DEF TakesWhileFree
  <1>0. TypeOK
    BY DEF IInv
  <1>1. Len(pending) \in Nat
    BY <1>0, LenProperties DEF TypeOK
  <1>2. pending' # pending
    BY <1>1
  <1>3. CASE \E x \in Readers : ReaderStep(x) \/ CheckStep(x)
    <2> PICK x \in Readers : ReaderStep(x) \/ CheckStep(x)
      BY <1>3
    <2>1. ~(StartReading(x) \/ Peek(x) \/ ReadNothing(x) \/ StartCheck(x))
      BY <1>2 DEF StartReading, Peek, ReadNothing, StartCheck, conVars
    <2>2. ~WaitForNonEmpty(x)
      BY <1>2 DEF WaitForNonEmpty
    <2>3. ~CheckDone(x)
      <3> SUFFICES ASSUME CheckDone(x) PROVE FALSE
        OBVIOUS
      <3>1. reader[x].backlog \in Seq(EventTypes)
        BY <1>0 DEF TypeOK
      <3>2. Len(pending') >= Len(pending)
        BY <1>0, <3>1, EnqueueIs DEF CheckDone
      <3>3. Len(pending') \in Nat
        <4>1. pending' \in Seq(EventTypes)
          BY <1>0, <3>1, EnqueueIs DEF CheckDone
        <4> QED
          BY <4>1, LenProperties
      <3> QED
        BY <1>1, <3>2, <3>3
    <2>4. Read(x) \/ CheckNext(x)
      BY <2>1, <2>2, <2>3 DEF ReaderStep, CheckStep
    <2> QED
      BY <2>4, SleepersHaveNothing DEF Read, CheckNext
  <1>4. CASE ~ \E x \in Readers : ReaderStep(x) \/ CheckStep(x)
    BY <1>4 DEF Next, vars, conVars, Deliver, Kick, Flush, ScreenStep, Appear,
       FinalUpdate, Disappear, DispatchInput, ForkConsole, KickForked, JoinConsole
  <1> QED
    BY <1>3, <1>4

(* While a screen is shown no reader takes an event out of the queue, not   *)
(* even one that had peeked it before the screen appeared.                  *)
THEOREM ScreensHaveTheInput == Spec => ScreenGetsTheInput
  <1>1. IInv /\ [Next]_vars
           => [\A r \in Readers :
                  reader[r].at \in {"read", "check"} /\ Len(pending') < Len(pending)
                     /\ reader'[r] # reader[r]
                  => priorities = {}]_vars
    BY OnlyFreeReadersTake DEF TakesWhileFree
  <1> QED
    BY <1>1, Invariance, PTL DEF Spec, ScreenGetsTheInput
=============================================================================
