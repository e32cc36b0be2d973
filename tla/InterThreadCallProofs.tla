------------------------ MODULE InterThreadCallProofs -------------------------
(***************************************************************************)
(* Proofs, for any number of callers and screens and any depth of loops,    *)
(* about calls into the main thread (InterThreadCall).                      *)
(***************************************************************************)
EXTENDS InterThreadCall, NaturalSets, SequenceTheorems, TLAPS

-----------------------------------------------------------------------------
(* The console input keeps its types whatever this module does with it.     *)

ReaderRecord == [at : {"away", "poll", "read", "wait", "check"},
                 peeked : Con!EventTypes \cup {"none"},
                 backlog : Seq(Con!EventTypes)]

ScreenRecord == [at : {"off", "input", "lower"}, priority : Nat,
                 answered : BOOLEAN]

(* What the instance of ConsoleInput calls finite is finite.                *)
LEMMA FiniteIsFinite == \A S : Con!IsFiniteSet(S) <=> IsFiniteSet(S)
  BY DEF Con!IsFiniteSet, IsFiniteSet

(* Steps that leave the screens alone.                                      *)
LEMMA ConsoleQueueTypes ==
  ASSUME Con!TypeOK, UNCHANGED <<priorities, screen, forked, opened>>,
         pending' \in Seq(Con!EventTypes),
         reader' \in [{Main} -> ReaderRecord],
         sleeping' \subseteq {r \in {Main} : reader'[r].at = "wait"}
  PROVE  Con!TypeOK'
  BY DEF Con!TypeOK, ReaderRecord, Con!NoConsole

LEMMA ReaderIsReader ==
  ASSUME Con!TypeOK
  PROVE  reader \in [{Main} -> ReaderRecord]
  BY DEF Con!TypeOK, ReaderRecord

LEMMA MoveReaderTypes ==
  ASSUME Con!TypeOK,
         NEW place \in {"away", "poll", "read", "wait", "check"},
         NEW e \in Con!EventTypes \cup {"none"},
         Con!MoveReader(Main, place, e)
  PROVE  /\ reader' \in [{Main} -> ReaderRecord]
         /\ reader'[Main].at = place
  BY DEF Con!TypeOK, Con!MoveReader, ReaderRecord

LEMMA EnqueueTypes ==
  ASSUME Con!TypeOK, NEW e \in Con!EventTypes, Con!Enqueue(<<e>>)
  PROVE  /\ pending' \in Seq(Con!EventTypes) /\ pending' # <<>>
         /\ sleeping' = {}
  <1>1. <<e>> \in Seq(Con!EventTypes) /\ pending \in Seq(Con!EventTypes)
    BY DEF Con!TypeOK
  <1>2. pending' = pending \o <<e>> /\ sleeping' = {}
    BY DEF Con!Enqueue
  <1>3. pending' \in Seq(Con!EventTypes) /\ Len(pending') = Len(pending) + 1
    BY <1>1, <1>2, ConcatProperties
  <1>4. Len(pending) \in Nat
    BY <1>1, LenProperties
  <1>5. pending' # <<>>
    BY <1>3, <1>4
  <1> QED
    BY <1>2, <1>3, <1>5

LEMMA KickTypes ==
  ASSUME Con!TypeOK, NEW e \in Con!EventTypes, Con!Enqueue(<<e>>),
         UNCHANGED <<priorities, forked, opened, reader, screen>>
  PROVE  Con!TypeOK' /\ pending' # <<>>
  <1>1. reader' \in [{Main} -> ReaderRecord]
    BY ReaderIsReader
  <1> QED
    BY <1>1, EnqueueTypes, ConsoleQueueTypes

(* The main thread reads an event, or looks for Esc; it flushes the input.  *)
LEMMA TakeTypes ==
  ASSUME Con!TypeOK,
         \/ pending # <<>> /\ pending' = Tail(pending)
         \/ pending' = <<>>,
         UNCHANGED <<priorities, sleeping, forked, opened, reader, screen>>
  PROVE  Con!TypeOK'
  <1>0. pending \in Seq(Con!EventTypes) /\ <<>> \in Seq(Con!EventTypes)
    BY EmptySeq DEF Con!TypeOK
  <1>1. pending' \in Seq(Con!EventTypes)
    BY <1>0, HeadTailProperties
  <1>2. reader' \in [{Main} -> ReaderRecord]
    BY ReaderIsReader
  <1> QED
    BY <1>1, <1>2, ConsoleQueueTypes DEF Con!TypeOK

LEMMA ReadTypes ==
  ASSUME Con!TypeOK,
         \/ Con!StartReading(Main) \/ Con!Peek(Main) \/ Con!ReadNothing(Main)
         \/ Con!WaitForNonEmpty(Main) \/ Con!Read(Main)
  PROVE  Con!TypeOK'
  <1>0. /\ pending \in Seq(Con!EventTypes)
        /\ reader[Main].peeked \in Con!EventTypes \cup {"none"}
        /\ sleeping \subseteq {r \in {Main} : reader[r].at = "wait"}
    BY DEF Con!TypeOK
  <1>1. CASE Con!StartReading(Main)
    <2>1. /\ Con!MoveReader(Main, "poll", "none") /\ reader[Main].at = "away"
          /\ UNCHANGED <<pending, priorities, sleeping, forked, opened, screen>>
      BY <1>1 DEF Con!StartReading, Con!conVars
    <2> QED
      BY <1>0, <2>1, MoveReaderTypes, ConsoleQueueTypes
  <1>2. CASE Con!Peek(Main)
    <2> DEFINE e == Con!Inspected(Head(pending))
    <2>1. /\ Con!MoveReader(Main, "read", e) /\ reader[Main].at = "poll"
          /\ pending # <<>>
          /\ UNCHANGED <<pending, priorities, sleeping, forked, opened, screen>>
      BY <1>2 DEF Con!Peek, Con!Readable, Con!conVars
    <2>2. Head(pending) \in Con!EventTypes
      BY <1>0, <2>1, HeadTailProperties
    <2>3. e \in Con!EventTypes
      BY <2>2 DEF Con!Inspected, Con!EventTypes
    <2> HIDE DEF e
    <2> QED
      BY <1>0, <2>1, <2>3, MoveReaderTypes, ConsoleQueueTypes
  <1>3. CASE Con!ReadNothing(Main)
    <2>1. /\ Con!MoveReader(Main, "wait", reader[Main].peeked)
          /\ reader[Main].at = "read"
          /\ UNCHANGED <<pending, priorities, sleeping, forked, opened, screen>>
      BY <1>3 DEF Con!ReadNothing, Con!conVars
    <2> QED
      BY <1>0, <2>1, MoveReaderTypes, ConsoleQueueTypes
  <1>4. CASE Con!WaitForNonEmpty(Main)
    <2>1. /\ reader[Main].at = "wait" /\ Main \notin sleeping
          /\ UNCHANGED <<pending, priorities, forked, opened, screen>>
          /\ \/ Con!MoveReader(Main, "read", reader[Main].peeked)
                /\ UNCHANGED sleeping
             \/ sleeping' = sleeping \cup {Main} /\ UNCHANGED reader
      BY <1>4 DEF Con!WaitForNonEmpty
    <2>2. reader' \in [{Main} -> ReaderRecord]
      BY <1>0, <2>1, MoveReaderTypes, ReaderIsReader
    <2>3. sleeping' \subseteq {r \in {Main} : reader'[r].at = "wait"}
      BY <1>0, <2>1
    <2> QED
      BY <1>0, <2>1, <2>2, <2>3, ConsoleQueueTypes
  <1>5. CASE Con!Read(Main)
    <2>1. /\ Con!MoveReader(Main, "away", "none") /\ reader[Main].at = "read"
          /\ pending # <<>> /\ pending' = Tail(pending)
          /\ UNCHANGED <<priorities, sleeping, forked, opened, screen>>
      BY <1>5 DEF Con!Read, Con!Readable
    <2>2. pending' \in Seq(Con!EventTypes)
      BY <1>0, <2>1, HeadTailProperties
    <2> QED
      BY <1>0, <2>1, <2>2, MoveReaderTypes, ConsoleQueueTypes
  <1> QED
    BY <1>1, <1>2, <1>3, <1>4, <1>5

(* The screens.                                                             *)
LEMMA ScreenTypes ==
  ASSUME Con!TypeOK, NEW s \in Screens, Con!ScreenStep(s)
  PROVE  Con!TypeOK'
  <1>0. /\ screen \in [Screens -> ScreenRecord] /\ pending \in Seq(Con!EventTypes)
        /\ IsFiniteSet(priorities) /\ priorities \subseteq Nat \ {0}
    BY FiniteIsFinite DEF Con!TypeOK, ScreenRecord
  <1>1. CASE Con!Appear(s)
    <2> DEFINE new == Con!NewPriority
    <2>1. new \in Nat \ {0}
      <3>1. CASE priorities = {}
        BY <3>1 DEF Con!NewPriority, Con!CurrentPriority
      <3>2. CASE priorities # {}
        <4> DEFINE m == CHOOSE p \in priorities : \A q \in priorities : q <= p
        <4>1. m \in Nat
          BY <1>0, <3>2, GreatestElement
        <4>2. new = m + 1
          BY <3>2 DEF Con!NewPriority, Con!CurrentPriority
        <4> HIDE DEF m, new
        <4> QED
          BY <4>1, <4>2
      <3> QED
        BY <3>1, <3>2
    <2>2. /\ opened' = opened + 1
          /\ priorities' = priorities \cup {new}
          /\ screen' = [screen EXCEPT ![s] = [at |-> "input", priority |-> new,
                                              answered |-> FALSE]]
          /\ UNCHANGED <<pending, sleeping, forked, reader>>
      BY <1>1 DEF Con!Appear
    <2> HIDE DEF new
    <2>3. IsFiniteSet(priorities') /\ priorities' \subseteq Nat \ {0}
      BY <1>0, <2>1, <2>2, FS_AddElement
    <2>4. screen' \in [Screens -> ScreenRecord]
      BY <1>0, <2>1, <2>2 DEF ScreenRecord
    <2>5. Con!IsFiniteSet(priorities') /\ opened' \in Nat
      BY <2>2, <2>3, FiniteIsFinite DEF Con!TypeOK
    <2> QED
      BY <2>2, <2>3, <2>4, <2>5 DEF Con!TypeOK, ScreenRecord, Con!NoConsole
  <1>2. CASE Con!FinalUpdate(s)
    <2>1. /\ Con!Enqueue(<<"size">>)
          /\ screen' = [screen EXCEPT ![s].at = "lower"]
          /\ UNCHANGED <<priorities, forked, opened, reader>>
      BY <1>2 DEF Con!FinalUpdate
    <2>2. "size" \in Con!EventTypes
      BY DEF Con!EventTypes
    <2>3. pending' \in Seq(Con!EventTypes) /\ sleeping' = {}
      BY <2>1, <2>2, EnqueueTypes
    <2>4. screen' \in [Screens -> ScreenRecord]
      BY <1>0, <2>1 DEF ScreenRecord
    <2> QED
      BY <2>1, <2>3, <2>4 DEF Con!TypeOK, ScreenRecord, Con!NoConsole
  <1>3. CASE Con!Disappear(s)
    <2>1. /\ priorities' = priorities \ {screen[s].priority}
          /\ sleeping' \subseteq sleeping
          /\ screen' = [screen EXCEPT ![s] = Con!Off]
          /\ UNCHANGED <<pending, forked, opened, reader>>
      BY <1>3 DEF Con!Disappear, Con!AsleepAfterLower
    <2>2. IsFiniteSet(priorities') /\ priorities' \subseteq Nat \ {0}
      BY <1>0, <2>1, FS_RemoveElement
    <2>3. screen' \in [Screens -> ScreenRecord]
      BY <1>0, <2>1 DEF ScreenRecord, Con!Off
    <2> QED
      BY <2>1, <2>2, <2>3, FiniteIsFinite DEF Con!TypeOK, ScreenRecord, Con!NoConsole
  <1>4. ASSUME NEW answer \in BOOLEAN, Con!DispatchInput(s, answer)
        PROVE  Con!TypeOK'
    <2> DEFINE said == screen[s].answered \/ answer
    <2>1. /\ pending # <<>> /\ pending' = Tail(pending)
          /\ screen' = [screen EXCEPT ![s].answered = said]
          /\ UNCHANGED <<priorities, sleeping, forked, opened, reader>>
      BY <1>4 DEF Con!DispatchInput, Con!Readable
    <2>2. said \in BOOLEAN
      OBVIOUS
    <2> HIDE DEF said
    <2>3. screen' \in [Screens -> ScreenRecord]
      BY <1>0, <2>1, <2>2 DEF ScreenRecord
    <2>4. pending' \in Seq(Con!EventTypes)
      BY <1>0, <2>1, HeadTailProperties
    <2> QED
      BY <2>1, <2>3, <2>4 DEF Con!TypeOK, ScreenRecord, Con!NoConsole
  <1> QED
    BY <1>1, <1>2, <1>3, <1>4 DEF Con!ScreenStep
-----------------------------------------------------------------------------
(* The inductive invariant: where the delegate of a call is. *)

Elements(queue) == {queue[i] : i \in DOMAIN queue}

(* Loops nest up to their bound, those that execute calls have some, and    *)
(* none are left when the main thread stopped to serve calls.               *)
StackOK ==
    /\ Len(stack) <= MaxDepth
    /\ \A k \in DOMAIN stack :
          stack[k].at \in {"batch", "run"} <=> stack[k].batch # <<>>
    /\ ~dispatching => stack = <<>> /\ delegates = <<>>
    /\ discarding # <<>> => ~dispatching

(* Whose delegate is in a place is in the status that belongs to it.        *)
StatusesTell ==
    /\ \A i \in DOMAIN delegates : call[delegates[i]] = "queued"
    /\ \A i \in DOMAIN discarding : call[discarding[i]] = "queued"
    /\ \A k \in DOMAIN stack : \A i \in DOMAIN stack[k].batch :
          call[stack[k].batch[i]] =
             IF i = 1 /\ stack[k].at = "run" THEN "running" ELSE "taken"

(* A call under way has a delegate somewhere.                               *)
EveryCallIsSomewhere ==
    \A c \in Callers :
       /\ call[c] = "queued" =>
             c \in Elements(delegates) \cup Elements(discarding)
       /\ call[c] \in {"taken", "running"} =>
             \E k \in DOMAIN stack : c \in Elements(stack[k].batch)

(* No delegate is twice in the same queue, or in two batches.               *)
NoneIsTwice ==
    /\ \A i, j \in DOMAIN delegates : delegates[i] = delegates[j] => i = j
    /\ \A i, j \in DOMAIN discarding : discarding[i] = discarding[j] => i = j
    /\ \A k, l \in DOMAIN stack :
          \A i \in DOMAIN stack[k].batch, j \in DOMAIN stack[l].batch :
             stack[k].batch[i] = stack[l].batch[j] => k = l /\ i = j

IInv == TypeOK /\ StackOK /\ StatusesTell /\ EveryCallIsSomewhere /\ NoneIsTwice

-----------------------------------------------------------------------------
(* Facts about the operators the actions are built from. *)

LEMMA SeqFacts ==
  ASSUME NEW S, NEW q \in Seq(S)
  PROVE  /\ Len(q) \in Nat /\ DOMAIN q = 1 .. Len(q)
         /\ \A i \in DOMAIN q : q[i] \in S
         /\ q # <<>> => Len(q) \in DOMAIN q /\ 1 \in DOMAIN q /\ Head(q) = q[1]
  <1>1. Len(q) \in Nat /\ DOMAIN q = 1 .. Len(q) /\ q \in [1 .. Len(q) -> S]
    BY LenProperties
  <1>2. q # <<>> => Len(q) # 0
    OBVIOUS
  <1> QED
    BY <1>1, <1>2

(* A stack of frames, its frames and their batches.                         *)
LEMMA StackFacts ==
  ASSUME TypeOK
  PROVE  /\ stack \in Seq(Frames) /\ Len(stack) \in Nat
         /\ DOMAIN stack = 1 .. Len(stack)
         /\ \A k \in DOMAIN stack : /\ stack[k] \in Frames
                                    /\ stack[k].batch \in Seq(Callers)
         /\ stack # <<>> => /\ Len(stack) \in DOMAIN stack
                            /\ Top = stack[Len(stack)] /\ Top \in Frames
                            /\ Top.batch \in Seq(Callers)
  <1>1. stack \in Seq(Frames)
    BY DEF TypeOK
  <1>2. /\ Len(stack) \in Nat /\ DOMAIN stack = 1 .. Len(stack)
        /\ \A k \in DOMAIN stack : stack[k] \in Frames
        /\ stack # <<>> => Len(stack) \in DOMAIN stack
    BY <1>1, SeqFacts
  <1>3. \A f \in Frames : f.batch \in Seq(Callers)
    BY DEF Frames
  <1> QED
    BY <1>1, <1>2, <1>3 DEF Top

(* The innermost frame becomes another one.                                 *)
LEMMA TopBecomes ==
  ASSUME TypeOK, stack # <<>>, NEW f \in Frames,
         NEW s, s = [stack EXCEPT ![Len(stack)] = f]
  PROVE  /\ s \in Seq(Frames) /\ Len(s) = Len(stack) /\ DOMAIN s = DOMAIN stack
         /\ s[Len(stack)] = f
         /\ \A k \in DOMAIN stack \ {Len(stack)} : s[k] = stack[k]
  <1>1. Len(stack) \in 1 .. Len(stack) /\ stack \in Seq(Frames)
    BY StackFacts
  <1>2. /\ s \in Seq(Frames) /\ Len(s) = Len(stack)
        /\ \A j \in 1 .. Len(stack) : s[j] = IF j = Len(stack) THEN f ELSE stack[j]
    BY <1>1, ExceptSeq
  <1>3. DOMAIN s = 1 .. Len(s) /\ DOMAIN stack = 1 .. Len(stack)
    BY <1>1, <1>2, SeqFacts
  <1> QED
    BY <1>1, <1>2, <1>3

(* The innermost loop ends.                                                 *)
LEMMA PoppedIs ==
  ASSUME TypeOK, stack # <<>>
  PROVE  /\ Popped \in Seq(Frames) /\ Len(Popped) = Len(stack) - 1
         /\ DOMAIN Popped = 1 .. Len(stack) - 1
         /\ \A k \in 1 .. Len(stack) - 1 : Popped[k] = stack[k]
  <1>1. /\ Len(stack) \in Nat /\ Len(stack) # 0 /\ stack \in Seq(Frames)
        /\ \A k \in 1 .. Len(stack) - 1 : stack[k] \in Frames
    BY StackFacts
  <1>2. /\ Popped \in Seq(Frames)
        /\ Len(Popped) = IF 1 <= Len(stack) - 1 THEN (Len(stack) - 1) - 1 + 1 ELSE 0
        /\ \A k \in 1 .. (Len(stack) - 1) - 1 + 1 : Popped[k] = stack[1 + k - 1]
    BY <1>1, SubSeqProperties DEF Popped
  <1>3. DOMAIN Popped = 1 .. Len(Popped)
    BY <1>2, SeqFacts
  <1>4. Len(Popped) = Len(stack) - 1
    <2>1. \A n \in Nat : n # 0 =>
             (IF 1 <= n - 1 THEN (n - 1) - 1 + 1 ELSE 0) = n - 1
      OBVIOUS
    <2> QED
      BY <1>1, <1>2, <2>1, Zenon
  <1>5. ASSUME NEW k \in 1 .. Len(stack) - 1
        PROVE  Popped[k] = stack[k]
    <2>1. k \in 1 .. (Len(stack) - 1) - 1 + 1 /\ 1 + k - 1 = k
      BY <1>1
    <2>2. Popped[k] = stack[1 + k - 1]
      BY <1>2, <2>1
    <2> QED
      BY <2>1, <2>2
  <1> QED
    BY <1>2, <1>3, <1>4, <1>5

(* The sleeping wait goes on to dispatch.                                   *)
LEMMA AwokenIs ==
  ASSUME TypeOK
  PROVE  /\ Awoken(stack) \in Seq(Frames) /\ Len(Awoken(stack)) = Len(stack)
         /\ DOMAIN Awoken(stack) = DOMAIN stack
         /\ \A k \in DOMAIN stack :
               /\ Awoken(stack)[k].kind = stack[k].kind
               /\ Awoken(stack)[k].batch = stack[k].batch
               /\ \/ Awoken(stack)[k].at = stack[k].at
                  \/ /\ stack[k].at = "asleep"
                     /\ Awoken(stack)[k].at = "dispatch"
  <1> DEFINE woken == Awoken(stack)
  <1>1. /\ stack \in Seq(Frames) /\ Len(stack) \in Nat
        /\ DOMAIN stack = 1 .. Len(stack)
        /\ \A k \in DOMAIN stack : stack[k] \in Frames
    BY StackFacts
  <1>2. /\ woken = [k \in DOMAIN stack |-> woken[k]]
        /\ \A k \in DOMAIN stack :
              woken[k] = IF stack[k].at = "asleep"
                         THEN [stack[k] EXCEPT !.at = "dispatch"] ELSE stack[k]
    BY DEF Awoken
  <1> HIDE DEF woken
  <1>3. \A k \in DOMAIN stack : woken[k] \in Frames
    BY <1>1, <1>2 DEF Frames
  <1>4. woken \in [1 .. Len(stack) -> Frames]
    BY <1>1, <1>2, <1>3
  <1>5. woken \in Seq(Frames) /\ Len(woken) = Len(stack)
    BY <1>1, <1>4
  <1>6. \A k \in DOMAIN stack :
            /\ woken[k].kind = stack[k].kind
            /\ woken[k].batch = stack[k].batch
            /\ \/ woken[k].at = stack[k].at
               \/ stack[k].at = "asleep" /\ woken[k].at = "dispatch"
    BY <1>1, <1>2 DEF Frames
  <1>7. DOMAIN woken = DOMAIN stack
    BY <1>1, <1>4
  <1> QED
    BY <1>5, <1>6, <1>7 DEF woken

(* The rest of a queue.                                                     *)
LEMMA TailIs ==
  ASSUME NEW S, NEW q \in Seq(S), q # <<>>
  PROVE  /\ Tail(q) \in Seq(S) /\ Head(q) = q[1] /\ 1 \in DOMAIN q
         /\ \A i \in DOMAIN Tail(q) : i + 1 \in DOMAIN q /\ Tail(q)[i] = q[i + 1]
         /\ \A i \in DOMAIN q \ {1} : i - 1 \in DOMAIN Tail(q)
                                      /\ q[i] = Tail(q)[i - 1]
         /\ Tail(q) = <<>> <=> Len(q) = 1
  <1>1. /\ Tail(q) \in Seq(S) /\ Len(Tail(q)) = Len(q) - 1
        /\ \A i \in 1 .. Len(Tail(q)) : Tail(q)[i] = q[i + 1]
    BY HeadTailProperties
  <1>2. /\ DOMAIN Tail(q) = 1 .. Len(Tail(q)) /\ DOMAIN q = 1 .. Len(q)
        /\ Len(q) \in Nat /\ Len(Tail(q)) \in Nat /\ Head(q) = q[1] /\ 1 \in DOMAIN q
    BY <1>1, SeqFacts
  <1>3. Tail(q) = <<>> <=> Len(Tail(q)) = 0
    BY <1>1
  <1> QED
    BY <1>1, <1>2, <1>3

-----------------------------------------------------------------------------
(* Steps of the loops that neither take a call nor finish one. *)

(* What is left as it is by them: the batches and who executes his.         *)
SameBatches(s) ==
    /\ \A k \in DOMAIN stack \cap DOMAIN s :
          /\ s[k].batch = stack[k].batch
          /\ s[k].at = "run" <=> stack[k].at = "run"
    /\ \A k \in DOMAIN stack \ DOMAIN s : stack[k].batch = <<>>
    /\ \A k \in DOMAIN s \ DOMAIN stack : s[k].batch = <<>>

(* A stack like those that TypeOK and StackOK describe.                     *)
ProperStack(s) ==
    /\ s \in Seq(Frames)
    /\ Len(s) <= MaxDepth
    /\ \A k \in DOMAIN s :
          /\ s[k].kind = "panels" <=> k = 1
          /\ k < Len(s) => s[k].at \in {"run", "handle"}
          /\ s[k].at \in {"batch", "run"} <=> s[k].batch # <<>>

LEMMA StackIsProper ==
  ASSUME IInv
  PROVE  ProperStack(stack) /\ SameBatches(stack)
  BY DEF IInv, TypeOK, StackOK, ProperStack, SameBatches

LEMMA BatchesStay ==
  ASSUME IInv, ProperStack(stack'), SameBatches(stack')
  PROVE  /\ \A k \in DOMAIN stack' : \A i \in DOMAIN stack'[k].batch :
                /\ k \in DOMAIN stack /\ i \in DOMAIN stack[k].batch
                /\ stack'[k].batch = stack[k].batch
                /\ stack'[k].at = "run" <=> stack[k].at = "run"
         /\ \A k \in DOMAIN stack : \A c \in Elements(stack[k].batch) :
                k \in DOMAIN stack' /\ c \in Elements(stack'[k].batch)
         /\ Running' = Running
  <1>1. \A k \in DOMAIN stack' :
           stack'[k].batch # <<>> => /\ k \in DOMAIN stack
                                     /\ stack'[k].batch = stack[k].batch
                                     /\ stack'[k].at = "run" <=> stack[k].at = "run"
    BY DEF SameBatches
  <1>2. \A k \in DOMAIN stack :
           stack[k].batch # <<>> => /\ k \in DOMAIN stack'
                                    /\ stack'[k].batch = stack[k].batch
                                    /\ stack'[k].at = "run" <=> stack[k].at = "run"
    BY DEF SameBatches
  <1>3. \A k \in DOMAIN stack' : \A i \in DOMAIN stack'[k].batch :
           /\ k \in DOMAIN stack /\ i \in DOMAIN stack[k].batch
           /\ stack'[k].batch = stack[k].batch
           /\ stack'[k].at = "run" <=> stack[k].at = "run"
    BY <1>1
  <1>4. ASSUME NEW k \in DOMAIN stack, NEW c \in Elements(stack[k].batch)
        PROVE  k \in DOMAIN stack' /\ c \in Elements(stack'[k].batch)
    <2>1. stack[k].batch # <<>>
      BY <1>4 DEF Elements
    <2> QED
      BY <1>2, <2>1
  <1>5. Running' = Running
    <2>1. \A k \in DOMAIN stack' : stack'[k].at = "run" => stack'[k].batch # <<>>
      BY DEF ProperStack
    <2>2. \A k \in DOMAIN stack : stack[k].at = "run" => stack[k].batch # <<>>
      BY DEF IInv, StackOK
    <2>3. {k \in DOMAIN stack' : stack'[k].at = "run"}
             = {k \in DOMAIN stack : stack[k].at = "run"}
      BY <1>1, <1>2, <2>1, <2>2
    <2>4. \A k \in {k \in DOMAIN stack : stack[k].at = "run"} :
             Head(stack'[k].batch) = Head(stack[k].batch)
      BY <1>2, <2>2
    <2> QED
      BY <2>3, <2>4 DEF Running
  <1> QED
    BY <1>3, <1>4, <1>5

LEMMA LoopsStep ==
  ASSUME IInv, UNCHANGED callVars, Con!TypeOK',
         ProperStack(stack'), SameBatches(stack'), dispatching \/ stack' = <<>>,
         diverted' \in BOOLEAN
  PROVE  IInv' /\ Running' = Running
  <1> USE DEF IInv
  <1>1. TypeOK'
    BY DEF TypeOK, ProperStack, callVars
  <1>2. StackOK'
    BY DEF StackOK, ProperStack, callVars
  <1>3. StatusesTell'
    BY BatchesStay DEF StatusesTell, callVars
  <1>4. EveryCallIsSomewhere'
    BY BatchesStay DEF EveryCallIsSomewhere, callVars
  <1>5. NoneIsTwice'
    BY BatchesStay DEF NoneIsTwice, callVars
  <1> QED
    BY <1>1, <1>2, <1>3, <1>4, <1>5, BatchesStay

(* The innermost loop goes from place to place.                             *)
LEMMA MoveIsProper ==
  ASSUME IInv, stack # <<>>, Top.at \notin {"batch", "run"},
         NEW place \in {"dispatch", "input", "handle", "check", "asleep"}
  PROVE  ProperStack(Moved(place)) /\ SameBatches(Moved(place)) /\ dispatching
  <1> DEFINE f == [Top EXCEPT !.at = place]
             s == Moved(place)
  <1>0. TypeOK /\ StackOK
    BY DEF IInv
  <1>1. /\ Top \in Frames /\ Top = stack[Len(stack)] /\ Len(stack) \in DOMAIN stack
        /\ stack \in Seq(Frames) /\ Len(stack) \in Nat
        /\ DOMAIN stack = 1 .. Len(stack)
    BY <1>0, StackFacts
  <1>2. /\ f \in Frames /\ f.kind = Top.kind /\ f.batch = Top.batch /\ f.at = place
    BY <1>1 DEF Frames
  <1>3. s = [stack EXCEPT ![Len(stack)] = f]
    BY <1>1 DEF Moved
  <1> HIDE DEF f, s
  <1>4. /\ s \in Seq(Frames) /\ Len(s) = Len(stack) /\ DOMAIN s = DOMAIN stack
        /\ s[Len(stack)] = f
        /\ \A k \in DOMAIN stack \ {Len(stack)} : s[k] = stack[k]
    BY <1>0, <1>2, <1>3, TopBecomes
  <1>5. Top.batch = <<>>
    BY <1>0, <1>1 DEF StackOK
  <1>6. \A k \in DOMAIN stack :
           /\ stack[k].kind = "panels" <=> k = 1
           /\ k < Len(stack) => stack[k].at \in {"run", "handle"}
           /\ stack[k].at \in {"batch", "run"} <=> stack[k].batch # <<>>
    BY <1>0 DEF TypeOK, StackOK
  <1>7. ProperStack(s)
    <2>1. \A k \in DOMAIN s :
             /\ s[k].kind = "panels" <=> k = 1
             /\ k < Len(s) => s[k].at \in {"run", "handle"}
             /\ s[k].at \in {"batch", "run"} <=> s[k].batch # <<>>
      BY <1>1, <1>2, <1>4, <1>5, <1>6
    <2>2. Len(s) <= MaxDepth
      BY <1>0, <1>4 DEF StackOK
    <2> QED
      BY <1>4, <2>1, <2>2 DEF ProperStack
  <1>8. SameBatches(s)
    BY <1>1, <1>2, <1>4 DEF SameBatches
  <1>9. dispatching
    BY <1>0 DEF StackOK, TypeOK
  <1> QED
    BY <1>7, <1>8, <1>9 DEF s

(* It ends.                                                                 *)
LEMMA PopIsProper ==
  ASSUME IInv, stack # <<>>, Top.at \notin {"batch", "run"}
  PROVE  ProperStack(Popped) /\ SameBatches(Popped) /\ dispatching
  <1>0. TypeOK /\ StackOK
    BY DEF IInv
  <1> DEFINE s == Popped
  <1>1. /\ s \in Seq(Frames) /\ Len(s) = Len(stack) - 1
        /\ DOMAIN s = 1 .. Len(stack) - 1
        /\ \A k \in 1 .. Len(stack) - 1 : s[k] = stack[k]
    BY <1>0, PoppedIs
  <1> HIDE DEF s
  <1>2. /\ Top = stack[Len(stack)] /\ DOMAIN stack = 1 .. Len(stack)
        /\ Len(stack) \in Nat /\ Len(stack) \in DOMAIN stack
    BY <1>0, StackFacts
  <1>3. Top.batch = <<>>
    BY <1>0, <1>2 DEF StackOK
  <1>4. \A k \in DOMAIN stack :
           /\ stack[k].kind = "panels" <=> k = 1
           /\ k < Len(stack) => stack[k].at \in {"run", "handle"}
           /\ stack[k].at \in {"batch", "run"} <=> stack[k].batch # <<>>
    BY <1>0 DEF TypeOK, StackOK
  <1>5. \A k \in DOMAIN s : k \in DOMAIN stack /\ k < Len(stack) /\ s[k] = stack[k]
    BY <1>1, <1>2
  <1>6. Len(s) <= MaxDepth
    BY <1>0, <1>1, <1>2, DepthAssumption DEF StackOK
  <1>7. ProperStack(s)
    <2>1. \A k \in DOMAIN s :
             /\ s[k].kind = "panels" <=> k = 1
             /\ s[k].at \in {"run", "handle"}
             /\ s[k].at \in {"batch", "run"} <=> s[k].batch # <<>>
      BY <1>4, <1>5
    <2> QED
      BY <1>1, <1>6, <2>1 DEF ProperStack
  <1>8. SameBatches(s)
    <2>1. \A k \in DOMAIN stack \ DOMAIN s : k = Len(stack)
      BY <1>1, <1>2
    <2> QED
      BY <1>2, <1>3, <1>5, <2>1 DEF SameBatches
  <1>9. dispatching
    BY <1>0 DEF StackOK, TypeOK
  <1> QED
    BY <1>7, <1>8, <1>9 DEF s

(* Another loop is opened.                                                  *)
LEMMA OpenIsProper ==
  ASSUME IInv, NEW kind \in Loops, NEW thread \in Callers \cup {Nobody},
         Open(kind, thread)
  PROVE  ProperStack(stack') /\ SameBatches(stack') /\ dispatching
  <1>0. TypeOK /\ StackOK
    BY DEF IInv
  <1> DEFINE f == Frame(kind, thread)
  <1>1. /\ stack' = Append(stack, f) /\ Len(stack) < MaxDepth
        /\ stack # <<>> /\ Top.at \in {"run", "handle"}
    BY DEF Open, InHandler, TopIs, At
  <1>2. /\ Top = stack[Len(stack)] /\ DOMAIN stack = 1 .. Len(stack)
        /\ Len(stack) \in Nat /\ Len(stack) \in DOMAIN stack /\ stack \in Seq(Frames)
    BY <1>0, <1>1, StackFacts
  <1>3. /\ f \in Frames /\ f.kind # "panels" /\ f.batch = <<>>
        /\ f.at \in {"dispatch", "input"}
    <2>1. <<>> \in Seq(Callers)
      BY EmptySeq
    <2> QED
      BY <2>1, LoopsAssumption DEF Frame, Frames
  <1> HIDE DEF f
  <1>4. /\ stack' \in Seq(Frames) /\ Len(stack') = Len(stack) + 1
        /\ \A k \in 1 .. Len(stack) : stack'[k] = stack[k]
        /\ stack'[Len(stack) + 1] = f
    BY <1>1, <1>2, <1>3, AppendProperties
  <1>5. DOMAIN stack' = 1 .. Len(stack) + 1
    BY <1>4, SeqFacts
  <1>6. \A k \in DOMAIN stack :
           /\ stack[k].kind = "panels" <=> k = 1
           /\ stack[k].at \in {"run", "handle"}
           /\ stack[k].at \in {"batch", "run"} <=> stack[k].batch # <<>>
    BY <1>0, <1>1, <1>2 DEF TypeOK, StackOK
  <1>7. \A k \in DOMAIN stack' : k \in DOMAIN stack \/ k = Len(stack) + 1
    BY <1>2, <1>5
  <1>8. ProperStack(stack')
    <2>1. Len(stack) + 1 # 1
      BY <1>2
    <2>2. Len(stack') <= MaxDepth
      BY <1>1, <1>2, <1>4, DepthAssumption
    <2>3. \A k \in DOMAIN stack' :
             /\ stack'[k].kind = "panels" <=> k = 1
             /\ k < Len(stack') => stack'[k].at \in {"run", "handle"}
             /\ stack'[k].at \in {"batch", "run"} <=> stack'[k].batch # <<>>
      BY <1>2, <1>3, <1>4, <1>6, <1>7, <2>1
    <2> QED
      BY <1>4, <2>2, <2>3 DEF ProperStack
  <1>9. SameBatches(stack')
    BY <1>2, <1>3, <1>4, <1>5, <1>7 DEF SameBatches
  <1>10. dispatching
    BY <1>0, <1>1 DEF StackOK, TypeOK
  <1> QED
    BY <1>8, <1>9, <1>10

(* Whoever sleeps is woken up.                                              *)
LEMMA AwokenIsProper ==
  ASSUME IInv
  PROVE  ProperStack(Awoken(stack)) /\ SameBatches(Awoken(stack))
  <1>0. TypeOK /\ StackOK
    BY DEF IInv
  <1> DEFINE s == Awoken(stack)
  <1>1. /\ s \in Seq(Frames) /\ Len(s) = Len(stack) /\ DOMAIN s = DOMAIN stack
        /\ \A k \in DOMAIN stack :
              /\ s[k].kind = stack[k].kind
              /\ s[k].batch = stack[k].batch
              /\ \/ s[k].at = stack[k].at
                 \/ stack[k].at = "asleep" /\ s[k].at = "dispatch"
    BY <1>0, AwokenIs
  <1> HIDE DEF s
  <1>2. \A k \in DOMAIN stack :
           /\ stack[k].kind = "panels" <=> k = 1
           /\ k < Len(stack) => stack[k].at \in {"run", "handle"}
           /\ stack[k].at \in {"batch", "run"} <=> stack[k].batch # <<>>
    BY <1>0 DEF TypeOK, StackOK
  <1>3. \A k \in DOMAIN s :
           /\ s[k].kind = "panels" <=> k = 1
           /\ k < Len(s) => s[k].at \in {"run", "handle"}
           /\ s[k].at \in {"batch", "run"} <=> s[k].batch # <<>>
           /\ s[k].batch = stack[k].batch
           /\ s[k].at = "run" <=> stack[k].at = "run"
    BY <1>1, <1>2
  <1>4. Len(s) <= MaxDepth
    BY <1>0, <1>1 DEF StackOK
  <1>5. ProperStack(s)
    BY <1>1, <1>3, <1>4 DEF ProperStack
  <1>6. SameBatches(s)
    BY <1>1, <1>3 DEF SameBatches
  <1> QED
    BY <1>5, <1>6 DEF s

-----------------------------------------------------------------------------
(* Calls, and what they are to RemoteCalls. *)

AbstractCall == [c \in Callers |-> IF call[c] \in {"queued", "taken"}
                                   THEN "pending" ELSE call[c]]

LEMMA FinalizedIs ==
  ASSUME NEW c \in Callers, NEW outcome \in {"done", "failed"}
  PROVE  /\ Finalized(c, outcome) \in {"idle", "done", "failed"}
         /\ Remote!Outcome(c, outcome) = Finalized(c, outcome)
  BY DEF Finalized, Remote!Outcome

(* A call is queued, and the main thread is kicked.                         *)
LEMMA DoStep ==
  ASSUME IInv, NEW c \in Callers, Do(c)
  PROVE  IInv' /\ Remote!Call(c)
  <1> USE DEF IInv
  <1>1. /\ call[c] = "idle" /\ dispatching
        /\ call' = [call EXCEPT ![c] = "queued"]
        /\ delegates' = Append(delegates, c)
        /\ stack' = Awoken(stack)
        /\ UNCHANGED <<dispatching, discarding, diverted>>
    BY DEF Do
  <1>2. Con!TypeOK'
    <2>1. "noop" \in Con!EventTypes
      BY DEF Con!EventTypes
    <2>2. CASE delegates = <<>>
      BY <2>1, <2>2, KickTypes DEF Do, Kick, TypeOK
    <2>3. CASE delegates # <<>>
      BY <2>3 DEF Do, Kick, TypeOK, Con!TypeOK, conVars
    <2> QED
      BY <2>2, <2>3
  <1>3. ProperStack(stack') /\ SameBatches(stack')
    BY <1>1, AwokenIsProper
  <1>4. /\ delegates \in Seq(Callers) /\ Len(delegates) \in Nat
        /\ DOMAIN delegates = 1 .. Len(delegates)
        /\ call \in [Callers -> Statuses]
    BY SeqFacts DEF TypeOK
  <1>5. /\ delegates' \in Seq(Callers) /\ Len(delegates') = Len(delegates) + 1
        /\ \A i \in 1 .. Len(delegates) : delegates'[i] = delegates[i]
        /\ delegates'[Len(delegates) + 1] = c
    BY <1>1, <1>4, AppendProperties
  <1>6. DOMAIN delegates' = 1 .. Len(delegates) + 1
    BY <1>5, SeqFacts
  <1>7. /\ call' \in [Callers -> Statuses] /\ call'[c] = "queued"
        /\ \A d \in Callers \ {c} : call'[d] = call[d]
    BY <1>1, <1>4 DEF Statuses
  <1>8. \A i \in DOMAIN delegates' :
           \/ i \in DOMAIN delegates /\ delegates'[i] = delegates[i]
           \/ i = Len(delegates) + 1 /\ delegates'[i] = c
    BY <1>4, <1>5, <1>6
  <1>9. /\ \A i \in DOMAIN delegates : delegates[i] # c /\ delegates[i] \in Callers
        /\ \A i \in DOMAIN discarding : discarding[i] # c /\ discarding[i] \in Callers
        /\ \A k \in DOMAIN stack : \A i \in DOMAIN stack[k].batch :
              stack[k].batch[i] # c /\ stack[k].batch[i] \in Callers
    <2>1. \A k \in DOMAIN stack : stack[k].batch \in Seq(Callers)
      BY StackFacts
    <2>2. \A q \in Seq(Callers) : \A i \in DOMAIN q : q[i] \in Callers
      BY SeqFacts
    <2>3. discarding \in Seq(Callers)
      BY DEF TypeOK
    <2> QED
      BY <1>1, <1>4, <2>1, <2>2, <2>3 DEF StatusesTell
  <1>10. TypeOK'
    BY <1>1, <1>2, <1>3, <1>5, <1>7 DEF TypeOK, ProperStack
  <1>11. StackOK'
    BY <1>1, <1>3 DEF StackOK, ProperStack
  <1>12. StatusesTell'
    <2>1. \A i \in DOMAIN delegates' : call'[delegates'[i]] = "queued"
      BY <1>7, <1>8, <1>9 DEF StatusesTell
    <2>2. \A i \in DOMAIN discarding' : call'[discarding'[i]] = "queued"
      BY <1>1, <1>7, <1>9 DEF StatusesTell
    <2>3. \A k \in DOMAIN stack' : \A i \in DOMAIN stack'[k].batch :
             call'[stack'[k].batch[i]] =
                IF i = 1 /\ stack'[k].at = "run" THEN "running" ELSE "taken"
      BY <1>3, <1>7, <1>9, BatchesStay DEF StatusesTell
    <2> QED
      BY <2>1, <2>2, <2>3 DEF StatusesTell
  <1>13. EveryCallIsSomewhere'
    <2>1. ASSUME NEW d \in Callers, call'[d] = "queued"
          PROVE  d \in Elements(delegates') \cup Elements(discarding')
      <3>1. CASE d = c
        BY <1>4, <1>5, <1>6, <3>1 DEF Elements
      <3>2. CASE d # c
        BY <1>1, <1>4, <1>5, <1>6, <1>7, <2>1, <3>2
           DEF EveryCallIsSomewhere, Elements
      <3> QED
        BY <3>1, <3>2
    <2>2. ASSUME NEW d \in Callers, call'[d] \in {"taken", "running"}
          PROVE  \E k \in DOMAIN stack' : d \in Elements(stack'[k].batch)
      BY <1>3, <1>7, <2>2, BatchesStay DEF EveryCallIsSomewhere
    <2> QED
      BY <2>1, <2>2 DEF EveryCallIsSomewhere
  <1>14. NoneIsTwice'
    <2>1. \A i, j \in DOMAIN delegates' : delegates'[i] = delegates'[j] => i = j
      BY <1>8, <1>9 DEF NoneIsTwice
    <2> QED
      BY <1>1, <1>3, <2>1, BatchesStay DEF NoneIsTwice
  <1>15. Remote!Call(c)
    <2>1. Running' = Running
      BY <1>3, BatchesStay
    <2>2. AbstractCall' = [AbstractCall EXCEPT ![c] = "pending"]
      BY <1>7 DEF AbstractCall
    <2>3. AbstractCall[c] = "idle"
      BY <1>1 DEF AbstractCall
    <2> QED
      BY <1>1, <2>1, <2>2, <2>3 DEF Remote!Call, AbstractCall
  <1> QED
    BY <1>10, <1>11, <1>12, <1>13, <1>14, <1>15

(* Elements of the queues and batches are callers.                          *)
LEMMA DelegatesAreCallers ==
  ASSUME TypeOK
  PROVE  /\ \A i \in DOMAIN delegates : delegates[i] \in Callers
         /\ \A i \in DOMAIN discarding : discarding[i] \in Callers
         /\ \A k \in DOMAIN stack : \A i \in DOMAIN stack[k].batch :
               stack[k].batch[i] \in Callers
  <1>1. \A q \in Seq(Callers) : \A i \in DOMAIN q : q[i] \in Callers
    BY SeqFacts
  <1> QED
    BY <1>1, StackFacts DEF TypeOK

(* A call that is not under way is refused, or returns.                     *)
LEMMA OutsideStep ==
  ASSUME IInv, NEW c \in Callers, DoRefused(c) \/ Return(c)
  PROVE  IInv' /\ (Remote!Call(c) \/ Remote!Return(c))
  <1> USE DEF IInv
  <1> DEFINE status == IF DoRefused(c) THEN Finalized(c, "failed") ELSE "idle"
  <1>1. /\ call[c] \in {"idle", "done", "failed"}
        /\ call' = [call EXCEPT ![c] = status]
        /\ UNCHANGED <<delegates, dispatching, discarding, stack, conVars,
                       diverted>>
    BY DEF DoRefused, Return
  <1>2. status \in {"idle", "done", "failed"}
    BY FinalizedIs
  <1>3. ASSUME DoRefused(c)
        PROVE  /\ call[c] = "idle" /\ ~dispatching
               /\ status = Remote!Outcome(c, "failed")
    BY <1>3, FinalizedIs DEF DoRefused
  <1>4. ASSUME ~DoRefused(c)
        PROVE  call[c] \in {"done", "failed"} /\ status = "idle"
    BY <1>4 DEF Return
  <1> HIDE DEF status
  <1>5. /\ call' \in [Callers -> Statuses] /\ call'[c] = status
        /\ \A d \in Callers \ {c} : call'[d] = call[d]
    BY <1>1, <1>2 DEF TypeOK, Statuses
  <1>6. /\ \A i \in DOMAIN delegates : delegates[i] # c /\ delegates[i] \in Callers
        /\ \A i \in DOMAIN discarding : discarding[i] # c /\ discarding[i] \in Callers
        /\ \A k \in DOMAIN stack : \A i \in DOMAIN stack[k].batch :
              stack[k].batch[i] # c /\ stack[k].batch[i] \in Callers
    BY <1>1, DelegatesAreCallers DEF StatusesTell
  <1>7. TypeOK'
    BY <1>1, <1>5 DEF TypeOK, Con!TypeOK, conVars
  <1>8. StackOK' /\ NoneIsTwice'
    BY <1>1 DEF StackOK, NoneIsTwice
  <1>9. StatusesTell'
    BY <1>1, <1>5, <1>6 DEF StatusesTell
  <1>10. EveryCallIsSomewhere'
    BY <1>1, <1>2, <1>5 DEF EveryCallIsSomewhere
  <1>11. /\ UNCHANGED <<Running, dispatching>>
         /\ AbstractCall[c] = call[c]
         /\ AbstractCall' = [AbstractCall EXCEPT ![c] = status]
    BY <1>1, <1>2, <1>5 DEF Running, AbstractCall
  <1>12. CASE DoRefused(c)
    BY <1>3, <1>7, <1>8, <1>9, <1>10, <1>11, <1>12 DEF Remote!Call, AbstractCall
  <1>13. CASE ~DoRefused(c)
    BY <1>4, <1>7, <1>8, <1>9, <1>10, <1>11, <1>13 DEF Remote!Return, AbstractCall
  <1> QED
    BY <1>12, <1>13

(* The queue becomes the batch of the innermost loop: all of it, in order.  *)
LEMMA TakeDelegatesStep ==
  ASSUME IInv, TakeDelegates
  PROVE  IInv' /\ UNCHANGED <<AbstractCall, Running, dispatching>>
  <1> USE DEF IInv
  <1> DEFINE n == Len(stack)
             f == [Top EXCEPT !.at = "batch", !.batch = delegates]
  <1>1. /\ stack # <<>> /\ Top.at = "dispatch" /\ delegates # <<>>
        /\ delegates' = <<>>
        /\ call' = [c \in Callers |-> IF \E k \in DOMAIN delegates : delegates[k] = c
                                      THEN "taken" ELSE call[c]]
        /\ UNCHANGED <<dispatching, discarding, conVars, diverted>>
    BY DEF TakeDelegates, At, DelegatesAfterSwap
  <1>2. /\ Top \in Frames /\ Top = stack[n] /\ n \in DOMAIN stack
        /\ stack \in Seq(Frames) /\ n \in Nat /\ DOMAIN stack = 1 .. n
    BY <1>1, StackFacts
  <1>3. stack' = [stack EXCEPT ![n] = f]
    BY <1>1, <1>2 DEF TakeDelegates
  <1>4. /\ f \in Frames /\ f.kind = Top.kind /\ f.at = "batch" /\ f.batch = delegates
    BY <1>2 DEF Frames, TypeOK
  <1> HIDE DEF f, n
  <1>5. /\ stack' \in Seq(Frames) /\ Len(stack') = n /\ DOMAIN stack' = DOMAIN stack
        /\ stack'[n] = f
        /\ \A k \in DOMAIN stack \ {n} : stack'[k] = stack[k]
    BY <1>1, <1>3, <1>4, TopBecomes DEF n
  <1>6. /\ \A k \in DOMAIN stack :
              /\ stack[k].kind = "panels" <=> k = 1
              /\ k < n => stack[k].at \in {"run", "handle"}
              /\ stack[k].at \in {"batch", "run"} <=> stack[k].batch # <<>>
        /\ stack[n].batch = <<>> /\ n <= MaxDepth
    BY <1>1, <1>2 DEF TypeOK, StackOK, n
  <1>7. \A i \in DOMAIN delegates : call[delegates[i]] = "queued"
    BY DEF StatusesTell
  <1>8. call' \in [Callers -> Statuses]
    BY <1>1 DEF TypeOK, Statuses
  <1>9. \A k \in DOMAIN stack : k # n =>
           \A i \in DOMAIN stack[k].batch :
              /\ stack[k].batch[i] \in Callers
              /\ call'[stack[k].batch[i]] = call[stack[k].batch[i]]
    BY <1>1, <1>7, DelegatesAreCallers DEF StatusesTell
  <1>10. TypeOK'
    <2>1. Con!TypeOK' /\ delegates' \in Seq(Callers)
      BY <1>1, EmptySeq DEF TypeOK, Con!TypeOK, conVars
    <2>2. \A k \in DOMAIN stack' :
             /\ stack'[k].kind = "panels" <=> k = 1
             /\ k < Len(stack') => stack'[k].at \in {"run", "handle"}
      BY <1>2, <1>4, <1>5, <1>6
    <2> QED
      BY <1>1, <1>5, <1>8, <2>1, <2>2 DEF TypeOK
  <1>11. StackOK'
    <2>1. \A k \in DOMAIN stack' :
             stack'[k].at \in {"batch", "run"} <=> stack'[k].batch # <<>>
      BY <1>1, <1>2, <1>4, <1>5, <1>6
    <2>2. dispatching
      BY <1>1 DEF StackOK, TypeOK
    <2> QED
      BY <1>1, <1>5, <1>6, <2>1, <2>2 DEF StackOK
  <1>12. StatusesTell'
    <2>1. \A i \in DOMAIN delegates : call'[delegates[i]] = "taken"
      BY <1>1, DelegatesAreCallers
    <2>2. discarding = <<>>
      BY <1>1 DEF StackOK, TypeOK
    <2>3. \A k \in DOMAIN stack' : \A i \in DOMAIN stack'[k].batch :
             call'[stack'[k].batch[i]] =
                IF i = 1 /\ stack'[k].at = "run" THEN "running" ELSE "taken"
      BY <1>4, <1>5, <1>9, <2>1 DEF StatusesTell
    <2> QED
      BY <1>1, <2>2, <2>3 DEF StatusesTell
  <1>13. EveryCallIsSomewhere'
    <2>1. ASSUME NEW c \in Callers, call'[c] = "queued"
          PROVE  c \in Elements(delegates') \cup Elements(discarding')
      <3>1. call[c] = "queued" /\ c \notin Elements(delegates)
        BY <1>1, <2>1 DEF Elements
      <3> QED
        BY <1>1, <3>1 DEF EveryCallIsSomewhere
    <2>2. ASSUME NEW c \in Callers, call'[c] \in {"taken", "running"}
          PROVE  \E k \in DOMAIN stack' : c \in Elements(stack'[k].batch)
      <3>1. CASE \E k \in DOMAIN delegates : delegates[k] = c
        <4>1. c \in Elements(stack'[n].batch)
          BY <1>4, <1>5, <3>1 DEF Elements
        <4> QED
          BY <1>2, <1>5, <4>1
      <3>2. CASE ~ \E k \in DOMAIN delegates : delegates[k] = c
        <4>1. call[c] \in {"taken", "running"}
          BY <1>1, <2>2, <3>2
        <4>2. PICK k \in DOMAIN stack : c \in Elements(stack[k].batch)
          BY <4>1 DEF EveryCallIsSomewhere
        <4>3. k # n
          BY <1>6, <4>2 DEF Elements
        <4> QED
          BY <1>5, <4>2, <4>3
      <3> QED
        BY <3>1, <3>2
    <2> QED
      BY <2>1, <2>2 DEF EveryCallIsSomewhere
  <1>14. NoneIsTwice'
    <2>1. ASSUME NEW k \in DOMAIN stack', NEW l \in DOMAIN stack',
                 NEW i \in DOMAIN stack'[k].batch, NEW j \in DOMAIN stack'[l].batch,
                 stack'[k].batch[i] = stack'[l].batch[j]
          PROVE  k = l /\ i = j
      <3>1. CASE k = n /\ l = n
        BY <1>4, <1>5, <2>1, <3>1 DEF NoneIsTwice
      <3>2. CASE k # n /\ l # n
        BY <1>5, <2>1, <3>2 DEF NoneIsTwice
      <3>3. \A m \in DOMAIN stack : m # n => \A x \in DOMAIN stack[m].batch :
               call[stack[m].batch[x]] # "queued"
        BY DEF StatusesTell
      <3>4. CASE k = n /\ l # n
        BY <1>4, <1>5, <1>7, <2>1, <3>3, <3>4
      <3>5. CASE k # n /\ l = n
        BY <1>4, <1>5, <1>7, <2>1, <3>3, <3>5
      <3> QED
        BY <3>1, <3>2, <3>4, <3>5
    <2> QED
      BY <1>1, <2>1 DEF NoneIsTwice
  <1>15. AbstractCall' = AbstractCall
    <2>1. ASSUME NEW c \in Callers
          PROVE  \/ call'[c] = call[c]
                 \/ call[c] = "queued" /\ call'[c] = "taken"
      <3>1. call'[c] = IF \E k \in DOMAIN delegates : delegates[k] = c
                       THEN "taken" ELSE call[c]
        BY <1>1
      <3> QED
        BY <1>7, <3>1
    <2> QED
      BY <2>1 DEF AbstractCall
  <1>16. Running' = Running
    <2>1. {k \in DOMAIN stack' : stack'[k].at = "run"}
             = {k \in DOMAIN stack : stack[k].at = "run"}
      BY <1>1, <1>2, <1>4, <1>5
    <2>2. \A k \in {k \in DOMAIN stack : stack[k].at = "run"} :
             stack'[k] = stack[k]
      BY <1>1, <1>2, <1>5
    <2> QED
      BY <2>1, <2>2 DEF Running
  <1> QED
    BY <1>1, <1>10, <1>11, <1>12, <1>13, <1>14, <1>15, <1>16

(* The function of the first call of the batch begins.                      *)
LEMMA ProcessStep ==
  ASSUME IInv, Process
  PROVE  IInv' /\ \E c \in Callers : Remote!Start(c)
  <1> USE DEF IInv
  <1> DEFINE n == Len(stack)
             f == [Top EXCEPT !.at = "run"]
             c == Head(Top.batch)
  <1>1. /\ stack # <<>> /\ Top.at = "batch"
        /\ call' = [call EXCEPT ![c] = "running"]
        /\ UNCHANGED <<delegates, dispatching, discarding, conVars, diverted>>
    BY DEF Process, At
  <1>2. /\ Top \in Frames /\ Top = stack[n] /\ n \in DOMAIN stack
        /\ stack \in Seq(Frames) /\ n \in Nat /\ DOMAIN stack = 1 .. n
        /\ Top.batch \in Seq(Callers)
    BY <1>1, StackFacts
  <1>3. stack' = [stack EXCEPT ![n] = f]
    BY <1>1, <1>2 DEF Process, Moved
  <1>4. /\ f \in Frames /\ f.kind = Top.kind /\ f.at = "run" /\ f.batch = Top.batch
    BY <1>2 DEF Frames
  <1>5. /\ \A k \in DOMAIN stack :
              /\ stack[k].kind = "panels" <=> k = 1
              /\ k < n => stack[k].at \in {"run", "handle"}
              /\ stack[k].at \in {"batch", "run"} <=> stack[k].batch # <<>>
        /\ n <= MaxDepth
    BY DEF TypeOK, StackOK
  <1>6. /\ Top.batch # <<>> /\ c = Top.batch[1] /\ 1 \in DOMAIN Top.batch
        /\ c \in Callers
    <2>1. Top.batch # <<>>
      BY <1>1, <1>2, <1>5
    <2> QED
      BY <1>2, <2>1, SeqFacts
  <1> HIDE DEF f, n, c
  <1>7. /\ stack' \in Seq(Frames) /\ Len(stack') = n /\ DOMAIN stack' = DOMAIN stack
        /\ stack'[n] = f
        /\ \A k \in DOMAIN stack \ {n} : stack'[k] = stack[k]
    BY <1>1, <1>3, <1>4, TopBecomes DEF n
  <1>8. \A k \in DOMAIN stack : stack'[k].batch = stack[k].batch
    BY <1>2, <1>4, <1>7
  <1>9. call[c] = "taken"
    BY <1>1, <1>2, <1>6 DEF StatusesTell
  <1>10. /\ call' \in [Callers -> Statuses] /\ call'[c] = "running"
         /\ \A d \in Callers \ {c} : call'[d] = call[d]
    BY <1>1, <1>6 DEF TypeOK, Statuses
  <1>11. TypeOK'
    <2>1. Con!TypeOK'
      BY <1>1 DEF TypeOK, Con!TypeOK, conVars
    <2>2. \A k \in DOMAIN stack' :
             /\ stack'[k].kind = "panels" <=> k = 1
             /\ k < Len(stack') => stack'[k].at \in {"run", "handle"}
      BY <1>2, <1>4, <1>5, <1>7
    <2> QED
      BY <1>1, <1>7, <1>10, <2>1, <2>2 DEF TypeOK
  <1>12. dispatching
    BY <1>1 DEF StackOK, TypeOK
  <1>13. StackOK'
    <2>1. \A k \in DOMAIN stack' :
             stack'[k].at \in {"batch", "run"} <=> stack'[k].batch # <<>>
      BY <1>2, <1>4, <1>5, <1>6, <1>7
    <2> QED
      BY <1>1, <1>5, <1>7, <1>12, <2>1 DEF StackOK
  <1>14. StatusesTell'
    <2>1. /\ \A i \in DOMAIN delegates : delegates[i] # c /\ delegates[i] \in Callers
          /\ \A i \in DOMAIN discarding : discarding[i] # c /\ discarding[i] \in Callers
      BY <1>9, DelegatesAreCallers DEF StatusesTell
    <2>2. ASSUME NEW k \in DOMAIN stack, NEW i \in DOMAIN stack[k].batch
          PROVE  call'[stack[k].batch[i]] =
                    IF i = 1 /\ stack'[k].at = "run" THEN "running" ELSE "taken"
      <3>1. stack[k].batch[i] = c <=> k = n /\ i = 1
        BY <1>2, <1>6 DEF NoneIsTwice
      <3>2. stack[k].batch[i] \in Callers
        BY DelegatesAreCallers
      <3>3. CASE k = n
        <4>1. call[stack[k].batch[i]] = "taken"
          BY <1>1, <1>2, <3>3 DEF StatusesTell
        <4> QED
          BY <1>4, <1>7, <1>10, <3>1, <3>2, <3>3, <4>1
      <3>4. CASE k # n
        BY <1>7, <1>10, <3>1, <3>2, <3>4 DEF StatusesTell
      <3> QED
        BY <3>3, <3>4
    <2>3. \A k \in DOMAIN stack' : \A i \in DOMAIN stack'[k].batch :
             call'[stack'[k].batch[i]] =
                IF i = 1 /\ stack'[k].at = "run" THEN "running" ELSE "taken"
      BY <1>7, <1>8, <2>2
    <2> QED
      BY <1>1, <1>10, <2>1, <2>3 DEF StatusesTell
  <1>15. EveryCallIsSomewhere'
    <2>1. \A d \in Callers : /\ call'[d] = "queued" => call[d] = "queued"
                             /\ call'[d] \in {"taken", "running"}
                                   => call[d] \in {"taken", "running"}
      BY <1>9, <1>10
    <2> QED
      BY <1>1, <1>7, <1>8, <2>1 DEF EveryCallIsSomewhere
  <1>16. NoneIsTwice'
    BY <1>1, <1>7, <1>8 DEF NoneIsTwice
  <1>17. PICK d \in Callers : d = c
    BY <1>6
  <1>18. Remote!Start(d)
    <2>1. AbstractCall' = [AbstractCall EXCEPT ![c] = "running"]
      BY <1>6, <1>10 DEF AbstractCall
    <2>2. AbstractCall[c] = "pending"
      BY <1>6, <1>9 DEF AbstractCall
    <2>3. {k \in DOMAIN stack' : stack'[k].at = "run"}
             = {k \in DOMAIN stack : stack[k].at = "run"} \cup {n}
      BY <1>2, <1>4, <1>7
    <2>4. Head(stack'[n].batch) = c
      BY <1>4, <1>7 DEF c
    <2>5. n \notin DOMAIN Running /\ \A k \in DOMAIN Running : k < n
      BY <1>1, <1>2 DEF Running
    <2>6. Running' = [e \in DOMAIN Running \cup {n} |->
                         IF e = n THEN c ELSE Running[e]]
      BY <1>8, <2>3, <2>4 DEF Running
    <2>7. n \in 1 .. MaxDepth
      BY <1>2, <1>5, DepthAssumption
    <2> QED
      BY <1>1, <1>12, <1>17, <2>1, <2>2, <2>5, <2>6, <2>7 DEF Remote!Start, AbstractCall
  <1> QED
    BY <1>6, <1>11, <1>13, <1>14, <1>15, <1>16, <1>18

(* It ends: its delegate is out of the batch, and the caller is told.       *)
LEMMA FinalizeStep ==
  ASSUME IInv, NEW outcome \in {"done", "failed"}, Finalize(outcome)
  PROVE  IInv' /\ Remote!Finish(outcome)
  <1> USE DEF IInv
  <1> DEFINE n == Len(stack)
             c == Head(Top.batch)
             rest == Tail(Top.batch)
             f == [Top EXCEPT !.at = IF Len(Top.batch) = 1 THEN "dispatch"
                                     ELSE "batch",
                              !.batch = rest]
             told == Finalized(c, outcome)
  <1>1. /\ stack # <<>> /\ Top.at = "run"
        /\ call' = [call EXCEPT ![c] = told]
        /\ UNCHANGED <<delegates, dispatching, discarding, conVars, diverted>>
    BY DEF Finalize, At
  <1>2. /\ Top \in Frames /\ Top = stack[n] /\ n \in DOMAIN stack
        /\ stack \in Seq(Frames) /\ n \in Nat /\ DOMAIN stack = 1 .. n
        /\ Top.batch \in Seq(Callers)
    BY <1>1, StackFacts
  <1>3. stack' = [stack EXCEPT ![n] = f]
    BY <1>1, <1>2 DEF Finalize
  <1>5. /\ \A k \in DOMAIN stack :
              /\ stack[k].kind = "panels" <=> k = 1
              /\ k < n => stack[k].at \in {"run", "handle"}
              /\ stack[k].at \in {"batch", "run"} <=> stack[k].batch # <<>>
        /\ n <= MaxDepth
    BY DEF TypeOK, StackOK
  <1>6. Top.batch # <<>>
    BY <1>1, <1>2, <1>5
  <1>7. /\ rest \in Seq(Callers) /\ c = Top.batch[1] /\ 1 \in DOMAIN Top.batch
        /\ \A i \in DOMAIN rest : i + 1 \in DOMAIN Top.batch /\ rest[i] = Top.batch[i + 1]
        /\ \A i \in DOMAIN Top.batch \ {1} : i - 1 \in DOMAIN rest
                                             /\ Top.batch[i] = rest[i - 1]
        /\ rest = <<>> <=> Len(Top.batch) = 1
    BY <1>2, <1>6, TailIs
  <1>8. /\ DOMAIN Top.batch \subseteq Nat \ {0} /\ DOMAIN rest \subseteq Nat \ {0}
        /\ c \in Callers
    <2>1. DOMAIN Top.batch = 1 .. Len(Top.batch) /\ DOMAIN rest = 1 .. Len(rest)
          /\ Len(Top.batch) \in Nat /\ Len(rest) \in Nat
          /\ \A i \in DOMAIN Top.batch : Top.batch[i] \in Callers
      BY <1>2, <1>7, SeqFacts
    <2> QED
      BY <1>7, <2>1
  <1>4. /\ f \in Frames /\ f.kind = Top.kind /\ f.batch = rest
        /\ f.at = IF rest = <<>> THEN "dispatch" ELSE "batch"
    BY <1>2, <1>7 DEF Frames
  <1>9. told \in {"idle", "done", "failed"} /\ told = Remote!Outcome(c, outcome)
    BY <1>8, FinalizedIs
  <1> HIDE DEF f, n, c, rest, told
  <1>10. /\ stack' \in Seq(Frames) /\ Len(stack') = n /\ DOMAIN stack' = DOMAIN stack
         /\ stack'[n] = f
         /\ \A k \in DOMAIN stack \ {n} : stack'[k] = stack[k]
    BY <1>1, <1>3, <1>4, TopBecomes DEF n
  <1>11. /\ call' \in [Callers -> Statuses] /\ call'[c] = told /\ call[c] = "running"
         /\ \A d \in Callers \ {c} : call'[d] = call[d]
    BY <1>1, <1>2, <1>7, <1>8, <1>9 DEF TypeOK, Statuses, StatusesTell
  <1>12. TypeOK'
    <2>1. Con!TypeOK'
      BY <1>1 DEF TypeOK, Con!TypeOK, conVars
    <2>2. \A k \in DOMAIN stack' :
             /\ stack'[k].kind = "panels" <=> k = 1
             /\ k < Len(stack') => stack'[k].at \in {"run", "handle"}
      BY <1>2, <1>4, <1>5, <1>10
    <2> QED
      BY <1>1, <1>10, <1>11, <2>1, <2>2 DEF TypeOK
  <1>13. dispatching
    BY <1>1 DEF StackOK, TypeOK
  <1>14. StackOK'
    <2>1. \A k \in DOMAIN stack' :
             stack'[k].at \in {"batch", "run"} <=> stack'[k].batch # <<>>
      BY <1>4, <1>5, <1>10
    <2> QED
      BY <1>1, <1>5, <1>10, <1>13, <2>1 DEF StackOK
  (* No other place has the delegate of c. *)
  <1>15. /\ \A i \in DOMAIN delegates : delegates[i] # c /\ delegates[i] \in Callers
         /\ \A i \in DOMAIN discarding : discarding[i] # c /\ discarding[i] \in Callers
         /\ \A k \in DOMAIN stack : \A i \in DOMAIN stack[k].batch :
               /\ stack[k].batch[i] \in Callers
               /\ stack[k].batch[i] = c <=> k = n /\ i = 1
    BY <1>2, <1>7, <1>11, DelegatesAreCallers DEF StatusesTell, NoneIsTwice
  <1>16. \A i \in DOMAIN rest :
            /\ i + 1 \in DOMAIN stack[n].batch /\ rest[i] = stack[n].batch[i + 1]
            /\ i + 1 # 1
    BY <1>2, <1>7, <1>8
  <1>17. StatusesTell'
    <2>1. \A k \in DOMAIN stack : k # n => \A i \in DOMAIN stack[k].batch :
             call'[stack[k].batch[i]] =
                IF i = 1 /\ stack[k].at = "run" THEN "running" ELSE "taken"
      BY <1>11, <1>15 DEF StatusesTell
    <2>2. \A i \in DOMAIN rest : call'[rest[i]] = "taken"
      BY <1>2, <1>11, <1>15, <1>16 DEF StatusesTell
    <2>3. \A k \in DOMAIN stack' : \A i \in DOMAIN stack'[k].batch :
             call'[stack'[k].batch[i]] =
                IF i = 1 /\ stack'[k].at = "run" THEN "running" ELSE "taken"
      BY <1>4, <1>10, <2>1, <2>2
    <2> QED
      BY <1>1, <1>11, <1>15, <2>3 DEF StatusesTell
  <1>18. EveryCallIsSomewhere'
    <2>1. ASSUME NEW d \in Callers, call'[d] = "queued"
          PROVE  d \in Elements(delegates') \cup Elements(discarding')
      BY <1>1, <1>9, <1>11, <2>1 DEF EveryCallIsSomewhere
    <2>2. ASSUME NEW d \in Callers, call'[d] \in {"taken", "running"}
          PROVE  \E k \in DOMAIN stack' : d \in Elements(stack'[k].batch)
      <3>1. d # c /\ call[d] \in {"taken", "running"}
        BY <1>9, <1>11, <2>2
      <3>2. PICK k \in DOMAIN stack : d \in Elements(stack[k].batch)
        BY <3>1 DEF EveryCallIsSomewhere
      <3>3. CASE k = n
        <4>1. PICK i \in DOMAIN Top.batch : Top.batch[i] = d
          BY <1>2, <3>2, <3>3 DEF Elements
        <4>2. i \in DOMAIN Top.batch \ {1}
          BY <1>7, <3>1, <4>1
        <4>3. d \in Elements(rest)
          BY <1>7, <4>1, <4>2 DEF Elements
        <4> QED
          BY <1>2, <1>4, <1>10, <4>3
      <3>4. CASE k # n
        BY <1>10, <3>2, <3>4
      <3> QED
        BY <3>3, <3>4
    <2> QED
      BY <2>1, <2>2 DEF EveryCallIsSomewhere
  <1>19. NoneIsTwice'
    <2>1. ASSUME NEW k \in DOMAIN stack', NEW l \in DOMAIN stack',
                 NEW i \in DOMAIN stack'[k].batch, NEW j \in DOMAIN stack'[l].batch,
                 stack'[k].batch[i] = stack'[l].batch[j]
          PROVE  k = l /\ i = j
      <3>1. CASE k = n /\ l = n
        <4>1. i \in DOMAIN rest /\ j \in DOMAIN rest /\ rest[i] = rest[j]
          BY <1>4, <1>10, <2>1, <3>1
        <4>2. i + 1 = j + 1 /\ i \in Nat /\ j \in Nat
          BY <1>2, <1>8, <1>16, <4>1 DEF NoneIsTwice
        <4> QED
          BY <3>1, <4>2
      <3>2. CASE k # n /\ l # n
        BY <1>10, <2>1, <3>2 DEF NoneIsTwice
      <3>3. CASE k = n /\ l # n
        BY <1>2, <1>4, <1>10, <1>16, <2>1, <3>3 DEF NoneIsTwice
      <3>4. CASE k # n /\ l = n
        BY <1>2, <1>4, <1>10, <1>16, <2>1, <3>4 DEF NoneIsTwice
      <3> QED
        BY <3>1, <3>2, <3>3, <3>4
    <2> QED
      BY <1>1, <2>1 DEF NoneIsTwice
  <1>20. Remote!Finish(outcome)
    <2>1. AbstractCall' = [AbstractCall EXCEPT ![c] = told]
      BY <1>8, <1>9, <1>11 DEF AbstractCall
    <2>2. {k \in DOMAIN stack' : stack'[k].at = "run"}
             = {k \in DOMAIN stack : stack[k].at = "run"} \ {n}
      BY <1>4, <1>10
    <2>3. \A k \in {k \in DOMAIN stack : stack[k].at = "run"} \ {n} :
             stack'[k] = stack[k]
      BY <1>10
    <2>4. n \in DOMAIN Running /\ Running[n] = c
          /\ \A k \in DOMAIN Running : k <= n
      BY <1>1, <1>2 DEF Running, c
    <2>5. Running' = [e \in DOMAIN Running \ {n} |-> Running[e]]
      BY <2>2, <2>3 DEF Running
    <2> QED
      BY <1>1, <1>9, <2>1, <2>4, <2>5 DEF Remote!Finish, AbstractCall
  <1> QED
    BY <1>12, <1>14, <1>17, <1>18, <1>19, <1>20

-----------------------------------------------------------------------------
(* The end: the main thread stops to serve calls, and discards what it has. *)

LEMMA StopDispatchingStep ==
  ASSUME IInv, StopDispatching
  PROVE  IInv' /\ Remote!Close
  <1> USE DEF IInv
  <1>1. /\ stack = <<>> /\ dispatching /\ dispatching' = FALSE
        /\ discarding' = delegates /\ delegates' = <<>>
        /\ UNCHANGED <<call, stack, conVars, diverted>>
    BY DEF StopDispatching, DispatcherAfterSwap
  <1>2. discarding = <<>>
    BY <1>1 DEF StackOK, TypeOK
  <1>3. TypeOK'
    BY <1>1, EmptySeq DEF TypeOK, Con!TypeOK, conVars
  <1>4. StackOK'
    BY <1>1 DEF StackOK
  <1>5. StatusesTell' /\ NoneIsTwice'
    BY <1>1 DEF StatusesTell, NoneIsTwice
  <1>6. EveryCallIsSomewhere'
    BY <1>1, <1>2 DEF EveryCallIsSomewhere, Elements
  <1>7. Remote!Close
    <2>1. UNCHANGED <<AbstractCall, Running>>
      BY <1>1 DEF AbstractCall, Running
    <2>2. DOMAIN Running = {}
      BY <1>1 DEF Running
    <2> QED
      BY <1>1, <2>1, <2>2 DEF Remote!Close, AbstractCall
  <1> QED
    BY <1>3, <1>4, <1>5, <1>6, <1>7

LEMMA DiscardStep ==
  ASSUME IInv, Discard
  PROVE  IInv' /\ \E c \in Callers : Remote!Discard(c)
  <1> USE DEF IInv
  <1> DEFINE c == Head(discarding)
             told == Finalized(c, "failed")
  <1>1. /\ discarding # <<>> /\ discarding' = Tail(discarding)
        /\ call' = [call EXCEPT ![c] = told]
        /\ UNCHANGED <<delegates, dispatching, stack, conVars, diverted>>
    BY DEF Discard
  <1>2. discarding \in Seq(Callers)
    BY DEF TypeOK
  <1>3. /\ discarding' \in Seq(Callers) /\ c = discarding[1] /\ 1 \in DOMAIN discarding
        /\ \A i \in DOMAIN discarding' :
              i + 1 \in DOMAIN discarding /\ discarding'[i] = discarding[i + 1]
        /\ \A i \in DOMAIN discarding \ {1} :
              i - 1 \in DOMAIN discarding' /\ discarding[i] = discarding'[i - 1]
    BY <1>1, <1>2, TailIs
  <1>4. DOMAIN discarding \subseteq Nat \ {0} /\ DOMAIN discarding' \subseteq Nat \ {0}
    <2>1. /\ DOMAIN discarding = 1 .. Len(discarding) /\ Len(discarding) \in Nat
          /\ DOMAIN discarding' = 1 .. Len(discarding') /\ Len(discarding') \in Nat
      BY <1>2, <1>3, SeqFacts
    <2> QED
      BY <2>1
  <1>5. c \in Callers /\ call[c] = "queued"
    BY <1>3, DelegatesAreCallers DEF StatusesTell
  <1>6. told \in {"idle", "done", "failed"} /\ told = Remote!Outcome(c, "failed")
    BY <1>5, FinalizedIs
  <1>7. ~dispatching /\ stack = <<>> /\ delegates = <<>>
    BY <1>1 DEF StackOK
  <1> HIDE DEF c, told
  <1>8. /\ call' \in [Callers -> Statuses] /\ call'[c] = told
        /\ \A d \in Callers \ {c} : call'[d] = call[d]
    BY <1>1, <1>5, <1>6 DEF TypeOK, Statuses
  <1>9. TypeOK'
    BY <1>1, <1>3, <1>8 DEF TypeOK, Con!TypeOK, conVars
  <1>10. StackOK'
    BY <1>1, <1>7 DEF StackOK
  <1>11. \A i \in DOMAIN discarding' :
            /\ discarding'[i] \in Callers \ {c}
            /\ discarding'[i] = discarding[i + 1] /\ i + 1 \in DOMAIN discarding
    <2>1. \A i \in DOMAIN discarding' : i + 1 # 1
      BY <1>4
    <2> QED
      BY <1>3, <2>1, DelegatesAreCallers DEF NoneIsTwice
  <1>12. StatusesTell'
    BY <1>1, <1>7, <1>8, <1>11 DEF StatusesTell
  <1>13. EveryCallIsSomewhere'
    <2>1. ASSUME NEW d \in Callers, call'[d] = "queued"
          PROVE  d \in Elements(discarding')
      <3>1. d # c /\ call[d] = "queued"
        BY <1>6, <1>8, <2>1
      <3>2. d \in Elements(discarding)
        BY <1>7, <3>1 DEF EveryCallIsSomewhere, Elements
      <3>3. PICK i \in DOMAIN discarding : discarding[i] = d
        BY <3>2 DEF Elements
      <3>4. i \in DOMAIN discarding \ {1}
        BY <1>3, <3>1, <3>3
      <3> QED
        BY <1>3, <3>3, <3>4 DEF Elements
    <2>2. \A d \in Callers : call'[d] \notin {"taken", "running"}
      BY <1>5, <1>6, <1>7, <1>8 DEF EveryCallIsSomewhere
    <2> QED
      BY <2>1, <2>2 DEF EveryCallIsSomewhere
  <1>14. NoneIsTwice'
    <2>1. \A i, j \in DOMAIN discarding' :
             discarding'[i] = discarding'[j] => i + 1 = j + 1
      BY <1>11 DEF NoneIsTwice
    <2>2. \A i, j \in DOMAIN discarding' : i + 1 = j + 1 => i = j
      BY <1>4
    <2>3. \A i, j \in DOMAIN discarding' : discarding'[i] = discarding'[j] => i = j
      BY <2>1, <2>2
    <2> QED
      BY <1>1, <1>7, <2>3 DEF NoneIsTwice
  <1>15. PICK d \in Callers : d = c
    BY <1>5
  <1>16. Remote!Discard(d)
    <2>1. AbstractCall[c] = "pending"
      BY <1>5 DEF AbstractCall
    <2>2. AbstractCall' = [AbstractCall EXCEPT ![c] = told]
      BY <1>5, <1>6, <1>8 DEF AbstractCall
    <2>3. UNCHANGED <<Running, dispatching>>
      BY <1>1 DEF Running
    <2> QED
      BY <1>6, <1>7, <1>15, <2>1, <2>2, <2>3 DEF Remote!Discard, AbstractCall
  <1> QED
    BY <1>9, <1>10, <1>12, <1>13, <1>14, <1>16

-----------------------------------------------------------------------------
(* The other steps of the main thread and of those who wake it: nothing to  *)
(* RemoteCalls.                                                             *)

LEMMA EndWaitStep ==
  ASSUME IInv, NEW k \in 1 .. MaxDepth, EndWait(k)
  PROVE  IInv' /\ Running' = Running /\ UNCHANGED callVars
  <1>0. TypeOK /\ StackOK
    BY DEF IInv
  <1> DEFINE woken == Awoken(stack)
  <1>1. /\ k \in DOMAIN stack /\ UNCHANGED <<callVars, conVars, diverted>>
        /\ stack' = [woken EXCEPT ![k].ended = TRUE]
    BY DEF EndWait
  <1>2. ProperStack(woken) /\ SameBatches(woken) /\ DOMAIN woken = DOMAIN stack
    BY <1>0, AwokenIsProper, AwokenIs
  <1> HIDE DEF woken
  <1>3. woken \in Seq(Frames) /\ k \in 1 .. Len(woken)
    BY <1>1, <1>2, SeqFacts DEF ProperStack
  <1> DEFINE f == [woken[k] EXCEPT !.ended = TRUE]
  <1>4. woken[k] \in Frames
    BY <1>3, SeqFacts
  <1>5. /\ f \in Frames /\ f.kind = woken[k].kind /\ f.at = woken[k].at
        /\ f.batch = woken[k].batch
    BY <1>4 DEF Frames
  <1>6. stack' = [woken EXCEPT ![k] = f]
    BY <1>1
  <1> HIDE DEF f
  <1>7. /\ stack' \in Seq(Frames) /\ Len(stack') = Len(woken)
        /\ \A j \in 1 .. Len(woken) : stack'[j] = IF j = k THEN f ELSE woken[j]
    BY <1>3, <1>5, <1>6, ExceptSeq
  <1>8. DOMAIN stack' = 1 .. Len(woken) /\ DOMAIN woken = 1 .. Len(woken)
    BY <1>3, <1>7, SeqFacts
  <1>9. \A j \in DOMAIN woken :
           /\ stack'[j].kind = woken[j].kind
           /\ stack'[j].at = woken[j].at
           /\ stack'[j].batch = woken[j].batch
    BY <1>5, <1>7, <1>8
  <1>10. ProperStack(stack')
    BY <1>2, <1>7, <1>8, <1>9 DEF ProperStack
  <1>11. SameBatches(stack')
    BY <1>2, <1>8, <1>9 DEF SameBatches
  <1>12. dispatching
    BY <1>0, <1>1 DEF StackOK
  <1>13. Con!TypeOK'
    BY <1>0, <1>1 DEF TypeOK, Con!TypeOK, conVars
  <1>14. diverted' \in BOOLEAN
    BY <1>0, <1>1 DEF TypeOK
  <1> QED
    BY <1>1, <1>10, <1>11, <1>12, <1>13, <1>14, LoopsStep

LEMMA MainLoopStep ==
  ASSUME IInv,
         \/ Dispatched \/ PollInput \/ ReadInput \/ ReturnUnread \/ Divert
         \/ Handled \/ FlushInput \/ CloseLoop \/ CheckCondition \/ WakeTimeout
         \/ ExitMainLoop
         \/ \E kind \in Loops, thread \in Callers \cup {Nobody} : Open(kind, thread)
  PROVE  IInv' /\ Running' = Running /\ UNCHANGED callVars
  <1> USE DEF At, TopIs, InputLoops
  <1>0. TypeOK /\ Con!TypeOK
    BY DEF IInv, TypeOK
  <1>6. diverted' \in BOOLEAN
    BY <1>0 DEF TypeOK, Dispatched, PollInput, ReadInput, ReturnUnread, Divert,
       UpdatePanels, ScreenSaver, SkipInput, CallBack, FlushAway, ReadAway,
       ThrowsAway, Handled, FlushInput, CloseLoop, CheckCondition, WakeTimeout,
       ExitMainLoop, Open
  <1>1. CASE Dispatched \/ Handled \/ CloseLoop \/ CheckCondition \/ WakeTimeout
    <2>1. /\ UNCHANGED <<callVars, conVars>>
          /\ stack # <<>> /\ Top.at \notin {"batch", "run"}
          /\ \/ stack' = Popped
             \/ \E place \in {"dispatch", "input", "handle", "check", "asleep"} :
                   stack' = Moved(place)
      BY <1>1 DEF Dispatched, Handled, CloseLoop, CheckCondition, WakeTimeout
    <2>2. ProperStack(stack') /\ SameBatches(stack') /\ dispatching
      BY <2>1, PopIsProper, MoveIsProper
    <2>3. Con!TypeOK'
      BY <1>0, <2>1 DEF Con!TypeOK, conVars
    <2> QED
      BY <1>6, <2>1, <2>2, <2>3, LoopsStep
  <1>2. CASE ReadInput \/ ReturnUnread
    <2>1. /\ UNCHANGED callVars /\ stack # <<>> /\ Top.at = "input"
          /\ stack' = Moved("handle")
      BY <1>2 DEF ReadInput, ReturnUnread, Polling
    <2>2. ProperStack(stack') /\ SameBatches(stack') /\ dispatching
      BY <2>1, MoveIsProper
    <2>3. Con!TypeOK'
      <3>1. CASE ReadInput
        BY <1>0, <3>1, ReadTypes DEF ReadInput
      <3>2. CASE ReturnUnread
        <4>1. /\ reader[Main].at # "wait" /\ Con!MoveReader(Main, "away", "none")
              /\ UNCHANGED <<pending, priorities, sleeping, forked, opened, screen>>
          BY <3>2 DEF ReturnUnread
        <4>2. reader' \in [{Main} -> ReaderRecord]
          BY <1>0, <4>1, MoveReaderTypes
        <4>3. sleeping' \subseteq {r \in {Main} : reader'[r].at = "wait"}
          BY <1>0, <4>1 DEF Con!TypeOK
        <4> QED
          BY <1>0, <4>1, <4>2, <4>3, ConsoleQueueTypes DEF Con!TypeOK
      <3> QED
        BY <1>2, <3>1, <3>2
    <2> QED
      BY <1>6, <2>1, <2>2, <2>3, LoopsStep
  <1>3. CASE PollInput \/ Divert \/ FlushInput
    <2>1. UNCHANGED <<callVars, stack>> /\ stack # <<>>
      BY <1>3 DEF PollInput, Divert, UpdatePanels, ScreenSaver, SkipInput,
         CallBack, FlushInput, Polling, InHandler
    <2>2. ProperStack(stack') /\ SameBatches(stack')
      BY <2>1, StackIsProper DEF ProperStack, SameBatches
    <2>3. Con!TypeOK'
      <3>1. CASE PollInput
        BY <1>0, <3>1, ReadTypes DEF PollInput
      <3>2. CASE SkipInput
        BY <1>0, <3>2, ReadTypes DEF SkipInput
      <3>3. CASE UpdatePanels \/ ScreenSaver \/ CallBack \/ FlushInput
        <4>1. Con!Flush(Main) \/ ReadAway
          BY <3>3 DEF UpdatePanels, ScreenSaver, CallBack, FlushAway, FlushInput
        <4>2. /\ \/ pending # <<>> /\ pending' = Tail(pending)
                 \/ pending' = <<>>
              /\ UNCHANGED <<priorities, sleeping, forked, opened, reader, screen>>
          BY <4>1 DEF ReadAway, Con!Flush, Con!Readable
        <4> QED
          BY <1>0, <4>2, TakeTypes
      <3> QED
        BY <1>3, <3>1, <3>2, <3>3 DEF Divert
    <2>4. dispatching
      BY <2>1 DEF IInv, StackOK, TypeOK
    <2> QED
      BY <1>6, <2>1, <2>2, <2>3, <2>4, LoopsStep
  <1>4. CASE ExitMainLoop
    <2>1. /\ UNCHANGED <<callVars, conVars>> /\ stack # <<>> /\ Top.at = "handle"
          /\ Top.kind = "panels" /\ stack' = <<>>
      BY <1>4 DEF ExitMainLoop
    <2>2. \A k \in DOMAIN stack : k = Len(stack) /\ stack[k].batch = <<>>
      <3>1. Len(stack) = 1 /\ DOMAIN stack = 1 .. 1
        BY <1>0, <2>1, StackFacts DEF TypeOK
      <3>2. stack[1].batch = <<>>
        BY <2>1, <3>1 DEF IInv, StackOK, Top
      <3> QED
        BY <3>1, <3>2
    <2>3. stack' \in Seq(Frames) /\ Len(stack') = 0 /\ DOMAIN stack' = {}
      BY <2>1, EmptySeq
    <2>4. ProperStack(stack') /\ SameBatches(stack')
      BY <2>1, <2>2, <2>3, DepthAssumption DEF ProperStack, SameBatches
    <2>5. Con!TypeOK'
      BY <1>0, <2>1 DEF Con!TypeOK, conVars
    <2> QED
      BY <1>6, <2>1, <2>4, <2>5, LoopsStep
  <1>5. ASSUME NEW kind \in Loops, NEW thread \in Callers \cup {Nobody},
               Open(kind, thread)
        PROVE  IInv' /\ Running' = Running /\ UNCHANGED callVars
    <2>1. ProperStack(stack') /\ SameBatches(stack') /\ dispatching
      BY <1>5, OpenIsProper
    <2>2. UNCHANGED <<callVars, conVars>>
      BY <1>5 DEF Open
    <2>3. Con!TypeOK'
      BY <1>0, <2>2 DEF Con!TypeOK, conVars
    <2> QED
      BY <1>6, <2>1, <2>2, <2>3, LoopsStep
  <1> QED
    BY <1>1, <1>2, <1>3, <1>4, <1>5

LEMMA ConsoleStepInv ==
  ASSUME IInv, ConsoleStep \/ UNCHANGED vars
  PROVE  IInv' /\ Running' = Running /\ UNCHANGED callVars
  <1>0. TypeOK /\ Con!TypeOK /\ StackOK
    BY DEF IInv, TypeOK
  <1>1. UNCHANGED <<callVars, stack, diverted>>
    BY DEF ConsoleStep, vars
  <1>2. ProperStack(stack') /\ SameBatches(stack')
    BY <1>1, StackIsProper DEF ProperStack, SameBatches
  <1>3. Con!TypeOK'
    <2>1. CASE Con!Deliver("key")
      <3>1. "key" \in Con!EventTypes
        BY DEF Con!EventTypes
      <3> QED
        BY <1>0, <2>1, <3>1, KickTypes DEF Con!Deliver
    <2>2. ASSUME NEW s \in Screens, Con!ScreenStep(s) PROVE Con!TypeOK'
      BY <1>0, <2>2, ScreenTypes
    <2>3. CASE UNCHANGED vars
      BY <1>0, <2>3 DEF vars, conVars, Con!TypeOK
    <2> QED
      BY <2>1, <2>2, <2>3 DEF ConsoleStep
  <1>4. dispatching \/ stack' = <<>>
    BY <1>0, <1>1 DEF StackOK
  <1>5. diverted' \in BOOLEAN
    BY <1>0, <1>1 DEF TypeOK
  <1> QED
    BY <1>1, <1>2, <1>3, <1>4, <1>5, LoopsStep

-----------------------------------------------------------------------------
(* The invariant in every behaviour, and the implementation of RemoteCalls. *)

LEMMA InitInv == Init => IInv /\ Remote!Init
  <1> SUFFICES ASSUME Init PROVE IInv /\ Remote!Init
    OBVIOUS
  <1>1. Con!TypeOK
    <2>1. pending \in Seq(Con!EventTypes) /\ <<>> \in Seq(Con!EventTypes)
      BY EmptySeq DEF Init, Con!Init
    <2>2. Con!IsFiniteSet(priorities) /\ priorities \subseteq Nat \ {0}
      BY FS_EmptySet, FiniteIsFinite DEF Init, Con!Init
    <2> QED
      BY <2>1, <2>2 DEF Init, Con!Init, Con!TypeOK, Con!Off
  <1> DEFINE f == Frame("panels", Nobody)
  <1>2. f \in Frames /\ f.kind = "panels" /\ f.at = "dispatch" /\ f.batch = <<>>
    <2>1. <<>> \in Seq(Callers)
      BY EmptySeq
    <2> QED
      BY <2>1 DEF Frame, Frames
  <1>3. stack = <<f>>
    BY DEF Init
  <1> HIDE DEF f
  <1>4. /\ stack \in Seq(Frames) /\ Len(stack) = 1 /\ DOMAIN stack = {1}
        /\ stack[1] = f
    BY <1>2, <1>3
  <1>5. /\ call = [c \in Callers |-> "idle"] /\ delegates = <<>>
        /\ dispatching = TRUE /\ discarding = <<>> /\ diverted = FALSE
    BY DEF Init
  <1>6. TypeOK
    <2>1. dispatching \in BOOLEAN /\ diverted \in BOOLEAN
      BY <1>5
    <2>2. /\ call \in [Callers -> Statuses]
          /\ delegates \in Seq(Callers) /\ discarding \in Seq(Callers)
      BY <1>5, EmptySeq DEF Statuses
    <2> QED
      BY <1>1, <1>2, <1>4, <2>1, <2>2 DEF TypeOK
  <1>7. StackOK
    BY <1>2, <1>4, <1>5, DepthAssumption DEF StackOK
  <1>8. StatusesTell /\ EveryCallIsSomewhere /\ NoneIsTwice
    BY <1>2, <1>4, <1>5 DEF StatusesTell, EveryCallIsSomewhere, NoneIsTwice
  <1>9. Remote!Init
    <2>1. Running = [d \in {} |-> 0]
      <3>1. {d \in DOMAIN stack : stack[d].at = "run"} = {}
        BY <1>2, <1>4
      <3> QED
        BY <3>1 DEF Running
    <2> QED
      BY <1>5, <2>1 DEF Remote!Init
  <1> QED
    BY <1>6, <1>7, <1>8, <1>9 DEF IInv

LEMMA StepInv ==
  IInv /\ [Next]_vars => IInv' /\ [Remote!Next]_(Remote!vars)
  <1> SUFFICES ASSUME IInv, [Next]_vars
               PROVE  IInv' /\ [Remote!Next]_(Remote!vars)
    OBVIOUS
  <1>1. ASSUME NEW c \in Callers, CallerStep(c)
        PROVE  IInv' /\ Remote!Next
    <2>1. IInv' /\ (Remote!Call(c) \/ Remote!Return(c))
      BY <1>1, DoStep, OutsideStep DEF CallerStep
    <2> QED
      BY <2>1 DEF Remote!Next
  <1>2. ASSUME \/ Process \/ \E o \in {"done", "failed"} : Finalize(o)
               \/ StopDispatching \/ Discard
        PROVE  IInv' /\ Remote!Next
    BY <1>2, ProcessStep, FinalizeStep, StopDispatchingStep, DiscardStep
       DEF Remote!Next
  <1>3. ASSUME \/ TakeDelegates \/ \E k \in 1 .. MaxDepth : EndWait(k)
               \/ Dispatched \/ PollInput \/ ReadInput \/ ReturnUnread \/ Divert
               \/ Handled \/ FlushInput \/ CloseLoop \/ CheckCondition
               \/ WakeTimeout \/ ExitMainLoop
               \/ \E kind \in Loops, thread \in Callers \cup {Nobody} :
                     Open(kind, thread)
               \/ ConsoleStep \/ UNCHANGED vars
        PROVE  IInv' /\ UNCHANGED Remote!vars
    <2>1. IInv' /\ UNCHANGED <<AbstractCall, Running, dispatching>>
      <3>1. CASE TakeDelegates
        BY <3>1, TakeDelegatesStep
      <3>2. CASE ~TakeDelegates
        <4>1. IInv' /\ Running' = Running /\ UNCHANGED callVars
          BY <1>3, <3>2, EndWaitStep, MainLoopStep, ConsoleStepInv
        <4> QED
          BY <4>1 DEF callVars, AbstractCall
      <3> QED
        BY <3>1, <3>2
    <2> QED
      BY <2>1 DEF Remote!vars, AbstractCall
  <1> QED
    BY <1>1, <1>2, <1>3 DEF Next, LoopStep

LEMMA Invariance == Spec => []IInv
  <1>1. Init => IInv
    BY InitInv
  <1>2. IInv /\ [Next]_vars => IInv'
    BY StepInv
  <1> QED
    BY <1>1, <1>2, PTL DEF Spec

(* What RemoteCalls.tla promises of the calls holds of the delegates, the   *)
(* batches of nested loops, and the discarding at the end: each function    *)
(* runs once, they nest, and none runs after the main thread stopped.       *)
THEOREM CallsAreRemoteCalls == Spec => ImplementsRemoteCalls
  <1>1. Init => Remote!Init
    BY InitInv
  <1>2. IInv /\ [Next]_vars => [Remote!Next]_(Remote!vars)
    BY StepInv
  <1> QED
    BY <1>1, <1>2, Invariance, PTL DEF Spec, ImplementsRemoteCalls, Remote!Spec

-----------------------------------------------------------------------------
(* What the invariant is there for. *)

Queues == <<delegates, discarding>> \o [k \in DOMAIN stack |-> stack[k].batch]

LEMMA QueuesAre ==
  ASSUME TypeOK
  PROVE  /\ DOMAIN Queues = 1 .. Len(stack) + 2
         /\ Queues[1] = delegates /\ Queues[2] = discarding
         /\ \A k \in DOMAIN stack : Queues[k + 2] = stack[k].batch
  <1> DEFINE first == <<delegates, discarding>>
             batches == [k \in DOMAIN stack |-> stack[k].batch]
  <1>1. /\ delegates \in Seq(Callers) /\ discarding \in Seq(Callers)
        /\ Len(stack) \in Nat /\ DOMAIN stack = 1 .. Len(stack)
        /\ \A k \in DOMAIN stack : stack[k].batch \in Seq(Callers)
    BY StackFacts DEF TypeOK
  <1>2. /\ first \in Seq(Seq(Callers)) /\ Len(first) = 2
        /\ first[1] = delegates /\ first[2] = discarding
    BY <1>1
  <1>3. /\ batches \in Seq(Seq(Callers)) /\ Len(batches) = Len(stack)
        /\ \A k \in DOMAIN stack : batches[k] = stack[k].batch
    <2>1. batches \in [1 .. Len(stack) -> Seq(Callers)]
      BY <1>1
    <2> QED
      BY <1>1, <2>1
  <1>4. Queues = first \o batches
    BY DEF Queues
  <1> HIDE DEF first, batches
  <1>5. /\ Queues \in Seq(Seq(Callers)) /\ Len(Queues) = 2 + Len(stack)
        /\ \A i \in 1 .. 2 + Len(stack) :
              Queues[i] = IF i <= 2 THEN first[i] ELSE batches[i - 2]
    <2>1. /\ first \o batches \in Seq(Seq(Callers))
          /\ Len(first \o batches) = Len(first) + Len(batches)
          /\ \A i \in 1 .. Len(first) + Len(batches) :
                (first \o batches)[i] = IF i <= Len(first) THEN first[i]
                                        ELSE batches[i - Len(first)]
      <3> DEFINE T == Seq(Callers)
      <3>1. first \in Seq(T) /\ batches \in Seq(T) /\ Len(first) = Len(first)
        BY <1>2, <1>3
      <3> HIDE DEF T
      <3>2. /\ first \o batches \in Seq(T)
            /\ Len(first \o batches) = Len(first) + Len(batches)
            /\ \A i \in 1 .. Len(first) + Len(batches) :
                  (first \o batches)[i] = IF i <= Len(first) THEN first[i]
                                          ELSE batches[i - Len(first)]
        BY <3>1, ConcatProperties, Zenon
      <3> QED
        BY <3>2 DEF T
    <2> QED
      BY <1>2, <1>3, <1>4, <2>1
  <1>6. DOMAIN Queues = 1 .. Len(stack) + 2
    <2>1. DOMAIN Queues = 1 .. Len(Queues)
      BY <1>5, SeqFacts
    <2>2. 2 + Len(stack) = Len(stack) + 2
      BY <1>1
    <2> QED
      BY <1>5, <2>1, <2>2
  <1>7. Queues[1] = delegates /\ Queues[2] = discarding
    <2>1. 1 \in 1 .. 2 + Len(stack) /\ 2 \in 1 .. 2 + Len(stack)
      BY <1>1
    <2> QED
      BY <1>2, <1>5, <2>1
  <1>8. ASSUME NEW k \in DOMAIN stack
        PROVE  Queues[k + 2] = stack[k].batch
    <2>1. /\ k + 2 \in 1 .. 2 + Len(stack) /\ ~(k + 2 <= 2) /\ (k + 2) - 2 = k
      BY <1>1
    <2>2. Queues[k + 2] = batches[(k + 2) - 2]
      BY <1>5, <2>1
    <2> QED
      BY <1>3, <2>1, <2>2
  <1> QED
    BY <1>6, <1>7, <1>8

(* No call is in two places.                                                *)
LEMMA OnePlaceAtMost ==
  ASSUME IInv, NEW c \in Callers,
         NEW j \in DOMAIN Queues, NEW k \in DOMAIN Queues[j], Queues[j][k] = c,
         NEW l \in DOMAIN Queues, NEW m \in DOMAIN Queues[l], Queues[l][m] = c
  PROVE  j = l /\ k = m
  <1>1. TypeOK /\ NoneIsTwice /\ StatusesTell /\ StackOK
    BY DEF IInv
  <1>2. /\ DOMAIN Queues = 1 .. Len(stack) + 2 /\ Len(stack) \in Nat
        /\ DOMAIN stack = 1 .. Len(stack)
        /\ Queues[1] = delegates /\ Queues[2] = discarding
        /\ \A x \in DOMAIN stack : Queues[x + 2] = stack[x].batch
    BY <1>1, QueuesAre, StackFacts
  <1>3. \A x \in DOMAIN Queues : \/ x = 1 \/ x = 2
                                 \/ x - 2 \in DOMAIN stack /\ x = (x - 2) + 2
    BY <1>2
  <1>4. \A x \in DOMAIN Queues : \/ x = 1 /\ Queues[x] = delegates
                                 \/ x = 2 /\ Queues[x] = discarding
                                 \/ /\ x - 2 \in DOMAIN stack
                                    /\ Queues[x] = stack[x - 2].batch
    BY <1>2, <1>3
  <1>5. delegates = <<>> \/ discarding = <<>>
    BY <1>1 DEF StackOK
  <1>6. /\ \A i \in DOMAIN delegates : call[delegates[i]] = "queued"
        /\ \A i \in DOMAIN discarding : call[discarding[i]] = "queued"
        /\ \A x \in DOMAIN stack : \A i \in DOMAIN stack[x].batch :
              call[stack[x].batch[i]] # "queued"
    BY <1>1 DEF StatusesTell
  <1>7. CASE call[c] = "queued"
    <2>1. j \in {1, 2} /\ l \in {1, 2}
      BY <1>4, <1>6, <1>7
    <2>2. j = l
      BY <1>2, <1>5, <2>1
    <2> QED
      BY <1>1, <1>2, <2>1, <2>2 DEF NoneIsTwice
  <1>8. CASE call[c] # "queued"
    <2>1. /\ j - 2 \in DOMAIN stack /\ Queues[j] = stack[j - 2].batch
          /\ l - 2 \in DOMAIN stack /\ Queues[l] = stack[l - 2].batch
      BY <1>4, <1>6, <1>8
    <2>2. j - 2 = l - 2 /\ k = m
      BY <1>1, <2>1 DEF NoneIsTwice
    <2> QED
      BY <1>2, <2>2
  <1> QED
    BY <1>7, <1>8

(* The delegate of a call under way is in exactly one place, that of any    *)
(* other call in none.                                                      *)
LEMMA InOnePlace == IInv => DelegatesInOnePlace
  <1> SUFFICES ASSUME IInv PROVE DelegatesInOnePlace
    OBVIOUS
  <1>0. TypeOK
    BY DEF IInv
  <1> DEFINE Places(c) == UNION {{<<j, k>> : k \in Positions(Queues[j], c)} :
                                   j \in DOMAIN Queues}
  <1>1. ASSUME NEW c \in Callers
        PROVE  IF call[c] \in {"queued", "taken", "running"}
               THEN Cardinality(Places(c)) = 1 ELSE Places(c) = {}
    <2>1. \A j \in DOMAIN Queues : \A k \in DOMAIN Queues[j] :
             Queues[j][k] = c => <<j, k>> \in Places(c)
      BY DEF Positions
    <2>2. \A p \in Places(c) : \E j \in DOMAIN Queues : \E k \in DOMAIN Queues[j] :
             Queues[j][k] = c /\ p = <<j, k>>
      BY DEF Positions
    <2> HIDE DEF Places
    <2>3. /\ DOMAIN Queues = 1 .. Len(stack) + 2 /\ Len(stack) \in Nat
          /\ DOMAIN stack = 1 .. Len(stack)
          /\ Queues[1] = delegates /\ Queues[2] = discarding
          /\ \A x \in DOMAIN stack : Queues[x + 2] = stack[x].batch
      BY <1>0, QueuesAre, StackFacts
    <2>4. CASE call[c] \in {"queued", "taken", "running"}
      <3>1. \E j \in DOMAIN Queues : \E k \in DOMAIN Queues[j] : Queues[j][k] = c
        <4>1. CASE call[c] = "queued"
          <5>1. 1 \in DOMAIN Queues /\ 2 \in DOMAIN Queues
            BY <2>3
          <5> QED
            BY <2>3, <4>1, <5>1 DEF IInv, EveryCallIsSomewhere, Elements
        <4>2. CASE call[c] # "queued"
          <5>1. PICK x \in DOMAIN stack : c \in Elements(stack[x].batch)
            BY <2>4, <4>2 DEF IInv, EveryCallIsSomewhere
          <5>2. x + 2 \in DOMAIN Queues /\ Queues[x + 2] = stack[x].batch
            BY <2>3
          <5> QED
            BY <5>1, <5>2 DEF Elements
        <4> QED
          BY <4>1, <4>2
      <3>0. PICK j \in DOMAIN Queues : \E k \in DOMAIN Queues[j] : Queues[j][k] = c
        BY <3>1
      <3>2. PICK k \in DOMAIN Queues[j] : Queues[j][k] = c
        BY <3>0
      <3>3. Places(c) = {<<j, k>>}
        <4>1. ASSUME NEW p \in Places(c) PROVE p = <<j, k>>
          <5>0. PICK l \in DOMAIN Queues : \E m \in DOMAIN Queues[l] :
                   Queues[l][m] = c /\ p = <<l, m>>
            BY <2>2
          <5>1. PICK m \in DOMAIN Queues[l] : Queues[l][m] = c /\ p = <<l, m>>
            BY <5>0
          <5>2. j = l /\ k = m
            BY <3>2, <5>1, OnePlaceAtMost
          <5> QED
            BY <5>1, <5>2
        <4>2. <<j, k>> \in Places(c)
          BY <2>1, <3>2
        <4> QED
          BY <4>1, <4>2
      <3> QED
        BY <2>4, <3>3, FS_Singleton
    <2>5. CASE call[c] \notin {"queued", "taken", "running"}
      <3>1. ASSUME NEW j \in DOMAIN Queues, NEW k \in DOMAIN Queues[j],
                   Queues[j][k] = c
            PROVE  FALSE
        <4>1. \/ j = 1 /\ Queues[j] = delegates
              \/ j = 2 /\ Queues[j] = discarding
              \/ j - 2 \in DOMAIN stack /\ j = (j - 2) + 2
          BY <2>3
        <4>2. \/ Queues[j] = delegates \/ Queues[j] = discarding
              \/ j - 2 \in DOMAIN stack /\ Queues[j] = stack[j - 2].batch
          BY <2>3, <4>1
        <4> QED
          BY <2>5, <3>1, <4>2 DEF IInv, StatusesTell
      <3>2. Places(c) = {}
        BY <2>2, <3>1
      <3> QED
        BY <2>5, <3>2
    <2> QED
      BY <2>4, <2>5
  <1> QED
    BY <1>0, <1>1, Zenon DEF DelegatesInOnePlace, Queues

(* The delegate of a call under way, which is on the stack of the calling   *)
(* thread, is in one place, and no pointer to the delegate of a call that   *)
(* has returned is left in the queue, in a batch of nested loops or in what *)
(* the end discards.  (And the types.)                                      *)
THEOREM NoDanglingDelegates == Spec => []DelegatesInOnePlace
  BY InOnePlace, Invariance, PTL

-----------------------------------------------------------------------------
(* The wake-up of the panels. *)

(* Something to read that is no key is there.                               *)
HasKick == \E i \in DOMAIN pending : pending[i] # "key"

(* An event is queued: what was there stays.                                *)
LEMMA EnqueueKeeps ==
  ASSUME Con!TypeOK, NEW e \in Con!EventTypes, Con!Enqueue(<<e>>)
  PROVE  (HasKick \/ e # "key") => HasKick'
  <1>1. <<e>> \in Seq(Con!EventTypes) /\ pending \in Seq(Con!EventTypes)
    BY DEF Con!TypeOK
  <1>2. /\ pending' = pending \o <<e>> /\ Len(<<e>>) = 1 /\ <<e>>[1] = e
        /\ Len(pending) \in Nat
    BY <1>1, LenProperties DEF Con!Enqueue
  <1>3. /\ pending' \in Seq(Con!EventTypes) /\ Len(pending') = Len(pending) + 1
        /\ \A i \in 1 .. Len(pending) + 1 :
              pending'[i] = IF i <= Len(pending) THEN pending[i]
                            ELSE <<e>>[i - Len(pending)]
    BY <1>1, <1>2, ConcatProperties
  <1>4. /\ DOMAIN pending = 1 .. Len(pending)
        /\ DOMAIN pending' = 1 .. Len(pending) + 1
    BY <1>1, <1>3, SeqFacts
  <1>5. /\ \A i \in DOMAIN pending : i \in DOMAIN pending' /\ pending'[i] = pending[i]
        /\ Len(pending) + 1 \in DOMAIN pending'
        /\ pending'[Len(pending) + 1] = e
    BY <1>2, <1>3, <1>4
  <1> QED
    BY <1>5 DEF HasKick

(* The first event is read: what is behind it stays.                        *)
LEMMA TailKeeps ==
  ASSUME Con!TypeOK, pending # <<>>, pending' = Tail(pending), HasKick
  PROVE  HasKick' \/ Head(pending) # "key"
  <1>1. PICK i \in DOMAIN pending : pending[i] # "key"
    BY DEF HasKick
  <1>2. /\ Head(pending) = pending[1]
        /\ \A k \in DOMAIN pending \ {1} : /\ k - 1 \in DOMAIN Tail(pending)
                                           /\ pending[k] = Tail(pending)[k - 1]
    BY TailIs DEF Con!TypeOK
  <1> QED
    BY <1>1, <1>2 DEF HasKick

(* A diversion that takes the last event that is no key sets diverted.      *)
LEMMA DivertTells ==
  ASSUME Con!TypeOK, Divert, Top.kind = "panels", delegates # <<>>, HasKick
  PROVE  HasKick' \/ diverted'
  <1>1. CASE FlushAway
    BY <1>1 DEF FlushAway, ThrowsAway, HasKick
  <1>2. ASSUME pending # <<>>, pending' = Tail(pending), ThrowsAway(<<Head(pending)>>)
        PROVE  HasKick' \/ diverted'
    <2> DEFINE events == <<Head(pending)>>
    <2>1. 1 \in DOMAIN events /\ events[1] = Head(pending)
      OBVIOUS
    <2> HIDE DEF events
    <2>2. Head(pending) # "key" => diverted'
      BY <1>2, <2>1 DEF ThrowsAway, events
    <2> QED
      BY <1>2, <2>2, TailKeeps
  <1>3. CASE ReadAway
    BY <1>2, <1>3 DEF ReadAway, Con!Readable
  <1>4. CASE SkipInput
    BY <1>2, <1>4 DEF SkipInput, Con!Read, Con!Readable
  <1> QED
    BY <1>1, <1>3, <1>4 DEF Divert, UpdatePanels, ScreenSaver, CallBack

(* What loses the kick in one step is one of the diversions.                *)
LEMMA KickStep ==
  ASSUME IInv, OnlyDiversionsLoseKicks, [Next]_vars
  PROVE  OnlyDiversionsLoseKicks'
  <1> SUFFICES ASSUME TopIs({"panels"}, "input")', delegates' # <<>>,
                      ~HasKick', ~diverted',
                      ~ \E s \in Screens : screen'[s].at = "input"
               PROVE  FALSE
    BY DEF OnlyDiversionsLoseKicks, WaitsWithCalls, Announced, HasKick, TopIs, At,
       Top
  <1> USE DEF TopIs, At, InputLoops
  <1>0. TypeOK /\ Con!TypeOK /\ StackOK /\ IInv'
    BY StepInv DEF IInv, TypeOK
  <1>1. /\ stack' # <<>> /\ Len(stack') = 1 /\ stack'[1].at = "input"
        /\ 1 \in DOMAIN stack' /\ stack'[1].kind = "panels"
    <2>1. stack' # <<>> /\ Top'.at = "input" /\ Top'.kind = "panels"
      OBVIOUS
    <2>2. /\ stack' \in Seq(Frames)
          /\ \A k \in DOMAIN stack' : stack'[k].kind = "panels" <=> k = 1
      BY <1>0 DEF IInv, TypeOK
    <2>3. Len(stack') \in DOMAIN stack' /\ Top' = stack'[Len(stack')]
      BY <2>1, <2>2, SeqFacts DEF Top
    <2> QED
      BY <2>1, <2>2, <2>3
  (* The loop was there before, at the same place, with calls queued. *)
  <1>2. ASSUME stack # <<>>, Len(stack) = 1, stack[1].at = "input",
               delegates # <<>>
        PROVE  /\ Top.kind = "panels"
               /\ HasKick \/ diverted \/ \E s \in Screens : screen[s].at = "input"
    BY <1>0, <1>2 DEF OnlyDiversionsLoseKicks, WaitsWithCalls, Announced, HasKick,
       TypeOK, Top
  <1>19. ASSUME stack # <<>>, Len(stack) = 1, stack[1].at = "input",
                delegates # <<>>, UNCHANGED <<pending, screen, diverted>>
         PROVE  FALSE
    BY <1>2, <1>19 DEF HasKick
  <1>3. ASSUME NEW place \in {"dispatch", "batch", "run", "handle", "asleep"},
               stack # <<>>, stack' = Moved(place)
        PROVE  FALSE
    <2> DEFINE f == [Top EXCEPT !.at = place]
    <2>1. Top \in Frames /\ Len(stack) \in DOMAIN stack
      BY <1>0, <1>3, StackFacts
    <2>2. f \in Frames /\ f.at = place
      BY <2>1 DEF Frames
    <2>3. stack' = [stack EXCEPT ![Len(stack)] = f]
      BY <1>3 DEF Moved, Top
    <2> HIDE DEF f
    <2>4. Len(stack') = Len(stack) /\ stack'[Len(stack)] = f
      BY <1>0, <1>3, <2>2, <2>3, TopBecomes
    <2> QED
      BY <1>1, <2>2, <2>4
  <1>4. ASSUME stack # <<>>, stack' = Popped
        PROVE  FALSE
    <2>1. /\ Len(stack') = Len(stack) - 1 /\ Len(stack) \in Nat
          /\ \A k \in 1 .. Len(stack) - 1 : stack'[k] = stack[k]
          /\ DOMAIN stack = 1 .. Len(stack)
      BY <1>0, <1>4, PoppedIs, StackFacts
    <2>2. 1 \in 1 .. Len(stack) - 1 /\ 1 < Len(stack) /\ 1 \in DOMAIN stack
      BY <1>1, <2>1
    <2>3. stack[1].at \in {"run", "handle"}
      BY <1>0, <2>2 DEF TypeOK
    <2> QED
      BY <1>1, <2>1, <2>2, <2>3
  <1>5. ASSUME stack' = stack
        PROVE  stack # <<>> /\ Len(stack) = 1 /\ stack[1].at = "input"
    BY <1>1, <1>5
  <1>6. ASSUME NEW c \in Callers, Do(c) PROVE FALSE
    <2>1. CASE delegates = <<>>
      <3>1. "noop" \in Con!EventTypes
        BY DEF Con!EventTypes
      <3>2. HasKick'
        BY <1>0, <1>6, <2>1, <3>1, EnqueueKeeps DEF Do, Kick
      <3> QED
        BY <3>2
    <2>2. CASE delegates # <<>>
      <3>1. UNCHANGED <<pending, screen, diverted>>
        BY <1>6, <2>2 DEF Do, Kick, conVars
      <3>2. /\ Len(stack') = Len(stack) /\ DOMAIN stack' = DOMAIN stack
            /\ \A k \in DOMAIN stack : \/ stack'[k].at = stack[k].at
                                       \/ stack'[k].at = "dispatch"
        BY <1>0, <1>6, AwokenIs DEF Do
      <3> QED
        BY <1>1, <1>19, <2>2, <3>1, <3>2
    <2> QED
      BY <2>1, <2>2
  <1>7. ASSUME NEW k \in 1 .. MaxDepth, EndWait(k) PROVE FALSE
    <2> DEFINE woken == Awoken(stack)
    <2>1. /\ k \in DOMAIN stack /\ stack[k].kind = "wait"
          /\ stack' = [woken EXCEPT ![k].ended = TRUE]
      BY <1>7 DEF EndWait
    <2>2. DOMAIN woken = DOMAIN stack
      BY <1>0, AwokenIs
    <2> HIDE DEF woken
    <2>3. DOMAIN stack' = DOMAIN stack
      BY <2>1, <2>2
    <2>4. DOMAIN stack' = 1 .. 1
      BY <1>0, <1>1, SeqFacts DEF IInv, TypeOK
    <2>5. k = 1
      BY <2>1, <2>3, <2>4
    <2> QED
      BY <1>0, <2>1, <2>5 DEF TypeOK
  <1>8. ASSUME NEW s \in Screens, Con!ScreenStep(s),
               UNCHANGED <<callVars, stack, diverted>>
        PROVE  FALSE
    <2>1. HasKick \/ \E x \in Screens : screen[x].at = "input"
      BY <1>2, <1>5, <1>8 DEF callVars
    <2>2. screen \in [Screens -> ScreenRecord]
      BY <1>0 DEF Con!TypeOK, ScreenRecord
    <2>3. CASE Con!Appear(s)
      <3>1. screen'[s].at = "input"
        BY <2>2, <2>3 DEF Con!Appear
      <3> QED
        BY <3>1
    <2>4. CASE Con!FinalUpdate(s)
      <3>1. "size" \in Con!EventTypes
        BY DEF Con!EventTypes
      <3> QED
        BY <1>0, <2>4, <3>1, EnqueueKeeps DEF Con!FinalUpdate
    <2>5. CASE Con!Disappear(s)
      <3>1. /\ pending' = pending /\ screen[s].at = "lower"
            /\ \A x \in Screens \ {s} : screen'[x] = screen[x]
        BY <2>2, <2>5 DEF Con!Disappear
      <3> QED
        BY <2>1, <3>1 DEF HasKick
    <2>6. ASSUME NEW answer \in BOOLEAN, Con!DispatchInput(s, answer)
          PROVE  FALSE
      <3>1. screen'[s].at = screen[s].at /\ screen[s].at = "input"
        BY <2>2, <2>6 DEF Con!DispatchInput, ScreenRecord
      <3> QED
        BY <3>1
    <2> QED
      BY <1>8, <2>3, <2>4, <2>5, <2>6 DEF Con!ScreenStep
  <1>9. CASE \E c \in Callers : CallerStep(c)
    <2>1. ASSUME NEW c \in Callers, DoRefused(c) \/ Return(c) PROVE FALSE
      BY <1>5, <1>19, <2>1 DEF DoRefused, Return, conVars
    <2> QED
      BY <1>6, <1>9, <2>1 DEF CallerStep
  <1>10. CASE \/ TakeDelegates \/ Dispatched \/ StopDispatching
    BY <1>10 DEF TakeDelegates, DelegatesAfterSwap, Dispatched, StopDispatching,
       callVars
  <1>11. CASE Process \/ ReadInput \/ ReturnUnread \/ Handled \/ WakeTimeout
    BY <1>3, <1>11 DEF Process, ReadInput, ReturnUnread, Polling, Handled,
       WakeTimeout
  <1>12. ASSUME NEW o \in {"done", "failed"}, Finalize(o) PROVE FALSE
    <2> DEFINE f == [Top EXCEPT !.at = IF Len(Top.batch) = 1 THEN "dispatch"
                                       ELSE "batch",
                                !.batch = Tail(Top.batch)]
    <2>1. stack # <<>> /\ stack' = [stack EXCEPT ![Len(stack)] = f]
      BY <1>12 DEF Finalize, Top
    <2>2. /\ Top \in Frames /\ Top.batch \in Seq(Callers) /\ Top.at = "run"
          /\ Top = stack[Len(stack)] /\ Len(stack) \in DOMAIN stack
      BY <1>0, <1>12, <2>1, StackFacts DEF Finalize
    <2>3. Top.batch # <<>>
      BY <1>0, <2>2 DEF StackOK
    <2>4. Tail(Top.batch) \in Seq(Callers)
      BY <2>2, <2>3, TailIs
    <2>5. f \in Frames /\ f.at \in {"dispatch", "batch"}
      BY <2>2, <2>4 DEF Frames
    <2> HIDE DEF f
    <2>6. Len(stack') = Len(stack) /\ stack'[Len(stack)] = f
      BY <1>0, <2>1, <2>5, TopBecomes
    <2> QED
      BY <1>1, <2>5, <2>6
  <1>13. CASE PollInput \/ Discard \/ UNCHANGED vars
    <2>1. UNCHANGED <<delegates, stack, screen, pending, diverted>>
      BY <1>13 DEF PollInput, Discard, callVars, vars, conVars, Con!conVars,
         Con!StartReading, Con!Peek, Con!ReadNothing, Con!WaitForNonEmpty
    <2> QED
      BY <1>5, <1>19, <2>1
  <1>14. CASE FlushInput
    BY <1>0, <1>5, <1>14 DEF FlushInput, InHandler, Top
  <1>20. CASE Divert
    <2>1. UNCHANGED <<delegates, stack, screen>> /\ (diverted => diverted')
      BY <1>20 DEF Divert, UpdatePanels, ScreenSaver, SkipInput, CallBack,
         FlushAway, ReadAway, ThrowsAway, callVars, Con!Flush, Con!Read
    <2>2. Top.kind = "panels" /\ delegates # <<>> /\ HasKick
      BY <1>2, <1>5, <2>1
    <2> QED
      BY <1>0, <1>20, <2>2, DivertTells
  <1>15. CASE CloseLoop \/ CheckCondition
    BY <1>3, <1>4, <1>15 DEF CloseLoop, CheckCondition
  <1>16. CASE ExitMainLoop
    BY <1>1, <1>16 DEF ExitMainLoop
  <1>17. ASSUME NEW kind \in Loops, NEW thread \in Callers \cup {Nobody},
                Open(kind, thread)
         PROVE  FALSE
    <2> DEFINE f == Frame(kind, thread)
    <2>1. stack' = Append(stack, f) /\ stack # <<>>
      BY <1>17 DEF Open, InHandler
    <2>2. f \in Frames
      <3>1. <<>> \in Seq(Callers)
        BY EmptySeq
      <3> QED
        BY <3>1, LoopsAssumption DEF Frame, Frames
    <2> HIDE DEF f
    <2>3. Len(stack) \in Nat /\ Len(stack) # 0
      BY <1>0, <2>1, StackFacts, EmptySeq
    <2>4. Len(stack') = Len(stack) + 1
      BY <1>0, <2>1, <2>2, StackFacts, AppendProperties
    <2>5. Len(stack') # 1
      BY <2>3, <2>4
    <2> QED
      BY <1>1, <2>5
  <1>18. CASE ConsoleStep
    <2>1. CASE Con!Deliver("key")
      <3>1. UNCHANGED <<delegates, stack, screen, diverted>>
        BY <1>18, <2>1 DEF ConsoleStep, Con!Deliver, callVars
      <3>2. HasKick
        BY <1>2, <1>5, <3>1
      <3>3. "key" \in Con!EventTypes
        BY DEF Con!EventTypes
      <3> QED
        BY <1>0, <2>1, <3>2, <3>3, EnqueueKeeps DEF Con!Deliver
    <2> QED
      BY <1>8, <1>18, <2>1 DEF ConsoleStep
  <1> QED
    BY <1>7, <1>9, <1>10, <1>11, <1>12, <1>13, <1>14, <1>15, <1>16, <1>17, <1>18,
       <1>20 DEF Next, LoopStep

(* While calls are queued the panels never wait for input that nothing      *)
(* announces, unless GetInputRecord() itself threw the dummy event away in  *)
(* one of its diversions and has not returned since.  For whatever handlers *)
(* flush, screens take away, and reads take in place of another event, the  *)
(* single dummy event that the first call of an empty queue writes, and the *)
(* one that a screen leaves behind, are enough.                             *)
THEOREM KickSuffices == Spec => []OnlyDiversionsLoseKicks
  <1>1. Init => OnlyDiversionsLoseKicks
    BY DEF Init, OnlyDiversionsLoseKicks, WaitsWithCalls
  <1>2. IInv /\ OnlyDiversionsLoseKicks /\ [Next]_vars => OnlyDiversionsLoseKicks'
    BY KickStep
  <1> QED
    BY <1>1, <1>2, Invariance, PTL DEF Spec
=============================================================================
