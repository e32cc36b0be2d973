---------------------------- MODULE ManagerProofs ----------------------------
(***************************************************************************)
(* Proofs about the frame manager (Manager), for any number of frames and   *)
(* nested loops.  The first part, up to NothingIsListedTwice, holds for any *)
(* number of requests of a handler and whatever plugins do; the second one  *)
(* is about handlers that make one request before the next Commit().        *)
(***************************************************************************)
EXTENDS Manager, SequenceTheorems, TLAPS

-----------------------------------------------------------------------------
(* Lists of frames. *)

Distinct(s) == \A i, j \in DOMAIN s : s[i] = s[j] => i = j

LEMMA SeqFacts ==
  ASSUME NEW S, NEW s \in Seq(S)
  PROVE  /\ Len(s) \in Nat /\ DOMAIN s = 1 .. Len(s)
         /\ \A k \in DOMAIN s : s[k] \in S
         /\ s # <<>> => Len(s) > 0 /\ Len(s) \in DOMAIN s
         /\ InSeq(s) \subseteq S
         /\ \A x : x \in InSeq(s) <=> \E k \in DOMAIN s : s[k] = x
  <1>1. Len(s) \in Nat /\ DOMAIN s = 1 .. Len(s) /\ s \in [1 .. Len(s) -> S]
    BY LenProperties
  <1>2. s # <<>> => Len(s) # 0
    BY EmptySeq
  <1>3. \A k \in DOMAIN s : s[k] \in S
    BY <1>1
  <1>4. \A x : x \in InSeq(s) <=> \E k \in DOMAIN s : s[k] = x
    BY DEF InSeq
  <1> QED
    BY <1>1, <1>2, <1>3, <1>4

(* Functions on 1 .. n are sequences of length n.                           *)
LEMMA FunctionIsSeq ==
  ASSUME NEW S, NEW n \in Nat, NEW s \in [1 .. n -> S]
  PROVE  s \in Seq(S) /\ Len(s) = n /\ DOMAIN s = 1 .. n
  BY SeqDef

LEMMA IndexOfIs ==
  ASSUME NEW s \in Seq(Frames), NEW f \in InSeq(s)
  PROVE  IndexOf(s, f) \in DOMAIN s /\ s[IndexOf(s, f)] = f
  <1>1. \E k \in DOMAIN s : s[k] = f
    BY SeqFacts
  <1> QED
    BY <1>1 DEF IndexOf

(* push_back() of a frame that is not there.                                *)
LEMMA AppendIs ==
  ASSUME NEW s \in Seq(Frames), NEW f \in Frames
  PROVE  /\ Append(s, f) \in Seq(Frames)
         /\ Len(Append(s, f)) = Len(s) + 1
         /\ InSeq(Append(s, f)) = InSeq(s) \cup {f}
         /\ Distinct(s) /\ f \notin InSeq(s) => Distinct(Append(s, f))
  <1> DEFINE t == Append(s, f)
  <1>1. /\ t \in Seq(Frames) /\ Len(t) = Len(s) + 1 /\ Len(s) \in Nat
        /\ \A k \in 1 .. Len(s) : t[k] = s[k]
        /\ t[Len(s) + 1] = f
    BY AppendProperties, LenProperties
  <1> HIDE DEF t
  <1>2. DOMAIN s = 1 .. Len(s) /\ DOMAIN t = (1 .. Len(s)) \cup {Len(s) + 1}
    BY <1>1, LenProperties
  <1>3. \A x : x \in InSeq(s) <=> \E k \in DOMAIN s : s[k] = x
    BY SeqFacts
  <1>4. \A x : x \in InSeq(t) <=> \E k \in DOMAIN t : t[k] = x
    BY DEF InSeq
  <1>5. InSeq(t) = InSeq(s) \cup {f}
    BY <1>1, <1>2, <1>3, <1>4
  <1>6. ASSUME Distinct(s), f \notin InSeq(s),
               NEW i \in DOMAIN t, NEW j \in DOMAIN t, t[i] = t[j]
        PROVE  i = j
    <2>1. CASE i \in 1 .. Len(s) /\ j \in 1 .. Len(s)
      BY <1>1, <1>2, <1>6, <2>1 DEF Distinct
    <2>2. \A k \in 1 .. Len(s) : t[k] # f
      BY <1>1, <1>2, <1>3, <1>6
    <2> QED
      BY <1>1, <1>2, <1>6, <2>1, <2>2
  <1> QED
    BY <1>1, <1>5, <1>6 DEF t, Distinct

(* erase() of a frame.                                                      *)
LEMMA WithoutIs ==
  ASSUME NEW s \in Seq(Frames), NEW f
  PROVE  /\ Without(s, f) \in Seq(Frames)
         /\ InSeq(Without(s, f)) \subseteq InSeq(s)
         /\ f \notin InSeq(s) => Without(s, f) = s
         /\ Distinct(s) => /\ Distinct(Without(s, f))
                           /\ f \notin InSeq(Without(s, f))
  <1>1. CASE f \notin InSeq(s)
    <2>1. Without(s, f) = s
      BY <1>1 DEF Without
    <2> QED
      BY <1>1, <2>1
  <1>2. CASE f \in InSeq(s)
    <2> DEFINE i == IndexOf(s, f)
               At(k) == IF k < i THEN k ELSE k + 1
               t == [k \in 1 .. Len(s) - 1 |-> s[At(k)]]
    <2>1. /\ Len(s) \in Nat /\ DOMAIN s = 1 .. Len(s)
          /\ i \in DOMAIN s /\ s[i] = f
          /\ \A k \in DOMAIN s : s[k] \in Frames
      BY <1>2, SeqFacts, IndexOfIs
    <2>2. Without(s, f) = t
      BY <1>2 DEF Without
    <2> HIDE DEF i
    <2>3. Len(s) - 1 \in Nat
      BY <2>1
    <2>4. \A k \in 1 .. Len(s) - 1 : At(k) \in DOMAIN s /\ At(k) # i
      BY <2>1
    <2>5. \A j, k \in 1 .. Len(s) - 1 : At(j) = At(k) => j = k
      BY <2>1
    <2> HIDE DEF At
    <2>6. t \in [1 .. Len(s) - 1 -> Frames]
      BY <2>1, <2>4
    <2>7. \A k \in 1 .. Len(s) - 1 : t[k] = s[At(k)]
      OBVIOUS
    <2> HIDE DEF t
    <2>8. t \in Seq(Frames) /\ DOMAIN t = 1 .. Len(s) - 1
      BY <2>3, <2>6, FunctionIsSeq
    <2>9. InSeq(t) \subseteq InSeq(s)
      BY <2>4, <2>7, <2>8 DEF InSeq
    <2>10. ASSUME Distinct(s)
           PROVE  Distinct(t) /\ f \notin InSeq(t)
      <3>1. Distinct(t)
        BY <2>4, <2>5, <2>7, <2>8, <2>10 DEF Distinct
      <3>2. f \notin InSeq(t)
        BY <2>1, <2>4, <2>7, <2>8, <2>10 DEF Distinct, InSeq
      <3> QED
        BY <3>1, <3>2
    <2> QED
      BY <1>2, <2>2, <2>8, <2>9, <2>10
  <1> QED
    BY <1>1, <1>2

(* FrameList[index] = inserted                                              *)
LEMMA ReplacedIs ==
  ASSUME NEW s \in Seq(Frames), NEW f \in InSeq(s), NEW g \in Frames,
         g \notin InSeq(s), Distinct(s)
  PROVE  LET t == [s EXCEPT ![IndexOf(s, f)] = g]
         IN  /\ t \in Seq(Frames) /\ Len(t) = Len(s) /\ Distinct(t)
             /\ InSeq(t) \subseteq InSeq(s) \cup {g} /\ f \notin InSeq(t)
             /\ g \in InSeq(t)
  <1> DEFINE i == IndexOf(s, f)
             t == [s EXCEPT ![i] = g]
  <1>1. /\ Len(s) \in Nat /\ DOMAIN s = 1 .. Len(s)
        /\ i \in DOMAIN s /\ s[i] = f
        /\ \A k \in DOMAIN s : s[k] \in Frames
        /\ s \in [1 .. Len(s) -> Frames]
    BY SeqFacts, IndexOfIs, LenProperties
  <1>2. f # g
    OBVIOUS
  <1> HIDE DEF i
  <1>3. t \in [1 .. Len(s) -> Frames] /\ t[i] = g /\ \A k \in DOMAIN s \ {i} : t[k] = s[k]
    BY <1>1
  <1> HIDE DEF t
  <1>4. t \in Seq(Frames) /\ DOMAIN t = DOMAIN s /\ Len(t) = Len(s)
    BY <1>1, <1>3, FunctionIsSeq
  <1>5. \A k \in DOMAIN s : s[k] # g
    BY DEF InSeq
  <1>6. Distinct(t)
    BY <1>1, <1>3, <1>4, <1>5 DEF Distinct
  <1>7. InSeq(t) \subseteq InSeq(s) \cup {g} /\ f \notin InSeq(t) /\ g \in InSeq(t)
    BY <1>1, <1>2, <1>3, <1>4 DEF Distinct, InSeq
  <1> QED
    BY <1>4, <1>6, <1>7 DEF t, i

-----------------------------------------------------------------------------
(* What the operations do to the fields of the manager.                     *)

Sound(mm) ==
    /\ mm \in Fields
    /\ mm.FramePos = 0 \/ mm.FramePos < Len(mm.FrameList)
    /\ Distinct(mm.FrameList)
    /\ Distinct(mm.ModalStack)
    /\ InSeq(mm.FrameList) \cap InSeq(mm.ModalStack) = {}

(* From mm to r frames become known and are put onto the stack only as far  *)
(* as it says; a request is still there or is gone.                         *)
Keeps(mm, r, known, pushed) ==
    /\ Sound(r)
    /\ Known(r) \subseteq Known(mm) \cup known \cup {None}
    /\ InSeq(r.ModalStack) \subseteq InSeq(mm.ModalStack) \cup pushed
    /\ r.InsertedFrame \in {mm.InsertedFrame, None}
    /\ r.ExecutedFrame \in {mm.ExecutedFrame, None}
    /\ r.DeactivatedFrame \in {mm.DeactivatedFrame, None}

LEMMA KeepsSame ==
  ASSUME NEW mm, Sound(mm)
  PROVE  Keeps(mm, mm, {}, {})
  BY DEF Keeps

LEMMA KeepsThen ==
  ASSUME NEW a, NEW b, NEW c, NEW k1, NEW p1, NEW k2, NEW p2,
         Keeps(a, b, k1, p1), Keeps(b, c, k2, p2)
  PROVE  Keeps(a, c, k1 \cup k2, p1 \cup p2)
  BY DEF Keeps

(* The fields and their types, one by one.                                  *)
LEMMA FieldTypes ==
  ASSUME NEW mm \in Fields
  PROVE  /\ mm.FrameList \in Seq(Frames) /\ mm.ModalStack \in Seq(Frames)
         /\ mm.FramePos \in Nat
         /\ mm.InsertedFrame \in FrameOrNone /\ mm.DeletedFrame \in FrameOrNone
         /\ mm.ActivatedFrame \in FrameOrNone /\ mm.RefreshedFrame \in FrameOrNone
         /\ mm.DeactivatedFrame \in FrameOrNone /\ mm.ExecutedFrame \in FrameOrNone
         /\ mm.CurrentFrame \in FrameOrNone
         /\ mm.FrameToBack \in [Frames -> FrameOrNone]
         /\ None \in FrameOrNone /\ Frames \subseteq FrameOrNone
  BY DEF Fields, FrameOrNone

(* Steps that set slots, and at most move FramePos inside the list, which   *)
(* they leave alone.                                                        *)
LEMMA SlotsStep ==
  ASSUME NEW mm, Sound(mm), NEW r \in Fields, NEW known,
         r.FrameList = mm.FrameList, r.ModalStack = mm.ModalStack,
         r.FramePos = mm.FramePos \/ r.FramePos = 0 \/ r.FramePos < Len(mm.FrameList),
         r.CurrentFrame \in Known(mm) \cup known \cup {None},
         r.ActivatedFrame \in Known(mm) \cup known \cup {None},
         r.DeletedFrame \in Known(mm) \cup known \cup {None},
         r.InsertedFrame \in {mm.InsertedFrame, None},
         r.ExecutedFrame \in {mm.ExecutedFrame, None},
         r.DeactivatedFrame \in {mm.DeactivatedFrame, None}
  PROVE  Keeps(mm, r, known, {})
  <1>1. Sound(r)
    BY DEF Sound
  <1>2. Known(r) \subseteq Known(mm) \cup known \cup {None}
    BY DEF Known
  <1> QED
    BY <1>1, <1>2 DEF Keeps

LEMMA DeleteFrameKeeps ==
  ASSUME NEW mm, Sound(mm), NEW f \in FrameOrNone
  PROVE  Keeps(mm, DeleteFrame(mm, f), {f}, {})
  <1> DEFINE r == DeleteFrame(mm, f)
  <1>0. mm \in Fields
    BY DEF Sound
  <1>1. r \in Fields
    BY <1>0, FieldTypes DEF DeleteFrame, Fields
  <1>2. /\ r.FrameList = mm.FrameList /\ r.ModalStack = mm.ModalStack
        /\ r.FramePos = mm.FramePos /\ r.CurrentFrame = mm.CurrentFrame
        /\ r.ActivatedFrame = mm.ActivatedFrame
        /\ r.DeletedFrame \in {f, mm.CurrentFrame}
        /\ r.InsertedFrame = mm.InsertedFrame
        /\ r.ExecutedFrame = mm.ExecutedFrame
        /\ r.DeactivatedFrame = mm.DeactivatedFrame
    BY <1>0 DEF DeleteFrame, Fields
  <1> HIDE DEF r
  <1>3. Keeps(mm, r, {f}, {})
    BY <1>1, <1>2, SlotsStep DEF Known
  <1> QED
    BY <1>3 DEF r

LEMMA SetActivatedKeeps ==
  ASSUME NEW mm, Sound(mm), NEW f \in FrameOrNone, NEW known,
         f \in Known(mm) \cup known
  PROVE  Keeps(mm, [mm EXCEPT !.ActivatedFrame = f], known, {})
  <1> DEFINE r == [mm EXCEPT !.ActivatedFrame = f]
  <1>0. mm \in Fields
    BY DEF Sound
  <1>1. r \in Fields
    BY <1>0, FieldTypes DEF Fields
  <1>2. /\ r.FrameList = mm.FrameList /\ r.ModalStack = mm.ModalStack
        /\ r.FramePos = mm.FramePos /\ r.CurrentFrame = mm.CurrentFrame
        /\ r.ActivatedFrame = f
        /\ r.DeletedFrame = mm.DeletedFrame
        /\ r.InsertedFrame = mm.InsertedFrame
        /\ r.ExecutedFrame = mm.ExecutedFrame
        /\ r.DeactivatedFrame = mm.DeactivatedFrame
    BY <1>0 DEF Fields
  <1> HIDE DEF r
  <1>3. Keeps(mm, r, known, {})
    BY <1>1, <1>2, SlotsStep DEF Known
  <1> QED
    BY <1>3 DEF r

LEMMA ActivateFrameKeeps ==
  ASSUME NEW mm, Sound(mm), NEW f
  PROVE  Keeps(mm, ActivateFrame(mm, f), {}, {})
  <1>1. CASE f # None /\ (InList(mm, f) \/ InStack(mm, f)) /\ mm.ActivatedFrame = None
    <2>1. f \in Known(mm) /\ f \in FrameOrNone
      BY <1>1, FieldTypes, SeqFacts DEF Known, InList, InStack, FrameOrNone, Sound
    <2>2. ActivateFrame(mm, f) = [mm EXCEPT !.ActivatedFrame = f]
      BY <1>1 DEF ActivateFrame
    <2> QED
      BY <2>1, <2>2, SetActivatedKeeps
  <1>2. CASE ~(f # None /\ (InList(mm, f) \/ InStack(mm, f)) /\ mm.ActivatedFrame = None)
    <2>1. ActivateFrame(mm, f) = mm
      BY <1>2 DEF ActivateFrame
    <2> QED
      BY <2>1, KeepsSame
  <1> QED
    BY <1>1, <1>2

LEMMA ActivateIndexKeeps ==
  ASSUME NEW mm, Sound(mm), NEW index \in Nat
  PROVE  Keeps(mm, ActivateIndex(mm, index), {}, {})
  <1>1. CASE mm.ActivatedFrame = None /\ index < Len(mm.FrameList)
    <2> DEFINE f == mm.FrameList[index + 1]
    <2>1. /\ mm.FrameList \in Seq(Frames) /\ Len(mm.FrameList) \in Nat
          /\ DOMAIN mm.FrameList = 1 .. Len(mm.FrameList)
      BY FieldTypes, SeqFacts DEF Sound
    <2>2. index + 1 \in DOMAIN mm.FrameList
      BY <1>1, <2>1
    <2>3. f \in InSeq(mm.FrameList) /\ f \in Frames
      BY <2>1, <2>2, SeqFacts DEF InSeq
    <2>4. f \in Known(mm) /\ f \in FrameOrNone
      BY <2>3 DEF Known, FrameOrNone
    <2>5. ActivateIndex(mm, index) = [mm EXCEPT !.ActivatedFrame = f]
      BY <1>1 DEF ActivateIndex
    <2> QED
      BY <2>4, <2>5, SetActivatedKeeps
  <1>2. CASE ~(mm.ActivatedFrame = None /\ index < Len(mm.FrameList))
    <2>1. ActivateIndex(mm, index) = mm
      BY <1>2 DEF ActivateIndex
    <2> QED
      BY <2>1, KeepsSame
  <1> QED
    BY <1>1, <1>2

(* The next index of the list, around its ends.                             *)
LEMMA Around ==
  ASSUME NEW pos \in Nat, NEW n \in Nat, NEW direction \in {-1, 0, 1}, n # 0,
         pos = 0 \/ pos < n
  PROVE  LET next == (pos + direction + n) % n IN next \in Nat /\ next < n
  OBVIOUS

LEMMA DeactivateFrameKeeps ==
  ASSUME NEW mm, Sound(mm), NEW f \in FrameOrNone, NEW direction \in {-1, 0, 1}
  PROVE  LET r == DeactivateFrame(mm, f, direction)
         IN  /\ Sound(r)
             /\ Known(r) \subseteq Known(mm) \cup {None}
             /\ InSeq(r.ModalStack) \subseteq InSeq(mm.ModalStack)
             /\ r.InsertedFrame \in {mm.InsertedFrame, None}
             /\ r.ExecutedFrame \in {mm.ExecutedFrame, None}
             /\ r.DeactivatedFrame = f
  <1> DEFINE n == Len(mm.FrameList)
             pos == (mm.FramePos + direction + n) % n
             m1 == [mm EXCEPT !.FramePos = pos]
             moved == IF direction # 0 /\ n # 0 THEN ActivateIndex(m1, pos) ELSE mm
             r == [moved EXCEPT !.DeactivatedFrame = f]
  <1>0. mm \in Fields /\ n \in Nat
    BY FieldTypes, SeqFacts DEF Sound
  <1>1. Keeps(mm, moved, {}, {})
    <2>1. CASE direction # 0 /\ n # 0
      <3>1. pos \in Nat /\ pos < n
        BY <1>0, <2>1, FieldTypes, Around DEF Sound
      <3> HIDE DEF pos
      <3>2. m1 \in Fields
        BY <1>0, <3>1, FieldTypes DEF Fields
      <3>3. /\ m1.FrameList = mm.FrameList /\ m1.ModalStack = mm.ModalStack
            /\ m1.FramePos = pos /\ m1.CurrentFrame = mm.CurrentFrame
            /\ m1.ActivatedFrame = mm.ActivatedFrame
            /\ m1.DeletedFrame = mm.DeletedFrame
            /\ m1.InsertedFrame = mm.InsertedFrame
            /\ m1.ExecutedFrame = mm.ExecutedFrame
            /\ m1.DeactivatedFrame = mm.DeactivatedFrame
        BY <1>0 DEF Fields
      <3> HIDE DEF m1
      <3>4. Keeps(mm, m1, {}, {})
        BY <3>1, <3>2, <3>3, SlotsStep DEF Known
      <3>5. Keeps(m1, ActivateIndex(m1, pos), {}, {})
        BY <3>1, <3>4, ActivateIndexKeeps DEF Keeps
      <3>6. Keeps(mm, ActivateIndex(m1, pos), {} \cup {}, {} \cup {})
        BY <3>4, <3>5, KeepsThen, Zenon
      <3> QED
        BY <2>1, <3>6
    <2>2. CASE ~(direction # 0 /\ n # 0)
      BY <2>2, KeepsSame
    <2> QED
      BY <2>1, <2>2
  <1>2. DeactivateFrame(mm, f, direction) = r
    BY DEF DeactivateFrame
  <1> HIDE DEF moved
  <1>3. Sound(moved) /\ moved \in Fields
    BY <1>1 DEF Keeps, Sound
  <1>4. r \in Fields
    BY <1>3, FieldTypes DEF Fields
  <1>5. /\ r.FrameList = moved.FrameList /\ r.ModalStack = moved.ModalStack
        /\ r.FramePos = moved.FramePos /\ r.CurrentFrame = moved.CurrentFrame
        /\ r.ActivatedFrame = moved.ActivatedFrame
        /\ r.DeletedFrame = moved.DeletedFrame
        /\ r.InsertedFrame = moved.InsertedFrame
        /\ r.ExecutedFrame = moved.ExecutedFrame
        /\ r.DeactivatedFrame = f
    BY <1>3 DEF Fields
  <1> HIDE DEF r
  <1>6. Sound(r) /\ Known(r) = Known(moved)
    BY <1>3, <1>4, <1>5 DEF Sound, Known
  <1> QED
    BY <1>1, <1>2, <1>5, <1>6 DEF Keeps

LEMMA InsertFrameIs ==
  ASSUME NEW mm, Sound(mm), NEW f \in FrameOrNone
  PROVE  LET r == InsertFrame(mm, f)
         IN  /\ Sound(r) /\ Known(r) = Known(mm)
             /\ r.ModalStack = mm.ModalStack
             /\ r.InsertedFrame = f
             /\ r.ExecutedFrame = mm.ExecutedFrame
             /\ r.DeactivatedFrame = mm.DeactivatedFrame
  <1> DEFINE r == InsertFrame(mm, f)
  <1>0. mm \in Fields
    BY DEF Sound
  <1>1. r \in Fields
    BY <1>0, FieldTypes DEF InsertFrame, Fields
  <1>2. /\ r.FrameList = mm.FrameList /\ r.ModalStack = mm.ModalStack
        /\ r.FramePos = mm.FramePos /\ r.CurrentFrame = mm.CurrentFrame
        /\ r.ActivatedFrame = mm.ActivatedFrame
        /\ r.DeletedFrame = mm.DeletedFrame
        /\ r.InsertedFrame = f
        /\ r.ExecutedFrame = mm.ExecutedFrame
        /\ r.DeactivatedFrame = mm.DeactivatedFrame
    BY <1>0 DEF InsertFrame, Fields
  <1> HIDE DEF r
  <1>3. Sound(r) /\ Known(r) = Known(mm)
    BY <1>1, <1>2 DEF Sound, Known
  <1> QED
    BY <1>2, <1>3 DEF r

LEMMA ExecuteFrameIs ==
  ASSUME NEW mm, Sound(mm), NEW f \in FrameOrNone
  PROVE  LET r == ExecuteFrame(mm, f)
         IN  /\ Sound(r) /\ Known(r) = Known(mm)
             /\ r.ModalStack = mm.ModalStack
             /\ r.InsertedFrame = mm.InsertedFrame
             /\ r.ExecutedFrame = f
             /\ r.DeactivatedFrame = mm.DeactivatedFrame
  <1> DEFINE r == ExecuteFrame(mm, f)
  <1>0. mm \in Fields
    BY DEF Sound
  <1>1. r \in Fields
    BY <1>0, FieldTypes DEF ExecuteFrame, Fields
  <1>2. /\ r.FrameList = mm.FrameList /\ r.ModalStack = mm.ModalStack
        /\ r.FramePos = mm.FramePos /\ r.CurrentFrame = mm.CurrentFrame
        /\ r.ActivatedFrame = mm.ActivatedFrame
        /\ r.DeletedFrame = mm.DeletedFrame
        /\ r.InsertedFrame = mm.InsertedFrame
        /\ r.ExecutedFrame = f
        /\ r.DeactivatedFrame = mm.DeactivatedFrame
    BY <1>0 DEF ExecuteFrame, Fields
  <1> HIDE DEF r
  <1>3. Sound(r) /\ Known(r) = Known(mm)
    BY <1>1, <1>2 DEF Sound, Known
  <1> QED
    BY <1>2, <1>3 DEF r

LEMMA ActivateCommitKeeps ==
  ASSUME NEW mm, Sound(mm), NEW f \in Frames
  PROVE  Keeps(mm, ActivateCommit(mm, f), {f}, {})
  <1> DEFINE r == ActivateCommit(mm, f)
             stack == IF InStack(mm, f) /\ mm.CurrentFrame # f
                      THEN Append(Without(mm.ModalStack, f), f) ELSE mm.ModalStack
             pos == IF InList(mm, f) /\ mm.CurrentFrame # f
                    THEN IndexOf(mm.FrameList, f) - 1 ELSE mm.FramePos
             back == IF InList(mm, f) /\ InList(mm, mm.CurrentFrame)
                        /\ mm.CurrentFrame # f
                     THEN mm.CurrentFrame ELSE mm.FrameToBack[f]
  <1>0. /\ mm \in Fields /\ mm.FrameList \in Seq(Frames) /\ mm.ModalStack \in Seq(Frames)
        /\ Distinct(mm.ModalStack)
        /\ mm.FramePos \in Nat /\ (mm.FramePos = 0 \/ mm.FramePos < Len(mm.FrameList))
    BY FieldTypes DEF Sound
  <1>1. /\ stack \in Seq(Frames) /\ Distinct(stack)
        /\ InSeq(stack) \subseteq InSeq(mm.ModalStack)
    <2>1. CASE InStack(mm, f) /\ mm.CurrentFrame # f
      <3> DEFINE w == Without(mm.ModalStack, f)
      <3>1. /\ w \in Seq(Frames) /\ Distinct(w) /\ f \notin InSeq(w)
            /\ InSeq(w) \subseteq InSeq(mm.ModalStack)
        BY <1>0, WithoutIs
      <3> HIDE DEF w
      <3>2. /\ Append(w, f) \in Seq(Frames) /\ Distinct(Append(w, f))
            /\ InSeq(Append(w, f)) = InSeq(w) \cup {f}
        BY <3>1, AppendIs
      <3>3. stack = Append(w, f)
        BY <2>1 DEF w
      <3>4. f \in InSeq(mm.ModalStack)
        BY <2>1 DEF InStack
      <3> HIDE DEF stack
      <3> QED
        BY <3>1, <3>2, <3>3, <3>4
    <2>2. CASE ~(InStack(mm, f) /\ mm.CurrentFrame # f)
      <3>1. stack = mm.ModalStack
        BY <2>2
      <3> HIDE DEF stack
      <3> QED
        BY <1>0, <3>1
    <2> QED
      BY <2>1, <2>2
  <1>2. pos \in Nat /\ (pos = 0 \/ pos < Len(mm.FrameList))
    <2>1. CASE InList(mm, f) /\ mm.CurrentFrame # f
      <3>1. f \in InSeq(mm.FrameList)
        BY <2>1 DEF InList
      <3>2. /\ IndexOf(mm.FrameList, f) \in 1 .. Len(mm.FrameList)
            /\ Len(mm.FrameList) \in Nat
        BY <1>0, <3>1, IndexOfIs, SeqFacts
      <3>3. pos = IndexOf(mm.FrameList, f) - 1
        BY <2>1
      <3> HIDE DEF pos
      <3> QED
        BY <3>2, <3>3
    <2>2. CASE ~(InList(mm, f) /\ mm.CurrentFrame # f)
      <3>1. pos = mm.FramePos
        BY <2>2
      <3> QED
        BY <1>0, <3>1
    <2> QED
      BY <2>1, <2>2
  <1>3. back \in FrameOrNone
    BY <1>0, FieldTypes
  <1>4. r = [mm EXCEPT !.ActivatedFrame = None, !.RefreshedFrame = f,
                       !.CurrentFrame = f, !.FramePos = pos,
                       !.FrameToBack = [@ EXCEPT ![f] = back],
                       !.ModalStack = stack]
    <2>1. CASE mm.CurrentFrame = f
      <3>1. /\ stack = mm.ModalStack /\ pos = mm.FramePos
            /\ back = mm.FrameToBack[f]
        BY <2>1
      <3>2. r = [mm EXCEPT !.ActivatedFrame = None, !.RefreshedFrame = f]
        BY <2>1 DEF ActivateCommit
      <3> HIDE DEF r, stack, pos, back
      <3>3. [mm.FrameToBack EXCEPT ![f] = back] = mm.FrameToBack
        BY <1>0, <3>1, FieldTypes
      <3> QED
        BY <1>0, <2>1, <3>1, <3>2, <3>3 DEF Fields
    <2>2. CASE mm.CurrentFrame # f
      BY <1>0, <2>2 DEF ActivateCommit, Fields
    <2> QED
      BY <2>1, <2>2
  <1> HIDE DEF r, stack, pos, back
  <1>5. [mm.FrameToBack EXCEPT ![f] = back] \in [Frames -> FrameOrNone]
    BY <1>0, <1>3, FieldTypes
  <1>6. r \in Fields
    BY <1>0, <1>1, <1>2, <1>4, <1>5, FieldTypes DEF Fields
  <1>7. /\ r.FrameList = mm.FrameList /\ r.ModalStack = stack
        /\ r.FramePos = pos /\ r.CurrentFrame = f
        /\ r.ActivatedFrame = None
        /\ r.DeletedFrame = mm.DeletedFrame
        /\ r.InsertedFrame = mm.InsertedFrame
        /\ r.ExecutedFrame = mm.ExecutedFrame
        /\ r.DeactivatedFrame = mm.DeactivatedFrame
    BY <1>0, <1>4 DEF Fields
  <1>8. Sound(r)
    BY <1>1, <1>2, <1>6, <1>7 DEF Sound
  <1>9. Known(r) \subseteq Known(mm) \cup {f} \cup {None}
    BY <1>1, <1>7 DEF Known
  <1>10. Keeps(mm, r, {f}, {})
    BY <1>1, <1>7, <1>8, <1>9 DEF Keeps
  <1> QED
    BY <1>10 DEF r

(* The stack is only touched by deactivating a frame that is on it.         *)
LEMMA DeactivateCommitKeeps ==
  ASSUME NEW mm, Sound(mm), NEW deactivated, NEW activated,
         deactivated \notin InSeq(mm.ModalStack)
  PROVE  Keeps(mm, DeactivateCommit(mm, deactivated, activated), {}, {})
  <1> DEFINE r == DeactivateCommit(mm, deactivated, activated)
  <1>0. mm \in Fields /\ mm.ModalStack \in Seq(Frames)
    BY FieldTypes DEF Sound
  <1>1. mm.ModalStack = <<>> \/ LastOf(mm.ModalStack) # deactivated
    BY <1>0, SeqFacts DEF LastOf, InSeq
  <1>2. r = [mm EXCEPT !.DeactivatedFrame = None]
    BY <1>0, <1>1 DEF DeactivateCommit, Fields
  <1> HIDE DEF r
  <1>3. r \in Fields
    BY <1>0, <1>2, FieldTypes DEF Fields
  <1>4. /\ r.FrameList = mm.FrameList /\ r.ModalStack = mm.ModalStack
        /\ r.FramePos = mm.FramePos /\ r.CurrentFrame = mm.CurrentFrame
        /\ r.ActivatedFrame = mm.ActivatedFrame
        /\ r.DeletedFrame = mm.DeletedFrame
        /\ r.InsertedFrame = mm.InsertedFrame
        /\ r.ExecutedFrame = mm.ExecutedFrame
        /\ r.DeactivatedFrame = None
    BY <1>0, <1>2 DEF Fields
  <1>5. Keeps(mm, r, {}, {})
    BY <1>3, <1>4, SlotsStep DEF Known
  <1> QED
    BY <1>5 DEF r

LEMMA InsertCommitKeeps ==
  ASSUME NEW mm, Sound(mm), NEW f \in Frames,
         f \notin InSeq(mm.FrameList) \cup InSeq(mm.ModalStack)
  PROVE  /\ Keeps(mm, InsertCommit(mm, f), {f}, {})
         /\ InsertCommit(mm, f).InsertedFrame = None
  <1> DEFINE r == InsertCommit(mm, f)
             list == Append(mm.FrameList, f)
             active == IF mm.ActivatedFrame = None THEN f ELSE mm.ActivatedFrame
             backs == [mm.FrameToBack EXCEPT ![f] = mm.CurrentFrame]
  <1>0. mm \in Fields /\ mm.FrameList \in Seq(Frames) /\ Len(mm.FrameList) \in Nat
        /\ mm.FramePos \in Nat
    BY FieldTypes, SeqFacts DEF Sound
  <1>1. /\ list \in Seq(Frames) /\ Len(list) = Len(mm.FrameList) + 1
        /\ InSeq(list) = InSeq(mm.FrameList) \cup {f} /\ Distinct(list)
    BY <1>0, AppendIs DEF Sound
  <1>2. active \in FrameOrNone /\ active \in {f, mm.ActivatedFrame}
    BY <1>0, FieldTypes
  <1>3. backs \in [Frames -> FrameOrNone]
    BY <1>0, FieldTypes
  <1>4. r = [mm EXCEPT !.InsertedFrame = None, !.FrameToBack = backs,
                       !.FrameList = list, !.ActivatedFrame = active]
    BY <1>0 DEF InsertCommit, Fields
  <1> HIDE DEF r, list, active, backs
  <1>5. r \in Fields
    BY <1>0, <1>1, <1>2, <1>3, <1>4, FieldTypes DEF Fields
  <1>6. /\ r.FrameList = list /\ r.ModalStack = mm.ModalStack
        /\ r.FramePos = mm.FramePos /\ r.CurrentFrame = mm.CurrentFrame
        /\ r.ActivatedFrame = active
        /\ r.DeletedFrame = mm.DeletedFrame
        /\ r.InsertedFrame = None
        /\ r.ExecutedFrame = mm.ExecutedFrame
        /\ r.DeactivatedFrame = mm.DeactivatedFrame
    BY <1>0, <1>4 DEF Fields
  <1>7. mm.FramePos = 0 \/ mm.FramePos < Len(mm.FrameList) + 1
    BY <1>0 DEF Sound
  <1>8. Sound(r)
    BY <1>1, <1>5, <1>6, <1>7 DEF Sound
  <1>9. Known(r) \subseteq Known(mm) \cup {f} \cup {None}
    BY <1>1, <1>2, <1>6 DEF Known
  <1>10. Keeps(mm, r, {f}, {}) /\ r.InsertedFrame = None
    BY <1>6, <1>8, <1>9 DEF Keeps
  <1> QED
    BY <1>10 DEF r

LEMMA ExecuteCommitKeeps ==
  ASSUME NEW mm, Sound(mm), NEW f \in Frames,
         f \notin InSeq(mm.FrameList) \cup InSeq(mm.ModalStack)
  PROVE  /\ Keeps(mm, ExecuteCommit(mm, f), {f}, {f})
         /\ ExecuteCommit(mm, f).ExecutedFrame = None
  <1> DEFINE r == ExecuteCommit(mm, f)
             stack == Append(mm.ModalStack, f)
  <1>0. mm \in Fields /\ mm.ModalStack \in Seq(Frames)
    BY FieldTypes, SeqFacts DEF Sound
  <1>1. /\ stack \in Seq(Frames)
        /\ InSeq(stack) = InSeq(mm.ModalStack) \cup {f} /\ Distinct(stack)
    BY <1>0, AppendIs DEF Sound
  <1>4. r = [mm EXCEPT !.ExecutedFrame = None, !.ModalStack = stack,
                       !.ActivatedFrame = f]
    BY <1>0 DEF ExecuteCommit, Fields
  <1> HIDE DEF r, stack
  <1>5. r \in Fields
    BY <1>0, <1>1, <1>4, FieldTypes DEF Fields
  <1>6. /\ r.FrameList = mm.FrameList /\ r.ModalStack = stack
        /\ r.FramePos = mm.FramePos /\ r.CurrentFrame = mm.CurrentFrame
        /\ r.ActivatedFrame = f
        /\ r.DeletedFrame = mm.DeletedFrame
        /\ r.InsertedFrame = mm.InsertedFrame
        /\ r.ExecutedFrame = None
        /\ r.DeactivatedFrame = mm.DeactivatedFrame
    BY <1>0, <1>4 DEF Fields
  <1>8. Sound(r)
    BY <1>1, <1>5, <1>6 DEF Sound
  <1>9. Known(r) \subseteq Known(mm) \cup {f} \cup {None}
    BY <1>1, <1>6 DEF Known
  <1>10. Keeps(mm, r, {f}, {f}) /\ r.ExecutedFrame = None
    BY <1>1, <1>6, <1>8, <1>9 DEF Keeps
  <1> QED
    BY <1>10 DEF r

(* What DeleteCommit() does before the `delete'.                            *)
LEMMA UnlinkKeeps ==
  ASSUME NEW mm, Sound(mm), NEW f
  PROVE  Keeps(mm, Unlink(mm, f), {}, {})
  <1> DEFINE backs == [g \in Frames |-> IF InList(mm, g) /\ mm.FrameToBack[g] = f
                                        THEN Panels ELSE mm.FrameToBack[g]]
             m1 == [mm EXCEPT !.DeletedFrame = None, !.FrameToBack = backs]
             list == Without(mm.FrameList, f)
             pos == IF mm.FramePos >= Len(list) THEN 0 ELSE mm.FramePos
             m2 == [m1 EXCEPT !.FrameList = list, !.FramePos = pos]
  <1>0. /\ mm \in Fields /\ mm.FrameList \in Seq(Frames) /\ mm.FramePos \in Nat
        /\ Distinct(mm.FrameList)
    BY FieldTypes DEF Sound
  <1>1. backs \in [Frames -> FrameOrNone]
    BY <1>0, FieldTypes, FramesAssumption
  <1>2. /\ list \in Seq(Frames) /\ Distinct(list)
        /\ InSeq(list) \subseteq InSeq(mm.FrameList) /\ Len(list) \in Nat
    BY <1>0, WithoutIs, SeqFacts
  <1>3. Unlink(mm, f) = IF ~InList(mm, f) THEN m1
                        ELSE IF m2.FrameToBack[f] # Panels
                        THEN ActivateFrame(m2, m2.FrameToBack[f])
                        ELSE IF list # <<>> THEN ActivateFrame(m2, list[pos + 1])
                        ELSE m2
    <2>1. m1 = [mm EXCEPT !.DeletedFrame = None,
                 !.FrameToBack = [g \in Frames |->
                     IF InList(mm, g) /\ @[g] = f THEN Panels ELSE @[g]]]
      BY <1>0 DEF Fields
    <2> QED
      BY <2>1 DEF Unlink
  <1> HIDE DEF backs, list
  <1>4. pos \in Nat /\ (pos = 0 \/ pos < Len(list))
    BY <1>0, <1>2
  <1> HIDE DEF pos
  <1>5. m1 \in Fields
    BY <1>0, <1>1, FieldTypes DEF Fields
  <1>6. /\ m1.FrameList = mm.FrameList /\ m1.ModalStack = mm.ModalStack
        /\ m1.FramePos = mm.FramePos /\ m1.CurrentFrame = mm.CurrentFrame
        /\ m1.ActivatedFrame = mm.ActivatedFrame
        /\ m1.DeletedFrame = None
        /\ m1.InsertedFrame = mm.InsertedFrame
        /\ m1.ExecutedFrame = mm.ExecutedFrame
        /\ m1.DeactivatedFrame = mm.DeactivatedFrame
    BY <1>0 DEF Fields
  <1> HIDE DEF m1
  <1>7. Keeps(mm, m1, {}, {})
    BY <1>5, <1>6, SlotsStep DEF Known
  <1>8. m2 \in Fields
    BY <1>2, <1>4, <1>5, FieldTypes DEF Fields
  <1>9. /\ m2.FrameList = list /\ m2.ModalStack = mm.ModalStack
        /\ m2.FramePos = pos /\ m2.CurrentFrame = mm.CurrentFrame
        /\ m2.ActivatedFrame = mm.ActivatedFrame
        /\ m2.DeletedFrame = None
        /\ m2.InsertedFrame = mm.InsertedFrame
        /\ m2.ExecutedFrame = mm.ExecutedFrame
        /\ m2.DeactivatedFrame = mm.DeactivatedFrame
    BY <1>5, <1>6 DEF Fields
  <1> HIDE DEF m2
  <1>10. Sound(m2)
    BY <1>2, <1>4, <1>8, <1>9 DEF Sound
  <1>11. Known(m2) \subseteq Known(mm) \cup {None}
    BY <1>2, <1>9 DEF Known
  <1>12. Keeps(mm, m2, {}, {})
    BY <1>9, <1>10, <1>11 DEF Keeps
  <1>13. ASSUME NEW g
         PROVE  Keeps(mm, ActivateFrame(m2, g), {}, {})
    <2>1. Keeps(m2, ActivateFrame(m2, g), {}, {})
      BY <1>10, ActivateFrameKeeps
    <2>2. Keeps(mm, ActivateFrame(m2, g), {} \cup {}, {} \cup {})
      BY <1>12, <2>1, KeepsThen, Zenon
    <2> QED
      BY <2>2
  <1> QED
    BY <1>3, <1>7, <1>12, <1>13

(* What it does after the `delete'.                                         *)
LEMMA PopKeeps ==
  ASSUME NEW mm, Sound(mm), NEW f, NEW listed
  PROVE  Keeps(mm, Pop(mm, f, listed), {}, {})
  <1> DEFINE stack == Without(mm.ModalStack, f)
             m1 == [mm EXCEPT !.ModalStack = stack]
  <1>0. /\ mm \in Fields /\ mm.ModalStack \in Seq(Frames) /\ mm.FrameList \in Seq(Frames)
        /\ mm.FramePos \in Nat /\ Distinct(mm.ModalStack)
    BY FieldTypes DEF Sound
  <1>1. /\ stack \in Seq(Frames) /\ Distinct(stack)
        /\ InSeq(stack) \subseteq InSeq(mm.ModalStack)
    BY <1>0, WithoutIs
  <1>2. Pop(mm, f, listed) =
          IF listed \/ ~InStack(mm, f) THEN mm
          ELSE IF m1.ModalStack # <<>> THEN ActivateCommit(m1, LastOf(m1.ModalStack))
          ELSE IF m1.FrameList # <<>>
               THEN ActivateCommit(m1, m1.FrameList[m1.FramePos + 1])
          ELSE m1
    BY DEF Pop
  <1> HIDE DEF stack
  <1>3. m1 \in Fields
    BY <1>0, <1>1, FieldTypes DEF Fields
  <1>4. /\ m1.FrameList = mm.FrameList /\ m1.ModalStack = stack
        /\ m1.FramePos = mm.FramePos /\ m1.CurrentFrame = mm.CurrentFrame
        /\ m1.ActivatedFrame = mm.ActivatedFrame
        /\ m1.DeletedFrame = mm.DeletedFrame
        /\ m1.InsertedFrame = mm.InsertedFrame
        /\ m1.ExecutedFrame = mm.ExecutedFrame
        /\ m1.DeactivatedFrame = mm.DeactivatedFrame
    BY <1>0 DEF Fields
  <1> HIDE DEF m1
  <1>5. Sound(m1) /\ Known(m1) \subseteq Known(mm)
    BY <1>1, <1>3, <1>4 DEF Sound, Known
  <1>6. Keeps(mm, m1, {}, {})
    BY <1>1, <1>4, <1>5 DEF Keeps
  <1>7. ASSUME NEW g \in Frames, g \in Known(mm)
        PROVE  Keeps(mm, ActivateCommit(m1, g), {}, {})
    <2>1. Keeps(m1, ActivateCommit(m1, g), {g}, {})
      BY <1>5, ActivateCommitKeeps
    <2> HIDE DEF Known
    <2>2. Known(ActivateCommit(m1, g)) \subseteq Known(mm) \cup {None}
      BY <1>5, <1>7, <2>1 DEF Keeps
    <2> QED
      BY <1>1, <1>4, <2>1, <2>2 DEF Keeps
  <1>8. ASSUME stack # <<>>
        PROVE  LastOf(stack) \in Frames /\ LastOf(stack) \in Known(mm)
    BY <1>1, <1>8, SeqFacts DEF LastOf, InSeq, Known
  <1>9. ASSUME mm.FrameList # <<>>
        PROVE  LET g == mm.FrameList[mm.FramePos + 1]
               IN  g \in Frames /\ g \in Known(mm)
    <2>1. /\ Len(mm.FrameList) \in Nat /\ Len(mm.FrameList) > 0
          /\ DOMAIN mm.FrameList = 1 .. Len(mm.FrameList)
      BY <1>0, <1>9, SeqFacts
    <2>2. mm.FramePos + 1 \in DOMAIN mm.FrameList
      BY <1>0, <2>1 DEF Sound
    <2> QED
      BY <1>0, <2>2, SeqFacts DEF InSeq, Known
  <1>10. CASE listed \/ ~InStack(mm, f)
    BY <1>2, <1>10, KeepsSame
  <1>11. CASE ~(listed \/ ~InStack(mm, f)) /\ stack # <<>>
    <2>1. Pop(mm, f, listed) = ActivateCommit(m1, LastOf(stack))
      BY <1>2, <1>4, <1>11
    <2> QED
      BY <1>7, <1>8, <1>11, <2>1
  <1>12. CASE ~(listed \/ ~InStack(mm, f)) /\ stack = <<>> /\ mm.FrameList # <<>>
    <2>1. Pop(mm, f, listed) = ActivateCommit(m1, mm.FrameList[mm.FramePos + 1])
      BY <1>2, <1>4, <1>12
    <2> QED
      BY <1>7, <1>9, <1>12, <2>1
  <1>13. CASE ~(listed \/ ~InStack(mm, f)) /\ stack = <<>> /\ mm.FrameList = <<>>
    BY <1>2, <1>4, <1>6, <1>13
  <1> QED
    BY <1>10, <1>11, <1>12, <1>13

LEMMA ThenExecuteKeeps ==
  ASSUME NEW mm, Sound(mm), NEW f \in FrameOrNone,
         f \notin InSeq(mm.FrameList) \cup InSeq(mm.ModalStack)
  PROVE  Keeps(mm, ThenExecute(mm, f), {f}, {f})
  <1>1. CASE f = None
    <2>1. ThenExecute(mm, f) = mm
      BY <1>1 DEF ThenExecute
    <2> QED
      BY <2>1 DEF Keeps
  <1>2. CASE f # None
    <2>1. ThenExecute(mm, f) = ExecuteCommit(mm, f) /\ f \in Frames
      BY <1>2 DEF ThenExecute, FrameOrNone
    <2> QED
      BY <2>1, ExecuteCommitKeeps
  <1> QED
    BY <1>1, <1>2

(* The end of DeleteCommit(), and the ExecuteCommit() that follows it.      *)
LEMMA PopThenExecuteKeeps ==
  ASSUME NEW mm, Sound(mm), NEW f, NEW listed, NEW then \in FrameOrNone,
         then \notin InSeq(mm.FrameList) \cup InSeq(mm.ModalStack),
         then \notin Known(mm) \/ then = None
  PROVE  Keeps(mm, ThenExecute(Pop(mm, f, listed), then), {then}, {then})
  <1> DEFINE p == Pop(mm, f, listed)
  <1>1. Keeps(mm, p, {}, {})
    BY PopKeeps
  <1> HIDE DEF p
  <1>2. Sound(p)
    BY <1>1 DEF Keeps
  <1>3. then \notin InSeq(p.FrameList) \cup InSeq(p.ModalStack)
    <2>1. CASE then = None
      <3>1. p \in Fields
        BY <1>2 DEF Sound
      <3>2. p.FrameList \in Seq(Frames) /\ p.ModalStack \in Seq(Frames)
        BY <3>1, FieldTypes
      <3> QED
        BY <2>1, <3>2, SeqFacts, FramesAssumption
    <2>2. CASE then # None
      BY <1>1, <2>2 DEF Keeps, Known
    <2> QED
      BY <2>1, <2>2
  <1>4. Keeps(p, ThenExecute(p, then), {then}, {then})
    BY <1>2, <1>3, ThenExecuteKeeps
  <1>5. Keeps(mm, ThenExecute(p, then), {} \cup {then}, {} \cup {then})
    BY <1>1, <1>4, KeepsThen, Zenon
  <1> QED
    BY <1>5 DEF p

-----------------------------------------------------------------------------
(* What a step of the program does to the invariant, from what it does to   *)
(* the fields, to the call stack and to the kinds of the frames.            *)

(* A name used for a new frame is in none of the manager's places.          *)
LEMMA FreshIsNew ==
  ASSUME IInv, NEW w \in Frames, Fresh(w)
  PROVE  /\ w # None /\ w \notin Known(m) \cup Busy \cup Pending
         /\ w # m.DeactivatedFrame
         /\ \A k \in CallsAt({"modal"}) : calls[k].frame # w
  <1>1. w # None /\ w \notin Known(m) /\ w # m.DeactivatedFrame /\ w # m.InsertedFrame
    BY FramesAssumption DEF Fresh, Referenced, Slots, Known
  <1>2. w \notin ToStack
    BY DEF IInv, StackKeepsFocus, Fresh
  <1>3. w \notin Pending
    BY <1>1, <1>2 DEF Pending
  <1>4. w \notin Busy /\ \A k \in CallsAt({"modal"}) : calls[k].frame # w
    BY DEF Fresh, Referenced, Busy, CallsAt
  <1> QED
    BY <1>1, <1>3, <1>4

SameCall(c, d) ==
    /\ d.at = c.at
    /\ c.at \in {"handler", "destroy", "modal"} => d.frame = c.frame
    /\ c.at = "destroy" => d.then = c.then

(* The first n calls stay.  What is new runs in frames that are not         *)
(* pending; at most one destructor is new, the first of the new calls; what *)
(* it is to make room for is the frame to be executed.                      *)
CallsStep(n, W) ==
    /\ n <= Len(calls) /\ n <= Len(calls')
    /\ \A k \in 1 .. n : SameCall(calls[k], calls'[k])
    /\ \A k \in n + 1 .. Len(calls') :
          /\ calls'[k].at \in {"handler", "destroy"} =>
                calls'[k].frame \notin Pending \cup W
          /\ calls'[k].at = "destroy" =>
                /\ k = n + 1
                /\ calls'[k].then # None =>
                      calls'[k].then = m.ExecutedFrame /\ m'.ExecutedFrame = None
          /\ calls'[k].at = "modal" =>
                /\ calls'[k].frame \in W
                /\ k = Len(calls') - 1
                /\ calls'[Len(calls')].at = "commit"
                /\ calls'[n + 1].at # "destroy"

CallsTyped ==
    /\ calls \in Seq(CallTypes) /\ calls # <<>>
    /\ MainIsAtTheBottom

(* Only new frames become pending.                                          *)
SlotsMove(W) ==
    /\ m'.InsertedFrame \in {m.InsertedFrame, None} \cup W
    /\ m'.ExecutedFrame \in {m.ExecutedFrame, None} \cup W

(* The frames of X become known.                                            *)
FieldsStep(W, X) ==
    /\ m'.InsertedFrame = m'.ExecutedFrame => m'.InsertedFrame \notin W
    /\ Top.at = "commit" => m'.ExecutedFrame = None
    /\ InSeq(m'.ModalStack) \subseteq InSeq(m.ModalStack) \cup ToStack
    /\ m'.DeactivatedFrame \in {m.DeactivatedFrame, None}
       \/ kind'[m'.DeactivatedFrame] \in {"panels", "window"}
    /\ Known(m)' \subseteq Known(m) \cup X \cup {None}
    /\ X \cap Pending' = {}

(* What is on the stack or on the way to it remains what it is, or is gone  *)
(* when its modal loop is over.                                             *)
ModalKinds == {"dialog", "viewer", "editor"}
KindStep ==
    /\ kind' \in [Frames -> Kinds]
    /\ \A f \in ToStack' : (kind'[f] = kind[f] /\ f \in ToStack) \/ kind'[f] \in ModalKinds
    /\ \A f \in InSeq(m'.ModalStack) :
          kind'[f] = kind[f] \/ kind'[f] \in ModalKinds \cup {"none"}

LEMMA PendingStep ==
  ASSUME IInv, CallsTyped', NEW n \in Nat, NEW W \in SUBSET Frames,
         CallsStep(n, W), SlotsMove(W)
  PROVE  /\ \A f \in Thens' : \/ f \in Thens
                             \/ (f # None /\ f = m.ExecutedFrame /\ m'.ExecutedFrame = None)
         /\ Thens' \subseteq ToStack
         /\ ToStack' \subseteq ToStack \cup W
         /\ Pending' \subseteq Pending \cup W
  <1>1. /\ calls \in Seq(CallTypes) /\ calls' \in Seq(CallTypes)
        /\ Len(calls) \in Nat /\ Len(calls') \in Nat
        /\ DOMAIN calls = 1 .. Len(calls) /\ DOMAIN calls' = 1 .. Len(calls')
    BY LenProperties DEF IInv, TypeOK, CallsTyped
  <1>2. /\ \A k \in DOMAIN calls' : k \in 1 .. n \/ k \in n + 1 .. Len(calls')
        /\ 1 .. n \subseteq DOMAIN calls
        /\ \A k \in 1 .. n, j \in n + 1 .. Len(calls') : k < j
    <2> DEFINE old == Len(calls)
               new == Len(calls')
    <2>1. n <= old /\ n <= new /\ old \in Nat /\ new \in Nat
      BY <1>1, Zenon DEF CallsStep
    <2>2. DOMAIN calls = 1 .. old /\ DOMAIN calls' = 1 .. new
      BY <1>1
    <2> HIDE DEF old, new
    <2>3. /\ \A k \in 1 .. new : k \in 1 .. n \/ k \in n + 1 .. new
          /\ 1 .. n \subseteq 1 .. old
          /\ \A k \in 1 .. n, j \in n + 1 .. new : k < j
      BY <2>1
    <2> QED
      BY <2>2, <2>3 DEF new
  <1>3. \A k \in 1 .. n : SameCall(calls[k], calls'[k])
    BY DEF CallsStep
  <1>5. ASSUME NEW f \in Thens'
        PROVE  f \in Thens \/ (f # None /\ f = m.ExecutedFrame /\ m'.ExecutedFrame = None)
    <2>1. PICK k \in DOMAIN calls' : calls'[k].at = "destroy" /\ calls'[k].then = f
      BY <1>5 DEF Thens, CallsAt
    <2>2. f # None
      BY <1>5 DEF Thens
    <2>3. CASE k \in 1 .. n
      BY <1>2, <1>3, <2>1, <2>2, <2>3 DEF SameCall, Thens, CallsAt
    <2>4. CASE k \in n + 1 .. Len(calls')
      BY <2>1, <2>2, <2>4 DEF CallsStep
    <2> QED
      BY <1>2, <2>3, <2>4
  <1>6. Thens' \subseteq ToStack /\ ToStack' \subseteq ToStack \cup W
    <2>1. Thens' \subseteq ToStack
      BY <1>5 DEF ToStack
    <2>2. {m'.ExecutedFrame} \ {None} \subseteq ToStack \cup W
      BY DEF SlotsMove, ToStack
    <2> QED
      BY <2>1, <2>2 DEF ToStack
  <1>7. Pending' \subseteq Pending \cup W
    BY <1>6 DEF Pending, SlotsMove
  <1> QED
    BY <1>5, <1>6, <1>7

LEMMA StepKeeps ==
  ASSUME IInv, Sound(m'), CallsTyped', endLoop' \in BOOLEAN, shown' \in FrameOrNone,
         closing' \subseteq Frames,
         NEW n \in Nat, NEW W \in SUBSET Frames, NEW X,
         \A w \in W : Fresh(w),
         CallsStep(n, W), SlotsMove(W), FieldsStep(W, X), KindStep
  PROVE  IInv'
  <1>1. /\ calls \in Seq(CallTypes) /\ calls' \in Seq(CallTypes)
        /\ Len(calls) \in Nat /\ Len(calls') \in Nat
        /\ DOMAIN calls = 1 .. Len(calls) /\ DOMAIN calls' = 1 .. Len(calls')
    BY LenProperties DEF IInv, TypeOK, CallsTyped
  <1>2. /\ \A k \in DOMAIN calls' : k \in 1 .. n \/ k \in n + 1 .. Len(calls')
        /\ 1 .. n \subseteq DOMAIN calls
        /\ \A k \in 1 .. n, j \in n + 1 .. Len(calls') : k < j
    <2> DEFINE old == Len(calls)
               new == Len(calls')
    <2>1. n <= old /\ n <= new /\ old \in Nat /\ new \in Nat
      BY <1>1, Zenon DEF CallsStep
    <2>2. DOMAIN calls = 1 .. old /\ DOMAIN calls' = 1 .. new
      BY <1>1
    <2> HIDE DEF old, new
    <2>3. /\ \A k \in 1 .. new : k \in 1 .. n \/ k \in n + 1 .. new
          /\ 1 .. n \subseteq 1 .. old
          /\ \A k \in 1 .. n, j \in n + 1 .. new : k < j
      BY <2>1
    <2> QED
      BY <2>2, <2>3 DEF new
  <1>3. \A k \in 1 .. n : SameCall(calls[k], calls'[k])
    BY DEF CallsStep
  <1>4. \A w \in W : w # None /\ w \notin Known(m) \cup Busy \cup Pending
    BY FreshIsNew
  <1>5. \A f \in Thens' : \/ f \in Thens
                        \/ (f # None /\ f = m.ExecutedFrame /\ m'.ExecutedFrame = None)
    BY PendingStep
  <1>6. Thens' \subseteq ToStack /\ ToStack' \subseteq ToStack \cup W
    BY PendingStep
  <1>7. Pending' \subseteq Pending \cup W
    BY PendingStep
  <1>0. TypeOK' /\ MainIsAtTheBottom'
    BY DEF Sound, CallsTyped, KindStep, TypeOK
  <1>8. NoFrameTwice'
    BY DEF Sound, Distinct, NoFrameTwice
  <1>9. PendingIsUnknown'
    <2>1. ASSUME NEW f \in Busy' PROVE f \notin Pending'
      <3>1. PICK k \in DOMAIN calls' : /\ calls'[k].at \in {"handler", "destroy"}
                                       /\ calls'[k].frame = f
        BY <2>1 DEF Busy, CallsAt
      <3>2. CASE k \in 1 .. n
        <4>1. f \in Busy
          BY <1>2, <1>3, <3>1, <3>2 DEF SameCall, Busy, CallsAt
        <4> QED
          BY <1>4, <1>7, <4>1 DEF IInv, PendingIsUnknown
      <3>3. CASE k \in n + 1 .. Len(calls')
        BY <1>7, <3>1, <3>3 DEF CallsStep
      <3> QED
        BY <1>2, <3>2, <3>3
    <2>2. None \notin Pending'
      BY DEF Pending, ToStack, Thens
    <2>3. Known(m)' \cap Pending' = {}
      BY <1>4, <1>7, <2>2 DEF FieldsStep, IInv, PendingIsUnknown
    <2> QED
      BY <2>1, <2>3 DEF PendingIsUnknown
  <1>10. PendingOnce'
    <2>1. m'.InsertedFrame \notin ToStack'
      <3>1. None \notin ToStack'
        BY DEF ToStack, Thens
      <3>2. CASE m'.InsertedFrame \in W
        <4>1. m'.InsertedFrame \notin Thens'
          BY <1>4, <1>6, <3>2 DEF Pending
        <4>2. m'.InsertedFrame # m'.ExecutedFrame
          BY <3>2 DEF FieldsStep
        <4> QED
          BY <4>1, <4>2 DEF ToStack
      <3>3. CASE m'.InsertedFrame = m.InsertedFrame /\ m.InsertedFrame # None
        <4>1. m.InsertedFrame \in Pending /\ m.InsertedFrame \notin ToStack
          BY <3>3 DEF Pending, IInv, PendingOnce
        <4> QED
          BY <1>4, <1>6, <3>3, <4>1
      <3> QED
        BY <3>1, <3>2, <3>3 DEF SlotsMove
    <2>2. m'.ExecutedFrame \notin Thens'
      <3>1. None \notin Thens'
        BY DEF Thens
      <3>2. CASE m'.ExecutedFrame \in W
        BY <1>4, <1>6, <3>2 DEF Pending
      <3>3. CASE m'.ExecutedFrame = m.ExecutedFrame /\ m.ExecutedFrame # None
        BY <1>5, <3>3 DEF IInv, PendingOnce
      <3> QED
        BY <3>1, <3>2, <3>3 DEF SlotsMove
    <2>3. ASSUME NEW j \in CallsAt({"destroy"})', NEW k \in CallsAt({"destroy"})',
                 calls'[j].then = calls'[k].then, calls'[j].then # None
          PROVE  j = k
      <3>1. /\ j \in DOMAIN calls' /\ k \in DOMAIN calls'
            /\ calls'[j].at = "destroy" /\ calls'[k].at = "destroy"
        BY DEF CallsAt
      <3>2. ASSUME NEW i \in 1 .. n, calls'[i].at = "destroy", calls'[i].then # None
            PROVE  /\ i \in CallsAt({"destroy"}) /\ calls[i].then = calls'[i].then
                   /\ calls'[i].then # m.ExecutedFrame
        <4>1. i \in CallsAt({"destroy"}) /\ calls[i].then = calls'[i].then
          BY <1>2, <1>3, <3>2 DEF SameCall, CallsAt
        <4>2. calls'[i].then \in Thens
          BY <3>2, <4>1 DEF Thens
        <4> QED
          BY <4>1, <4>2 DEF IInv, PendingOnce
      <3>3. ASSUME NEW i \in n + 1 .. Len(calls'), calls'[i].at = "destroy",
                   calls'[i].then # None
            PROVE  i = n + 1 /\ calls'[i].then = m.ExecutedFrame
        BY <3>3 DEF CallsStep
      <3>4. CASE j \in 1 .. n /\ k \in 1 .. n
        BY <2>3, <3>1, <3>2, <3>4 DEF IInv, PendingOnce
      <3>5. CASE j \in n + 1 .. Len(calls') /\ k \in n + 1 .. Len(calls')
        BY <2>3, <3>1, <3>3, <3>5
      <3>6. CASE j \in 1 .. n /\ k \in n + 1 .. Len(calls')
        BY <2>3, <3>1, <3>2, <3>3, <3>6
      <3>7. CASE k \in 1 .. n /\ j \in n + 1 .. Len(calls')
        BY <2>3, <3>1, <3>2, <3>3, <3>7
      <3> QED
        BY <1>2, <3>1, <3>4, <3>5, <3>6, <3>7
    <2> QED
      BY <2>1, <2>2, <2>3 DEF PendingOnce
  <1>11. StackKeepsFocus'
    <2>1. \A f \in ToStack' : kind'[f] # "none"
      BY DEF IInv, StackKeepsFocus, KindStep, ModalKinds
    <2>2. \A f \in ToStack' : kind'[f] \notin {"panels", "window"}
      BY DEF IInv, StackKeepsFocus, KindStep, ModalKinds, CanLoseFocus
    <2>3. \A f \in InSeq(m'.ModalStack) : kind'[f] \notin {"panels", "window"}
      BY DEF IInv, StackKeepsFocus, KindStep, ModalKinds, CanLoseFocus, FieldsStep
    <2>4. m'.DeactivatedFrame \notin InSeq(m'.ModalStack) \cup ToStack'
      <3>1. None \notin ToStack' /\ None \notin InSeq(m'.ModalStack)
        <4>1. m'.ModalStack \in Seq(Frames)
          BY FieldTypes DEF Sound
        <4> QED
          BY <4>1, SeqFacts, FramesAssumption DEF ToStack, Thens
      <3>2. m.DeactivatedFrame \notin W
        BY FreshIsNew
      <3>3. m.DeactivatedFrame \notin InSeq(m.ModalStack) \cup ToStack
        BY DEF IInv, StackKeepsFocus
      <3>4. m.DeactivatedFrame \notin InSeq(m'.ModalStack) \cup ToStack'
        BY <1>6, <3>2, <3>3 DEF FieldsStep
      <3> QED
        BY <2>2, <2>3, <3>1, <3>4 DEF FieldsStep
    <2> QED
      BY <2>1, <2>2, <2>3, <2>4 DEF StackKeepsFocus, CanLoseFocus
  <1>12. ModalIsExecuted'
    <2> SUFFICES ASSUME NEW j \in CallsAt({"modal"})'
                 PROVE  /\ \A k \in CallsAt({"destroy"})' :
                              k < j => calls'[k].then # calls'[j].frame
                        /\ calls'[j].frame = m'.ExecutedFrame =>
                              j = Len(calls') - 1 /\ Top'.at = "commit"
      BY DEF ModalIsExecuted
    <2>1. j \in DOMAIN calls' /\ calls'[j].at = "modal"
      BY DEF CallsAt
    <2>2. CASE j \in 1 .. n
      <3>1. j \in CallsAt({"modal"}) /\ calls[j].frame = calls'[j].frame
        BY <1>2, <1>3, <2>1, <2>2 DEF SameCall, CallsAt
      <3>2. ASSUME NEW k \in CallsAt({"destroy"})', k < j
            PROVE  calls'[k].then # calls'[j].frame
        <4>1. k \in 1 .. n
          BY <1>1, <1>2, <2>1, <2>2, <3>2 DEF CallsAt
        <4>2. k \in CallsAt({"destroy"}) /\ calls[k].then = calls'[k].then
          BY <1>2, <1>3, <4>1 DEF SameCall, CallsAt
        <4> QED
          BY <3>1, <3>2, <4>2 DEF IInv, ModalIsExecuted
      <3>3. calls[j].frame \notin W
        BY <3>1, FreshIsNew
      <3>4. calls[j].frame # None
        BY <1>1, <3>1, FramesAssumption DEF CallsAt, CallTypes
      <3>5. calls[j].frame # m'.ExecutedFrame
        <4>1. SUFFICES ASSUME calls[j].frame = m'.ExecutedFrame
                       PROVE  FALSE
          OBVIOUS
        <4>2. m'.ExecutedFrame = m.ExecutedFrame
          BY <3>3, <3>4, <4>1 DEF SlotsMove
        <4>3. Top.at = "commit"
          BY <3>1, <4>1, <4>2 DEF IInv, ModalIsExecuted
        <4> QED
          BY <3>4, <4>1, <4>3 DEF FieldsStep
      <3> QED
        BY <3>1, <3>2, <3>5
    <2>3. CASE j \in n + 1 .. Len(calls')
      <3>1. /\ calls'[j].frame \in W /\ j = Len(calls') - 1
            /\ calls'[Len(calls')].at = "commit" /\ calls'[n + 1].at # "destroy"
        BY <2>1, <2>3 DEF CallsStep
      <3>2. ASSUME NEW k \in CallsAt({"destroy"})', k < j
            PROVE  calls'[k].then # calls'[j].frame
        <4>1. k \in DOMAIN calls' /\ calls'[k].at = "destroy"
          BY DEF CallsAt
        <4>2. k \notin n + 1 .. Len(calls')
          BY <3>1, <4>1 DEF CallsStep
        <4>3. calls'[k].then \in Thens' \/ calls'[k].then = None
          BY DEF Thens
        <4> QED
          BY <1>4, <1>6, <3>1, <4>3 DEF Pending
      <3>3. Top'.at = "commit"
        BY <3>1 DEF Top
      <3> QED
        BY <3>1, <3>2, <3>3
    <2> QED
      BY <1>2, <2>1, <2>2, <2>3
  <1> QED
    BY <1>0, <1>8, <1>9, <1>10, <1>11, <1>12 DEF IInv

-----------------------------------------------------------------------------
(* The call stack. *)

LEMMA CallKinds ==
  ASSUME NEW c \in CallTypes
  PROVE  /\ c.at \in {"main", "modal", "nonmodal", "commit", "handler", "destroy",
                      "closeall", "exited"}
         /\ c.at = "main" => c \in [at : {"main"}, phase : Phases]
         /\ c.at = "modal" => c \in [at : {"modal"}, phase : Phases, frame : Frames,
                                     level : Nat, ev : BOOLEAN]
         /\ c.at = "nonmodal" => c \in [at : {"nonmodal"}, phase : Phases, frame : Frames]
         /\ c.at = "commit" => c \in [at : {"commit"}, count : {0, 1}]
         /\ c.at = "handler" => c \in [at : {"handler"}, frame : Frames, ops : Nat,
                                       began : BOOLEAN]
         /\ c.at = "destroy" => c \in [at : {"destroy"}, frame : Frames, ops : Nat,
                                       began : BOOLEAN, listed : BOOLEAN,
                                       then : FrameOrNone]
  BY DEF CallTypes

LEMMA TopIs ==
  ASSUME CallsTyped
  PROVE  /\ Len(calls) \in Nat /\ Len(calls) > 0 /\ DOMAIN calls = 1 .. Len(calls)
         /\ Len(calls) \in DOMAIN calls /\ Top = calls[Len(calls)] /\ Top \in CallTypes
         /\ Rest \in Seq(CallTypes) /\ Len(Rest) = Len(calls) - 1
         /\ \A k \in 1 .. Len(calls) - 1 : Rest[k] = calls[k]
         /\ Top.at \notin {"main", "closeall", "exited"} => Len(calls) > 1
  <1>1. /\ calls \in Seq(CallTypes) /\ calls # <<>>
        /\ Len(calls) \in Nat /\ Len(calls) > 0 /\ DOMAIN calls = 1 .. Len(calls)
        /\ Len(calls) \in DOMAIN calls /\ calls[Len(calls)] \in CallTypes
    BY SeqFacts DEF CallsTyped
  <1>2. Len(calls) = 1 => Top.at \in {"main", "closeall", "exited"}
    BY DEF CallsTyped, MainIsAtTheBottom, Top
  <1>3. /\ Rest \in Seq(CallTypes) /\ Len(Rest) = Len(calls) - 1
        /\ \A k \in 1 .. Len(calls) - 1 : Rest[k] = calls[k]
    <2>1. 1 \in 1 .. Len(calls) + 1 /\ Len(calls) - 1 \in 1 - 1 .. Len(calls)
      BY <1>1
    <2>2. /\ Rest \in Seq(CallTypes)
          /\ Len(Rest) = IF 1 <= Len(calls) - 1 THEN (Len(calls) - 1) - 1 + 1 ELSE 0
          /\ \A k \in 1 .. (Len(calls) - 1) - 1 + 1 : Rest[k] = calls[1 + k - 1]
      BY <1>1, <2>1, SubSeqProperties DEF Rest
    <2>3. Len(Rest) = Len(calls) - 1
      <3> DEFINE n == Len(calls)
                 l == Len(Rest)
      <3>1. n \in Nat /\ n > 0 /\ l = IF 1 <= n - 1 THEN (n - 1) - 1 + 1 ELSE 0
        BY <1>1, <2>2, Zenon
      <3> HIDE DEF n, l
      <3>2. l = n - 1
        BY <3>1
      <3> QED
        BY <3>2 DEF n, l
    <2>4. ASSUME NEW k \in 1 .. Len(calls) - 1
          PROVE  Rest[k] = calls[k]
      <3>1. k \in 1 .. (Len(calls) - 1) - 1 + 1 /\ 1 + k - 1 = k
        BY <1>1
      <3> QED
        BY <2>2, <3>1
    <2> QED
      BY <2>2, <2>3, <2>4
  <1> QED
    BY <1>1, <1>2, <1>3 DEF Top

(* Something returns.                                                       *)
LEMMA CallsRest ==
  ASSUME CallsTyped, Top.at \notin {"main", "closeall", "exited"}, calls' = Rest, NEW W
  PROVE  /\ CallsTyped' /\ Len(calls) - 1 \in Nat
         /\ CallsStep(Len(calls) - 1, W)
  <1>1. /\ Len(calls) \in Nat /\ Len(calls) > 1
        /\ calls' \in Seq(CallTypes) /\ Len(calls') = Len(calls) - 1
        /\ \A k \in 1 .. Len(calls) - 1 : calls'[k] = calls[k]
    BY TopIs, Zenon
  <1>2. calls' # <<>> /\ calls'[1] = calls[1]
    BY <1>1
  <1>3. CallsTyped'
    BY <1>1, <1>2 DEF CallsTyped, MainIsAtTheBottom
  <1>4. CallsStep(Len(calls) - 1, W)
    <2>1. Len(calls) - 1 <= Len(calls) /\ Len(calls) - 1 <= Len(calls')
      BY <1>1
    <2>2. (Len(calls) - 1) + 1 .. Len(calls') = {}
      BY <1>1
    <2>3. \A k \in 1 .. Len(calls) - 1 : SameCall(calls[k], calls'[k])
      BY <1>1 DEF SameCall
    <2> QED
      BY <2>1, <2>2, <2>3 DEF CallsStep
  <1> QED
    BY <1>1, <1>3, <1>4

LEMMA CallsSame ==
  ASSUME CallsTyped, calls' = calls, NEW W
  PROVE  /\ CallsTyped' /\ Len(calls) \in Nat
         /\ CallsStep(Len(calls), W)
  <1>1. Len(calls) \in Nat
    BY TopIs
  <1>2. CallsTyped'
    BY DEF CallsTyped, MainIsAtTheBottom
  <1>3. CallsStep(Len(calls), W)
    <2>1. Len(calls) <= Len(calls) /\ Len(calls) <= Len(calls')
      BY <1>1
    <2>2. Len(calls) + 1 .. Len(calls') = {}
      BY <1>1
    <2>3. \A k \in 1 .. Len(calls) : SameCall(calls[k], calls'[k])
      BY DEF SameCall
    <2> QED
      BY <2>1, <2>2, <2>3 DEF CallsStep
  <1> QED
    BY <1>1, <1>2, <1>3

(* A destructor is called, by a Commit() of one pass, which it outlives, or *)
(* by something that goes on when it returns.                               *)
LEMMA CallsDestroy ==
  ASSUME CallsTyped,
         NEW stack \in {calls, Rest},
         stack = Rest => Top.at \notin {"main", "closeall", "exited"},
         NEW W, NEW c \in CallTypes, c.at = "destroy",
         c.frame \notin Pending \cup W,
         c.then # None => c.then = m.ExecutedFrame /\ m'.ExecutedFrame = None,
         calls' = Append(stack, c)
  PROVE  CallsTyped' /\ Len(stack) \in Nat /\ CallsStep(Len(stack), W)
  <1>1. /\ stack \in Seq(CallTypes) /\ Len(stack) \in Nat /\ Len(stack) > 0
        /\ Len(stack) <= Len(calls) /\ \A k \in 1 .. Len(stack) : stack[k] = calls[k]
    <2>1. CASE stack = calls
      BY <2>1, TopIs DEF CallsTyped
    <2>2. CASE stack = Rest
      <3>1. /\ Len(calls) \in Nat /\ Len(calls) > 1 /\ Rest \in Seq(CallTypes)
            /\ Len(Rest) = Len(calls) - 1
            /\ \A k \in 1 .. Len(calls) - 1 : Rest[k] = calls[k]
        BY <2>2, TopIs, Zenon
      <3> QED
        BY <2>2, <3>1
    <2> QED
      BY <2>1, <2>2
  <1>2. /\ calls' \in Seq(CallTypes) /\ Len(calls') = Len(stack) + 1
        /\ \A k \in 1 .. Len(stack) : calls'[k] = calls[k]
        /\ calls'[Len(stack) + 1] = c
    BY <1>1, AppendProperties
  <1>3. CallsTyped'
    <2>1. calls' # <<>> /\ 1 \in 1 .. Len(stack)
      BY <1>1, <1>2
    <2> QED
      BY <1>2, <2>1 DEF CallsTyped, MainIsAtTheBottom
  <1>4. CallsStep(Len(stack), W)
    <2>1. Len(stack) <= Len(calls) /\ Len(stack) <= Len(calls')
      BY <1>1, <1>2
    <2>2. \A k \in Len(stack) + 1 .. Len(calls') : k = Len(stack) + 1
      BY <1>1, <1>2
    <2>3. \A k \in 1 .. Len(stack) : SameCall(calls[k], calls'[k])
      BY <1>2 DEF SameCall
    <2> QED
      BY <1>2, <2>1, <2>2, <2>3 DEF CallsStep
  <1> QED
    BY <1>1, <1>3, <1>4

(* The topmost call stays, with another phase or count of requests, and     *)
(* calls nothing, or an event handler, or an event loop and its Commit().   *)
LEMMA CallsGo ==
  ASSUME CallsTyped,
         NEW W, NEW c \in CallTypes, SameCall(Top, c), NEW more \in Seq(CallTypes),
         \A i \in DOMAIN more :
            \/ more[i].at \in {"nonmodal", "commit"}
            \/ (more[i].at = "handler" /\ more[i].frame \notin Pending \cup W)
            \/ (/\ more[i].at = "modal" /\ more[i].frame \in W
                /\ i = Len(more) - 1 /\ more[Len(more)].at = "commit"),
         calls' = Rest \o <<c>> \o more
  PROVE  CallsTyped' /\ Len(calls) \in Nat /\ CallsStep(Len(calls), W)
  <1> DEFINE old == Len(calls)
             new == Len(calls')
             n == Len(more)
  <1>1. /\ old \in Nat /\ old > 0 /\ Rest \in Seq(CallTypes) /\ Len(Rest) = old - 1
        /\ \A k \in 1 .. old - 1 : Rest[k] = calls[k]
        /\ Top = calls[old]
    BY TopIs, Zenon
  <1>2. n \in Nat /\ DOMAIN more = 1 .. n
    BY LenProperties
  <1>3. /\ Rest \o <<c>> \in Seq(CallTypes) /\ Len(Rest \o <<c>>) = old
        /\ \A k \in 1 .. old - 1 : (Rest \o <<c>>)[k] = calls[k]
        /\ (Rest \o <<c>>)[old] = c
    <2>1. /\ <<c>> \in Seq(CallTypes) /\ Len(<<c>>) = 1 /\ <<c>>[1] = c
      OBVIOUS
    <2> HIDE DEF Rest
    <2>2. /\ Rest \o <<c>> \in Seq(CallTypes) /\ Len(Rest \o <<c>>) = Len(Rest) + 1
          /\ \A k \in 1 .. Len(Rest) + 1 :
                (Rest \o <<c>>)[k] = IF k <= Len(Rest) THEN Rest[k] ELSE <<c>>[k - Len(Rest)]
      BY <1>1, <2>1, ConcatProperties
    <2> QED
      BY <1>1, <2>1, <2>2
  <1> DEFINE base == Rest \o <<c>>
  <1> HIDE DEF base
  <1>4. /\ base \o more \in Seq(CallTypes) /\ Len(base \o more) = old + n
        /\ \A k \in 1 .. old + n :
              (base \o more)[k] = IF k <= old THEN base[k] ELSE more[k - old]
    <2>1. base \in Seq(CallTypes) /\ Len(base) = old
      BY <1>3 DEF base
    <2>2. /\ base \o more \in Seq(CallTypes)
          /\ Len(base \o more) = Len(base) + Len(more)
          /\ \A k \in 1 .. Len(base) + Len(more) : (base \o more)[k] =
                  IF k <= Len(base) THEN base[k] ELSE more[k - Len(base)]
      BY <2>1, ConcatProperties, Zenon
    <2> HIDE DEF old
    <2> QED
      BY <2>1, <2>2
  <1>5. calls' = base \o more
    BY DEF base
  <1>6. /\ calls' \in Seq(CallTypes) /\ new = old + n
        /\ \A k \in 1 .. old : calls'[k] = base[k]
        /\ \A k \in old + 1 .. new : calls'[k] = more[k - old] /\ k - old \in 1 .. n
    <2>1. calls' \in Seq(CallTypes) /\ new = old + n
      BY <1>4, <1>5
    <2> HIDE DEF old, new, n
    <2>2. ASSUME NEW k \in 1 .. old PROVE calls'[k] = base[k]
      <3>1. k \in 1 .. old + n /\ k <= old
        BY <1>1, <1>2
      <3> QED
        BY <1>4, <1>5, <3>1
    <2>3. ASSUME NEW k \in old + 1 .. new
          PROVE  calls'[k] = more[k - old] /\ k - old \in 1 .. n
      <3>1. k \in 1 .. old + n /\ ~(k <= old) /\ k - old \in 1 .. n
        BY <1>1, <1>2, <2>1
      <3> QED
        BY <1>4, <1>5, <3>1
    <2> QED
      BY <2>1, <2>2, <2>3
  <1>7. \A k \in 1 .. old : SameCall(calls[k], calls'[k])
    <2> TAKE k \in 1 .. old
    <2>1. CASE k = old
      BY <1>1, <1>3, <1>6, <2>1 DEF base
    <2>2. CASE k # old
      <3>1. k \in 1 .. old - 1
        BY <1>1, <2>2
      <3>2. calls'[k] = calls[k]
        BY <1>3, <1>6, <3>1 DEF base
      <3> QED
        BY <3>2 DEF SameCall
    <2> QED
      BY <2>1, <2>2
  <1>8. CallsTyped'
    <2>1. 1 \in 1 .. old /\ calls' # <<>>
      BY <1>1, <1>2, <1>6
    <2>2. calls'[1].at = calls[1].at
      BY <1>7, <2>1 DEF SameCall
    <2> QED
      BY <1>6, <2>1, <2>2 DEF CallsTyped, MainIsAtTheBottom
  <1>9. ASSUME NEW k \in old + 1 .. new
        PROVE  /\ calls'[k].at \in {"handler", "destroy"} =>
                     calls'[k].frame \notin Pending \cup W
               /\ calls'[k].at # "destroy"
               /\ calls'[k].at = "modal" =>
                     /\ calls'[k].frame \in W
                     /\ k = new - 1
                     /\ calls'[new].at = "commit"
                     /\ calls'[old + 1].at # "destroy"
    <2> HIDE DEF old, new, n
    <2>1. ASSUME NEW j \in old + 1 .. new
          PROVE  /\ j - old \in DOMAIN more /\ calls'[j] = more[j - old]
                 /\ more[j - old].at # "destroy"
      BY <1>2, <1>6
    <2>2. calls'[k].at \in {"handler", "destroy"} =>
                     calls'[k].frame \notin Pending \cup W
      BY <2>1
    <2>3. ASSUME calls'[k].at = "modal"
          PROVE  /\ calls'[k].frame \in W
                 /\ k = new - 1
                 /\ calls'[new].at = "commit"
                 /\ calls'[old + 1].at # "destroy"
      <3>1. /\ more[k - old].frame \in W /\ k - old = n - 1
            /\ more[n].at = "commit"
        BY <2>1, <2>3 DEF n
      <3>2. k = new - 1 /\ new \in old + 1 .. new /\ old + 1 \in old + 1 .. new
        BY <1>1, <1>2, <1>6, <3>1 DEF old, new, n
      <3>3. new - old = n
        BY <1>1, <1>2, <1>6
      <3> QED
        BY <2>1, <3>1, <3>2, <3>3
    <2> QED
      BY <2>1, <2>2, <2>3
  <1>10. old <= new
    BY <1>1, <1>2, <1>6
  <1> QED
    BY <1>1, <1>7, <1>8, <1>9, <1>10 DEF CallsStep

(* A Commit() ends a pass.                                                  *)
LEMMA CallsStack ==
  ASSUME CallsTyped, NEW stack \in {calls, Rest}, calls' = stack,
         stack = Rest => Top.at \notin {"main", "closeall", "exited"}
  PROVE  /\ Thens' \subseteq Thens
         /\ \E n \in Nat : CallsTyped' /\ CallsStep(n, {})
  <1>1. CASE stack = calls
    <2>1. CallsTyped' /\ Len(calls) \in Nat /\ CallsStep(Len(calls), {})
      BY <1>1, CallsSame
    <2>2. Thens' = Thens
      BY <1>1 DEF Thens, CallsAt
    <2> QED
      BY <2>1, <2>2
  <1>2. CASE stack = Rest
    <2>1. CallsTyped' /\ Len(calls) - 1 \in Nat /\ CallsStep(Len(calls) - 1, {})
      BY <1>2, CallsRest
    <2>2. /\ Len(calls) \in Nat /\ DOMAIN calls = 1 .. Len(calls)
          /\ Rest \in Seq(CallTypes) /\ Len(Rest) = Len(calls) - 1
          /\ \A k \in 1 .. Len(calls) - 1 : Rest[k] = calls[k]
      BY TopIs, Zenon
    <2>3. DOMAIN Rest = 1 .. Len(calls) - 1
      BY <2>2, LenProperties
    <2>4. 1 .. Len(calls) - 1 \subseteq 1 .. Len(calls)
      BY <2>2
    <2> HIDE DEF Rest
    <2>5. DOMAIN calls' \subseteq DOMAIN calls /\ \A k \in DOMAIN calls' : calls'[k] = calls[k]
      BY <1>2, <2>2, <2>3, <2>4
    <2>6. Thens' \subseteq Thens
      BY <2>5 DEF Thens, CallsAt
    <2> QED
      BY <2>1, <2>6
  <1> QED
    BY <1>1, <1>2

-----------------------------------------------------------------------------
(* The program's own steps. *)

LEMMA InvGives ==
  ASSUME IInv
  PROVE  /\ CallsTyped /\ Sound(m)
         /\ kind \in [Frames -> Kinds] /\ endLoop \in BOOLEAN
         /\ shown \in FrameOrNone /\ closing \subseteq Frames
         /\ m.DeletedFrame \in FrameOrNone /\ m.InsertedFrame \in FrameOrNone
         /\ m.ExecutedFrame \in FrameOrNone /\ m.ActivatedFrame \in FrameOrNone
         /\ m.CurrentFrame \in FrameOrNone /\ m.DeactivatedFrame \in FrameOrNone
         /\ m.RefreshedFrame \in FrameOrNone
  <1>1. m \in Fields
    BY DEF IInv, TypeOK
  <1>2. CallsTyped /\ Sound(m)
    BY DEF IInv, TypeOK, NoFrameTwice, Distinct, Sound, CallsTyped
  <1> QED
    BY <1>1, <1>2, FieldTypes DEF IInv, TypeOK

LEMMA ToStackIs ==
  ASSUME IInv
  PROVE  ToStack \subseteq Frames
  <1>1. m.ExecutedFrame \in FrameOrNone
    BY InvGives
  <1>2. calls \in Seq(CallTypes)
    BY InvGives DEF CallsTyped
  <1>3. \A k \in DOMAIN calls : calls[k] \in CallTypes
    BY <1>2, SeqFacts
  <1>4. \A k \in CallsAt({"destroy"}) : calls[k].then \in FrameOrNone
    BY <1>3, CallKinds DEF CallsAt
  <1>5. Thens \subseteq Frames
    BY <1>4 DEF Thens, FrameOrNone
  <1> QED
    BY <1>1, <1>5 DEF ToStack, FrameOrNone

(* Steps that make no new frame.                                            *)
LEMMA KeepingStep ==
  ASSUME IInv, NEW X, NEW P, Keeps(m, m', X, P), P \subseteq ToStack \cup {None},
         CallsTyped', NEW n \in Nat, CallsStep(n, {}),
         X \cap Pending' = {},
         Top.at = "commit" => m'.ExecutedFrame = None,
         kind' \in [Frames -> Kinds],
         \A f \in Frames : kind'[f] = kind[f] \/ (kind'[f] = "none" /\ f \notin ToStack),
         endLoop' \in BOOLEAN, shown' \in FrameOrNone, closing' \subseteq Frames
  PROVE  IInv'
  <1>1. SlotsMove({})
    BY DEF SlotsMove, Keeps
  <1>2. Sound(m')
    BY DEF Keeps
  <1>3. InSeq(m'.ModalStack) \subseteq Frames /\ None \notin InSeq(m'.ModalStack)
    <2>1. m'.ModalStack \in Seq(Frames)
      BY <1>2, FieldTypes DEF Sound
    <2> QED
      BY <2>1, SeqFacts, FramesAssumption
  <1>4. FieldsStep({}, X)
    <2>1. InSeq(m'.ModalStack) \subseteq InSeq(m.ModalStack) \cup ToStack
      BY <1>3 DEF Keeps
    <2>2. Known(m)' \subseteq Known(m) \cup X \cup {None}
      BY DEF Keeps, Known
    <2>3. m'.DeactivatedFrame \in {m.DeactivatedFrame, None}
      BY DEF Keeps
    <2> QED
      BY <2>1, <2>2, <2>3 DEF FieldsStep
  <1>5. ToStack' \subseteq ToStack
    BY <1>1, PendingStep
  <1>6. ToStack \subseteq Frames
    BY ToStackIs
  <1>7. KindStep
    BY <1>3, <1>5, <1>6 DEF KindStep
  <1> QED
    BY <1>1, <1>2, <1>4, <1>7, StepKeeps

LEMMA QuietStep ==
  ASSUME IInv, UNCHANGED <<m, kind>>,
         CallsTyped', NEW n \in Nat, CallsStep(n, {}),
         Top.at = "commit" => m.ExecutedFrame = None,
         endLoop' \in BOOLEAN, shown' \in FrameOrNone, closing' \subseteq Frames
  PROVE  IInv'
  <1>1. Keeps(m, m', {}, {})
    <2>1. Sound(m)
      BY InvGives
    <2>2. Keeps(m, m, {}, {})
      BY <2>1, KeepsSame
    <2> QED
      BY <2>2
  <1>2. kind' \in [Frames -> Kinds]
    BY InvGives
  <1> QED
    BY <1>1, <1>2, KeepingStep

LEMMA CommitCallIs ==
  ASSUME NEW count \in {0, 1}
  PROVE  /\ CommitCall(count) \in CallTypes /\ CommitCall(count).at = "commit"
         /\ <<CommitCall(count)>> \in Seq(CallTypes)
  <1>1. CommitCall(count) \in CallTypes /\ CommitCall(count).at = "commit"
    BY DEF CommitCall, CallTypes
  <1> QED
    BY <1>1

LEMMA LoopCommitStep ==
  ASSUME IInv, LoopCommit
  PROVE  IInv'
  <1> DEFINE c == [Top EXCEPT !.phase = "run"]
             more == <<CommitCall(0)>>
  <1>0. CallsTyped /\ Top \in CallTypes
    BY InvGives, TopIs
  <1>1. Top.at \in {"main", "modal", "nonmodal"}
    BY DEF LoopCommit, IsLoop
  <1>2. c \in CallTypes /\ SameCall(Top, c)
    BY <1>0, <1>1, CallKinds DEF CallTypes, Phases, SameCall
  <1>3. more \in Seq(CallTypes) /\ \A i \in DOMAIN more : more[i].at = "commit"
    BY CommitCallIs
  <1>4. calls' = Rest \o <<c>> \o more
    <2>1. calls' = Rest \o <<c, CommitCall(0)>>
      BY DEF LoopCommit
    <2>2. <<c, CommitCall(0)>> = <<c>> \o more
      OBVIOUS
    <2>3. Rest \o (<<c>> \o more) = (Rest \o <<c>>) \o more
      <3>1. Rest \in Seq(CallTypes) /\ <<c>> \in Seq(CallTypes)
        BY <1>0, <1>2, TopIs
      <3> HIDE DEF Rest, c, more
      <3> QED
        BY <1>3, <3>1
    <2> QED
      BY <2>1, <2>2, <2>3
  <1> HIDE DEF c, more
  <1>5. CallsTyped' /\ Len(calls) \in Nat /\ CallsStep(Len(calls), {})
    BY <1>0, <1>2, <1>3, <1>4, CallsGo
  <1>6. UNCHANGED <<m, kind, endLoop, shown, closing>>
    BY DEF LoopCommit
  <1> QED
    BY <1>1, <1>5, <1>6, QuietStep, InvGives

LEMMA ProcessMainLoopStep ==
  ASSUME IInv, ProcessMainLoop
  PROVE  IInv'
  <1> DEFINE c == [Top EXCEPT !.phase = "commit"]
             handler == [at |-> "handler", frame |-> m.CurrentFrame, ops |-> 0,
                         began |-> FALSE]
             more == IF m.CurrentFrame = None THEN <<>> ELSE <<handler>>
  <1>0. CallsTyped /\ Top \in CallTypes /\ m.CurrentFrame \in FrameOrNone
    BY InvGives, TopIs
  <1>1. Top.at \in {"main", "modal", "nonmodal"}
    BY DEF ProcessMainLoop, IsLoop
  <1>2. c \in CallTypes /\ SameCall(Top, c)
    BY <1>0, <1>1, CallKinds DEF CallTypes, Phases, SameCall
  <1>3. more \in Seq(CallTypes) /\ \A i \in DOMAIN more : more[i].at = "handler"
                                     /\ more[i].frame \notin Pending \cup {}
    <2>1. CASE m.CurrentFrame = None
      BY <2>1
    <2>2. CASE m.CurrentFrame # None
      <3>1. handler \in CallTypes
        BY <1>0, <2>2 DEF FrameOrNone, CallTypes
      <3>2. m.CurrentFrame \notin Pending
        BY DEF IInv, PendingIsUnknown, Known
      <3>3. handler.at = "handler" /\ handler.frame = m.CurrentFrame
        OBVIOUS
      <3> HIDE DEF handler
      <3> QED
        BY <2>2, <3>1, <3>2, <3>3
    <2> QED
      BY <2>1, <2>2
  <1>4. calls' = Rest \o <<c>> \o more
    BY DEF ProcessMainLoop
  <1> HIDE DEF c, more
  <1>5. CallsTyped' /\ Len(calls) \in Nat /\ CallsStep(Len(calls), {})
    BY <1>0, <1>2, <1>3, <1>4, CallsGo
  <1>6. UNCHANGED <<m, kind, endLoop, shown, closing>>
    BY DEF ProcessMainLoop
  <1> QED
    BY <1>1, <1>5, <1>6, QuietStep, InvGives

LEMMA ReturnStep ==
  ASSUME IInv, HandlerReturns
  PROVE  IInv'
  <1>1. Top.at = "handler" /\ calls' = Rest /\ UNCHANGED <<m, kind, endLoop, shown, closing>>
    BY DEF HandlerReturns
  <1>2. CallsTyped' /\ Len(calls) - 1 \in Nat /\ CallsStep(Len(calls) - 1, {})
    BY <1>1, CallsRest, InvGives
  <1> QED
    BY <1>1, <1>2, QuietStep, InvGives

(* The one call left at the exit.                                           *)
LEMMA CallsEnd ==
  ASSUME CallsTyped, NEW at \in {"closeall", "exited"}, calls' = <<[at |-> at]>>
  PROVE  CallsTyped' /\ CallsStep(0, {})
  <1>1. Len(calls) \in Nat
    BY TopIs
  <1>2. [at |-> at] \in CallTypes
    BY DEF CallTypes
  <1>3. CallsTyped'
    <2>1. calls' \in Seq(CallTypes) /\ calls' # <<>> /\ calls'[1].at = at
      BY <1>2
    <2> QED
      BY <2>1 DEF CallsTyped, MainIsAtTheBottom
  <1>4. Len(calls') = 1 /\ calls'[1].at = at
    OBVIOUS
  <1>5. 0 <= Len(calls) /\ 0 <= Len(calls') /\ 1 .. 0 = {} /\ 0 + 1 .. Len(calls') = {1}
    BY <1>1, <1>4
  <1>6. CallsStep(0, {})
    BY <1>4, <1>5 DEF CallsStep
  <1> QED
    BY <1>3, <1>6

LEMMA LeaveLoopStep ==
  ASSUME IInv, LeaveLoop
  PROVE  IInv'
  <1>1. Top.at \in {"main", "modal", "nonmodal"} /\ UNCHANGED <<m, endLoop, shown>>
    BY DEF LeaveLoop, IsLoop
  <1>2. CASE Top.at = "main"
    <2>1. calls' = <<[at |-> "closeall"]>> /\ UNCHANGED <<kind, closing>>
      BY <1>2 DEF LeaveLoop
    <2>2. CallsTyped' /\ CallsStep(0, {})
      BY <2>1, CallsEnd, InvGives
    <2> QED
      BY <1>1, <1>2, <2>1, <2>2, QuietStep, InvGives
  <1>3. CASE Top.at # "main"
    <2>1. calls' = Rest
      BY <1>3 DEF LeaveLoop
    <2>2. CallsTyped' /\ Len(calls) - 1 \in Nat /\ CallsStep(Len(calls) - 1, {})
      BY <1>1, <1>3, <2>1, CallsRest, InvGives
    <2>3. CASE Top.at = "nonmodal"
      <3>1. UNCHANGED <<kind, closing>>
        BY <2>3 DEF LeaveLoop
      <3> QED
        BY <1>1, <2>2, <2>3, <3>1, QuietStep, InvGives
    <2>4. CASE Top.at = "modal"
      <3>1. kind' = [kind EXCEPT ![Top.frame] = "none"] /\ closing' = closing \ {Top.frame}
        BY <2>4 DEF LeaveLoop
      <3>2. Len(calls) \in Nat /\ DOMAIN calls = 1 .. Len(calls) /\ Len(calls) \in DOMAIN calls
            /\ Top = calls[Len(calls)] /\ Top \in CallTypes
        BY InvGives, TopIs
      <3>3. Len(calls) \in CallsAt({"modal"}) /\ Top.frame \in Frames
        BY <2>4, <3>2, CallKinds DEF CallsAt
      <3>4. Top.frame # m.ExecutedFrame
        BY <3>2, <3>3 DEF IInv, ModalIsExecuted
      <3>5. \A k \in CallsAt({"destroy"}) : k < Len(calls)
        <4> TAKE k \in CallsAt({"destroy"})
        <4>1. k \in DOMAIN calls /\ k # Len(calls)
          BY <2>4, <3>2 DEF CallsAt
        <4> QED
          BY <3>2, <4>1
      <3>6. Top.frame \notin ToStack
        BY <3>2, <3>3, <3>4, <3>5 DEF IInv, ModalIsExecuted, ToStack, Thens
      <3>7. /\ kind' \in [Frames -> Kinds]
            /\ \A f \in Frames : kind'[f] = kind[f] \/ (kind'[f] = "none" /\ f \notin ToStack)
        <4>1. kind \in [Frames -> Kinds] /\ "none" \in Kinds
          BY InvGives DEF Kinds
        <4> HIDE DEF Kinds
        <4> QED
          BY <3>1, <3>6, <4>1
      <3>8. Keeps(m, m', {}, {})
        BY <1>1, InvGives, KeepsSame
      <3>9. closing' \subseteq Frames /\ endLoop' \in BOOLEAN /\ shown' \in FrameOrNone
        BY <1>1, <3>1, InvGives
      <3> QED
        BY <2>2, <2>4, <3>7, <3>8, <3>9, KeepingStep
    <2> QED
      BY <1>1, <1>3, <2>3, <2>4
  <1> QED
    BY <1>2, <1>3

(* DeleteCommit() of a frame that is not pending: at most the frame it      *)
(* makes room for becomes known, and is pending until then.                 *)
LEMMA DeleteCommitStep ==
  ASSUME IInv, NEW mm, NEW X, Keeps(m, mm, X, {}), X \cap ToStack = {},
         mm.InsertedFrame \notin X \ {None},
         Top.at = "commit" => mm.ExecutedFrame = None,
         NEW f \in Frames, f \notin Pending,
         NEW then \in FrameOrNone,
         then # None => /\ then = m.ExecutedFrame
                        /\ mm.ExecutedFrame = None /\ mm.InsertedFrame = None,
         NEW stack \in {calls, Rest},
         stack = Rest => Top.at \notin {"main", "closeall", "exited"},
         DeleteCommit(mm, f, then, stack),
         UNCHANGED <<kind, endLoop, shown, closing>>
  PROVE  IInv'
  <1> DEFINE m1 == Unlink(mm, f)
             listed == InList(mm, f)
             c == [at |-> "destroy", frame |-> f, ops |-> 0,
                   began |-> FALSE, listed |-> listed, then |-> then]
  <1>0. CallsTyped /\ Sound(mm)
    BY InvGives DEF Keeps
  <1>1. Keeps(mm, m1, {}, {})
    BY <1>0, UnlinkKeeps
  <1>2. Keeps(m, m1, X, {})
    <2> HIDE DEF m1
    <2>1. Keeps(m, m1, X \cup {}, {} \cup {})
      BY <1>1, KeepsThen, Zenon
    <2> QED
      BY <2>1
  <1>3. then # None => then \in ToStack /\ then \notin Known(mm)
    <2>1. then # None => then \in ToStack
      BY DEF ToStack
    <2>2. then # None => then \notin Known(m) /\ then \notin X
      BY <2>1 DEF IInv, PendingIsUnknown, Pending
    <2> QED
      BY <2>1, <2>2 DEF Keeps
  <1>5. ASSUME NEW n \in Nat, CallsTyped', CallsStep(n, {}), SlotsMove({})
        PROVE  /\ ToStack' \subseteq ToStack /\ Pending' \subseteq Pending
               /\ None \notin Pending'
    <2>1. ToStack' \subseteq ToStack /\ Pending' \subseteq Pending
      BY <1>5, PendingStep
    <2>2. None \notin Pending'
      BY DEF Pending, ToStack, Thens
    <2> QED
      BY <2>1, <2>2
  <1>6. CASE DynamicallyBorn(f)
    <2> DEFINE r == [m1 EXCEPT !.CurrentFrame = IF @ = f THEN None ELSE @]
    <2>1. m' = r /\ calls' = Append(stack, c)
      BY <1>6 DEF DeleteCommit
    <2> HIDE DEF m1
    <2>2. Keeps(m, r, X, {})
      <3>1. m1 \in Fields /\ Sound(m1)
        BY <1>1 DEF Keeps, Sound
      <3>2. r \in Fields
        BY <3>1, FieldTypes DEF Fields
      <3>3. /\ r.FrameList = m1.FrameList /\ r.ModalStack = m1.ModalStack
            /\ r.FramePos = m1.FramePos /\ r.CurrentFrame \in {m1.CurrentFrame, None}
            /\ r.ActivatedFrame = m1.ActivatedFrame
            /\ r.DeletedFrame = m1.DeletedFrame
            /\ r.InsertedFrame = m1.InsertedFrame
            /\ r.ExecutedFrame = m1.ExecutedFrame
            /\ r.DeactivatedFrame = m1.DeactivatedFrame
        BY <3>1 DEF Fields
      <3> HIDE DEF r
      <3>4. Keeps(m1, r, {}, {})
        BY <3>1, <3>2, <3>3, SlotsStep DEF Known
      <3>5. Keeps(m, r, X \cup {}, {} \cup {})
        BY <1>2, <3>4, KeepsThen, Zenon
      <3> QED
        BY <3>5
    <2>3. Keeps(m, m', X, {})
      BY <2>1, <2>2
    <2>4. /\ m'.ExecutedFrame \in {mm.ExecutedFrame, None}
          /\ m'.InsertedFrame \in {mm.InsertedFrame, None}
      <3>1. m1 \in Fields
        BY <1>1 DEF Keeps, Sound
      <3>2. r.ExecutedFrame = m1.ExecutedFrame /\ r.InsertedFrame = m1.InsertedFrame
        BY <3>1 DEF Fields
      <3> QED
        BY <1>1, <2>1, <3>2 DEF Keeps
    <2>5. c \in CallTypes
      BY DEF CallTypes, InList
    <2>6. c.at = "destroy" /\ c.frame = f /\ c.then = then
      OBVIOUS
    <2> HIDE DEF c, r
    <2>7. CallsTyped' /\ Len(stack) \in Nat /\ CallsStep(Len(stack), {})
      BY <1>0, <2>1, <2>4, <2>5, <2>6, CallsDestroy
    <2>8. SlotsMove({})
      BY <2>3 DEF Keeps, SlotsMove
    <2>9. X \cap Pending' = {}
      BY <1>5, <2>4, <2>7, <2>8 DEF Pending
    <2> QED
      BY <2>3, <2>4, <2>7, <2>9, KeepingStep, InvGives
  <1>7. CASE ~DynamicallyBorn(f)
    <2> DEFINE r == ThenExecute(Pop(m1, f, listed), then)
    <2>1. m' = r /\ calls' = stack
      BY <1>7 DEF DeleteCommit
    <2> HIDE DEF m1, listed
    <2>2. Sound(m1)
      BY <1>1 DEF Keeps
    <2>3. then \notin InSeq(m1.FrameList) \cup InSeq(m1.ModalStack)
          /\ (then \notin Known(m1) \/ then = None)
      <3>1. CASE then = None
        <4>1. m1.FrameList \in Seq(Frames) /\ m1.ModalStack \in Seq(Frames)
          BY <2>2, FieldTypes DEF Sound
        <4> QED
          BY <3>1, <4>1, SeqFacts, FramesAssumption
      <3>2. CASE then # None
        <4>1. then \notin Known(m1)
          BY <1>1, <1>3, <3>2 DEF Keeps
        <4> QED
          BY <4>1 DEF Known
      <3> QED
        BY <3>1, <3>2
    <2>4. Keeps(m1, r, {then}, {then})
      BY <2>2, <2>3, PopThenExecuteKeeps
    <2> HIDE DEF r
    <2>5. Keeps(m, r, X \cup {then}, {} \cup {then})
      BY <1>2, <2>4, KeepsThen, Zenon
    <2>6. Keeps(m, m', X \cup {then}, {then})
      BY <2>1, <2>5
    <2>7. /\ m'.ExecutedFrame \in {mm.ExecutedFrame, None}
          /\ m'.InsertedFrame \in {mm.InsertedFrame, None}
      BY <1>1, <2>1, <2>4 DEF Keeps
    <2>8. PICK n \in Nat : CallsTyped' /\ CallsStep(n, {}) /\ Thens' \subseteq Thens
      BY <1>0, <2>1, CallsStack
    <2>9. SlotsMove({})
      BY <2>6 DEF Keeps, SlotsMove
    <2>10. X \cap Pending' = {}
      BY <1>5, <2>7, <2>8, <2>9 DEF Pending
    <2>11. then \notin Pending'
      <3>1. CASE then = None
        BY <1>5, <2>8, <2>9, <3>1
      <3>2. CASE then # None
        <4>1. then \notin Thens'
          BY <2>8, <3>2 DEF IInv, PendingOnce
        <4>2. m'.ExecutedFrame = None /\ m'.InsertedFrame = None
          BY <2>7, <3>2
        <4> QED
          BY <3>2, <4>1, <4>2 DEF Pending, ToStack
      <3> QED
        BY <3>1, <3>2
    <2>12. (X \cup {then}) \cap Pending' = {}
      BY <2>10, <2>11
    <2>13. {then} \subseteq ToStack \cup {None}
      BY <1>3
    <2>14. Top.at = "commit" => m'.ExecutedFrame = None
      BY <2>7
    <2> QED
      BY <2>6, <2>8, <2>12, <2>13, <2>14, KeepingStep, InvGives
  <1> QED
    BY <1>6, <1>7

(* One frame is replaced by another.                                        *)
LEMMA UpdateCommitStep ==
  ASSUME IInv, NEW stack \in {calls, Rest},
         Top.at = "commit", m.DeletedFrame # None, Requested,
         UpdateCommit(m.DeletedFrame, m.InsertedFrame, m.ExecutedFrame, stack),
         UNCHANGED <<kind, endLoop, shown, closing>>
  PROVE  IInv'
  <1> DEFINE deleted == m.DeletedFrame
             inserted == m.InsertedFrame
             executed == m.ExecutedFrame
             m1 == [m EXCEPT !.DeletedFrame = None, !.InsertedFrame = None,
                             !.ExecutedFrame = None]
             list == [m.FrameList EXCEPT ![IndexOf(m.FrameList, deleted)] = inserted]
             m0 == [m1 EXCEPT !.FrameList = list]
             m2 == ActivateFrame(m0, inserted)
             m3 == [m2 EXCEPT !.FrameToBack =
                        [@ EXCEPT ![m2.ActivatedFrame] = m.CurrentFrame]]
  <1>0. /\ Sound(m) /\ m \in Fields /\ CallsTyped
        /\ deleted \in Frames /\ inserted \in FrameOrNone /\ executed \in FrameOrNone
    BY InvGives DEF Sound, FrameOrNone
  <1>1. deleted \notin Pending
    BY DEF IInv, PendingIsUnknown, Known
  <1>2. m1 \in Fields
    BY <1>0, FieldTypes DEF Fields
  <1>3. /\ m1.FrameList = m.FrameList /\ m1.ModalStack = m.ModalStack
        /\ m1.FramePos = m.FramePos /\ m1.CurrentFrame = m.CurrentFrame
        /\ m1.ActivatedFrame = m.ActivatedFrame
        /\ m1.DeletedFrame = None
        /\ m1.InsertedFrame = None
        /\ m1.ExecutedFrame = None
        /\ m1.DeactivatedFrame = m.DeactivatedFrame
    BY <1>0 DEF Fields
  <1>4. /\ executed # None => DeleteCommit(m1, deleted, executed, stack)
        /\ executed = None /\ InList(m, deleted) =>
              DeleteCommit(m3, deleted, None, stack)
        /\ executed = None /\ ~InList(m, deleted) => m' = m1 /\ calls' = stack
    <2>1. m3 = [m2 EXCEPT !.FrameToBack[m2.ActivatedFrame] = m.CurrentFrame]
      OBVIOUS
    <2>2. m0 = [m1 EXCEPT !.FrameList[IndexOf(m.FrameList, deleted)] = inserted]
      BY <1>2, <1>3 DEF Fields
    <2> QED
      BY <2>1, <2>2 DEF UpdateCommit
  <1>5. None \in FrameOrNone
    BY DEF FrameOrNone
  <1> HIDE DEF m1, m3
  <1>6. Keeps(m, m1, {}, {})
    BY <1>0, <1>2, <1>3, SlotsStep DEF Known
  <1>7. CASE executed # None
    BY <1>0, <1>1, <1>3, <1>4, <1>6, <1>7, DeleteCommitStep
  <1>8. CASE executed = None /\ InList(m, deleted)
    <2>1. inserted \in Frames
      BY <1>0, <1>8 DEF Requested, FrameOrNone
    <2>2. inserted \in Pending /\ inserted \notin ToStack
      BY <2>1, FramesAssumption DEF Pending, IInv, PendingOnce
    <2>3. inserted \notin InSeq(m.FrameList) \cup InSeq(m.ModalStack)
      BY <2>2 DEF IInv, PendingIsUnknown, Known
    <2>4. /\ list \in Seq(Frames) /\ Len(list) = Len(m.FrameList) /\ Distinct(list)
          /\ InSeq(list) \subseteq InSeq(m.FrameList) \cup {inserted}
      <3>1. m.FrameList \in Seq(Frames) /\ deleted \in InSeq(m.FrameList)
            /\ Distinct(m.FrameList)
        BY <1>0, <1>8, FieldTypes DEF InList, Sound
      <3> QED
        BY <2>1, <2>3, <3>1, ReplacedIs
    <2> HIDE DEF list
    <2>5. m0 \in Fields
      BY <1>2, <2>4, FieldTypes DEF Fields
    <2>6. /\ m0.FrameList = list /\ m0.ModalStack = m.ModalStack
          /\ m0.FramePos = m.FramePos /\ m0.CurrentFrame = m.CurrentFrame
          /\ m0.ActivatedFrame = m.ActivatedFrame
          /\ m0.DeletedFrame = None
          /\ m0.InsertedFrame = None
          /\ m0.ExecutedFrame = None
          /\ m0.DeactivatedFrame = m.DeactivatedFrame
      BY <1>2, <1>3 DEF Fields
    <2> HIDE DEF m0
    <2>7. Sound(m0)
      BY <1>0, <2>3, <2>4, <2>5, <2>6 DEF Sound
    <2>8. Known(m0) \subseteq Known(m) \cup {inserted} \cup {None}
      BY <2>4, <2>6 DEF Known
    <2>9. Keeps(m, m0, {inserted}, {})
      BY <2>6, <2>7, <2>8 DEF Keeps
    <2>10. Keeps(m0, m2, {}, {})
      BY <2>7, ActivateFrameKeeps
    <2> HIDE DEF m2
    <2>11. m2 \in Fields /\ Sound(m2)
      BY <2>10 DEF Keeps, Sound
    <2>12. m3 \in Fields
      BY <1>0, <2>11, FieldTypes DEF Fields, m3
    <2>13. /\ m3.FrameList = m2.FrameList /\ m3.ModalStack = m2.ModalStack
           /\ m3.FramePos = m2.FramePos /\ m3.CurrentFrame = m2.CurrentFrame
           /\ m3.ActivatedFrame = m2.ActivatedFrame
           /\ m3.DeletedFrame = m2.DeletedFrame
           /\ m3.InsertedFrame = m2.InsertedFrame
           /\ m3.ExecutedFrame = m2.ExecutedFrame
           /\ m3.DeactivatedFrame = m2.DeactivatedFrame
      BY <2>11 DEF Fields, m3
    <2>14. Keeps(m2, m3, {}, {})
      BY <2>11, <2>12, <2>13, SlotsStep DEF Known
    <2>15. Keeps(m, m2, {inserted} \cup {}, {} \cup {})
      BY <2>9, <2>10, KeepsThen, Zenon
    <2>16. Keeps(m, m3, ({inserted} \cup {}) \cup {}, ({} \cup {}) \cup {})
      BY <2>14, <2>15, KeepsThen, Zenon
    <2>17. Keeps(m, m3, {inserted}, {})
      BY <2>16
    <2>18. m3.InsertedFrame = None /\ m3.ExecutedFrame = None
      BY <2>6, <2>10, <2>13 DEF Keeps
    <2>19. DeleteCommit(m3, deleted, None, stack)
      BY <1>4, <1>8
    <2>20. {inserted} \cap ToStack = {} /\ m3.InsertedFrame \notin {inserted} \ {None}
      BY <2>2, <2>18
    <2> HIDE DEF deleted, inserted, executed
    <2> QED
      BY <1>0, <1>1, <1>5, <2>17, <2>18, <2>19, <2>20, DeleteCommitStep
  <1>9. CASE executed = None /\ ~InList(m, deleted)
    <2>1. m' = m1 /\ calls' = stack
      BY <1>4, <1>9
    <2>2. PICK n \in Nat : CallsTyped' /\ CallsStep(n, {})
      BY <1>0, <2>1, CallsStack
    <2>3. Keeps(m, m', {}, {}) /\ m'.ExecutedFrame = None
      BY <1>3, <1>6, <2>1
    <2> QED
      BY <2>2, <2>3, KeepingStep, InvGives
  <1> QED
    BY <1>7, <1>8, <1>9

(* A pass of Commit() that carries out a request other than a deletion.     *)
LEMMA PassStep ==
  ASSUME IInv, Top.at = "commit", NEW stack \in {calls, Rest}, calls' = stack,
         NEW X, NEW P, Keeps(m, m', X, P), P \subseteq ToStack \cup {None},
         X \cap Thens = {}, m'.ExecutedFrame = None, m'.InsertedFrame \notin X \ {None},
         UNCHANGED <<kind, endLoop, closing>>, shown' \in FrameOrNone
  PROVE  IInv'
  <1>0. CallsTyped
    BY InvGives
  <1>1. Thens' \subseteq Thens
    BY <1>0, CallsStack
  <1>2. PICK n \in Nat : CallsTyped' /\ CallsStep(n, {})
    BY <1>0, CallsStack
  <1>3. X \cap Pending' = {}
    BY <1>1 DEF Pending, ToStack, Thens
  <1> QED
    BY <1>2, <1>3, KeepingStep, InvGives

LEMMA CommitStep ==
  ASSUME IInv, Commit
  PROVE  IInv'
  <1> DEFINE stack == IF Top.count = 1 THEN Rest ELSE calls
  <1>0. /\ Sound(m) /\ m \in Fields /\ CallsTyped
        /\ Top.at = "commit" /\ stack \in {calls, Rest} /\ None \in FrameOrNone
        /\ UNCHANGED <<kind, endLoop, closing>>
    BY InvGives DEF Sound, Commit, FrameOrNone
  <1>1. \/ CommitDelete(stack) \/ CommitExecute(stack) \/ CommitInsert(stack)
        \/ CommitActivate(stack) \/ CommitRefresh(stack)
        \/ Slots = {None} /\ calls' = Rest /\ UNCHANGED <<m, shown>>
    BY DEF Commit
  <1>2. /\ Pending \cap Known(m) = {} /\ Thens \subseteq Pending /\ ToStack \subseteq Pending
        /\ m.InsertedFrame \notin ToStack /\ m.ExecutedFrame \notin Thens
        /\ m.ExecutedFrame # None => m.ExecutedFrame \in ToStack
        /\ m.InsertedFrame # None => m.InsertedFrame \in Pending
        /\ m.DeactivatedFrame \notin InSeq(m.ModalStack)
    BY DEF IInv, PendingIsUnknown, PendingOnce, StackKeepsFocus, Pending, ToStack
  <1> HIDE DEF stack
  <1>3. CASE CommitDelete(stack)
    <2>1. m.DeletedFrame # None /\ shown' = shown
      BY <1>3 DEF CommitDelete
    <2>2. CASE Requested
      <3>1. UpdateCommit(m.DeletedFrame, m.InsertedFrame, m.ExecutedFrame, stack)
        BY <1>3, <2>2 DEF CommitDelete
      <3> QED
        BY <1>0, <2>1, <2>2, <3>1, UpdateCommitStep
    <2>3. CASE ~Requested
      <3>1. DeleteCommit(m, m.DeletedFrame, None, stack)
        BY <1>3, <2>3 DEF CommitDelete
      <3>2. m.DeletedFrame \in Frames /\ m.DeletedFrame \notin Pending
        BY <1>2, <2>1, InvGives DEF Known, FrameOrNone
      <3>3. Keeps(m, m, {}, {}) /\ m.ExecutedFrame = None
        BY <1>0, <2>3, KeepsSame DEF Requested
      <3> QED
        BY <1>0, <2>1, <3>1, <3>2, <3>3, DeleteCommitStep
    <2> QED
      BY <2>2, <2>3
  <1>4. CASE CommitExecute(stack)
    <2> DEFINE f == m.ExecutedFrame
    <2>1. /\ m.ExecutedFrame # None /\ m' = ExecuteCommit(m, f)
          /\ calls' = stack /\ shown' = shown
      BY <1>4 DEF CommitExecute
    <2>2. f \in Frames /\ f \notin InSeq(m.FrameList) \cup InSeq(m.ModalStack)
      BY <1>2, <2>1, InvGives DEF FrameOrNone, Known
    <2>3. Keeps(m, m', {f}, {f}) /\ m'.ExecutedFrame = None
      BY <1>0, <2>1, <2>2, ExecuteCommitKeeps
    <2>4. {f} \subseteq ToStack \cup {None} /\ {f} \cap Thens = {}
      BY <1>2, <2>1
    <2>5. m'.InsertedFrame \notin {f} \ {None}
      BY <1>2, <2>1, <2>3 DEF Keeps
    <2> QED
      BY <1>0, <2>1, <2>3, <2>4, <2>5, PassStep, InvGives
  <1>5. CASE CommitInsert(stack)
    <2> DEFINE f == m.InsertedFrame
    <2>1. /\ m.InsertedFrame # None /\ m.ExecutedFrame = None
          /\ m' = InsertCommit(m, f)
          /\ calls' = stack /\ shown' = shown
      BY <1>5 DEF CommitInsert
    <2>2. f \in Frames /\ f \notin InSeq(m.FrameList) \cup InSeq(m.ModalStack)
      BY <1>2, <2>1, InvGives DEF FrameOrNone, Known
    <2>3. Keeps(m, m', {f}, {}) /\ m'.InsertedFrame = None
      BY <1>0, <2>1, <2>2, InsertCommitKeeps
    <2>4. {f} \cap Thens = {} /\ m'.ExecutedFrame = None
      BY <1>2, <2>1, <2>3 DEF Keeps, ToStack
    <2> QED
      BY <1>0, <2>1, <2>3, <2>4, PassStep, InvGives
  <1>6. CASE CommitActivate(stack)
    <2> DEFINE f == m.ActivatedFrame
               m1 == [m EXCEPT !.DeactivatedFrame = None]
               mm == IF m.DeactivatedFrame = None THEN m
                     ELSE DeactivateCommit(m, m.DeactivatedFrame, f)
    <2>1. /\ m.ExecutedFrame = None /\ m.InsertedFrame = None
          /\ calls' = stack /\ shown' = shown
          /\ \/ f # None /\ m' = ActivateCommit(mm, f)
             \/ m' = m1
      BY <1>6 DEF CommitActivate, Requested
    <2>2. CASE f # None /\ m' = ActivateCommit(mm, f)
      <3>1. Keeps(m, mm, {}, {})
        BY <1>0, <1>2, KeepsSame, DeactivateCommitKeeps
      <3>2. f \in Frames
        BY <2>2, InvGives DEF FrameOrNone
      <3> HIDE DEF mm
      <3>3. Keeps(mm, m', {f}, {})
        BY <2>2, <3>1, <3>2, ActivateCommitKeeps DEF Keeps
      <3>4. Keeps(m, m', {} \cup {f}, {} \cup {})
        BY <3>1, <3>3, KeepsThen, Zenon
      <3>5. Keeps(m, m', {f}, {})
        BY <3>4
      <3>6. {f} \cap Thens = {}
        BY <1>2 DEF Known
      <3>7. m'.ExecutedFrame = None /\ m'.InsertedFrame = None
        BY <2>1, <3>5 DEF Keeps
      <3> QED
        BY <1>0, <2>1, <3>5, <3>6, <3>7, PassStep, InvGives
    <2>3. CASE m' = m1
      <3>1. m1 \in Fields
        BY <1>0, FieldTypes DEF Fields
      <3>2. /\ m1.FrameList = m.FrameList /\ m1.ModalStack = m.ModalStack
            /\ m1.FramePos = m.FramePos /\ m1.CurrentFrame = m.CurrentFrame
            /\ m1.ActivatedFrame = m.ActivatedFrame
            /\ m1.DeletedFrame = m.DeletedFrame
            /\ m1.InsertedFrame = m.InsertedFrame
            /\ m1.ExecutedFrame = m.ExecutedFrame
            /\ m1.DeactivatedFrame = None
        BY <1>0 DEF Fields
      <3> HIDE DEF m1
      <3>3. Keeps(m, m1, {}, {})
        BY <1>0, <3>1, <3>2, SlotsStep DEF Known
      <3> QED
        BY <1>0, <2>1, <2>3, <3>2, <3>3, PassStep, InvGives
    <2> QED
      BY <2>1, <2>2, <2>3
  <1>7. CASE CommitRefresh(stack)
    <2> DEFINE m1 == [m EXCEPT !.RefreshedFrame = None]
    <2>1. /\ m.ExecutedFrame = None /\ m.InsertedFrame = None
          /\ calls' = stack /\ shown' \in {shown, m.RefreshedFrame}
          /\ m' = m1
      BY <1>7 DEF CommitRefresh, Requested
    <2>2. m1 \in Fields
      BY <1>0, FieldTypes DEF Fields
    <2>3. /\ m1.FrameList = m.FrameList /\ m1.ModalStack = m.ModalStack
          /\ m1.FramePos = m.FramePos /\ m1.CurrentFrame = m.CurrentFrame
          /\ m1.ActivatedFrame = m.ActivatedFrame
          /\ m1.DeletedFrame = m.DeletedFrame
          /\ m1.InsertedFrame = m.InsertedFrame
          /\ m1.ExecutedFrame = m.ExecutedFrame
          /\ m1.DeactivatedFrame = m.DeactivatedFrame
      BY <1>0 DEF Fields
    <2> HIDE DEF m1
    <2>4. Keeps(m, m1, {}, {})
      BY <1>0, <2>2, <2>3, SlotsStep DEF Known
    <2>5. shown' \in FrameOrNone
      BY <2>1, InvGives
    <2> QED
      BY <1>0, <2>1, <2>3, <2>4, <2>5, PassStep
  <1>8. CASE Slots = {None} /\ calls' = Rest /\ UNCHANGED <<m, shown>>
    <2>1. m.ExecutedFrame = None
      BY <1>8 DEF Slots
    <2>2. CallsTyped' /\ Len(calls) - 1 \in Nat /\ CallsStep(Len(calls) - 1, {})
      BY <1>0, <1>8, CallsRest
    <2> QED
      BY <1>0, <1>8, <2>1, <2>2, QuietStep, InvGives
  <1> QED
    BY <1>1, <1>3, <1>4, <1>5, <1>6, <1>7, <1>8

LEMMA CloseAllStep ==
  ASSUME IInv, CloseAll
  PROVE  IInv'
  <1>0. /\ Sound(m) /\ CallsTyped /\ Top.at = "closeall"
        /\ UNCHANGED <<kind, endLoop, shown>> /\ closing' = closing
        /\ m.FrameList \in Seq(Frames) /\ m.ModalStack \in Seq(Frames)
        /\ None \in FrameOrNone
    BY InvGives, FieldTypes DEF Sound, CloseAll
  <1>1. Pending \cap Known(m) = {}
    BY DEF IInv, PendingIsUnknown
  <1>2. ASSUME NEW f \in Frames, f \in Known(m), DeleteCommit(m, f, None, calls)
        PROVE  IInv'
    <2>1. Keeps(m, m, {}, {})
      BY <1>0, KeepsSame
    <2>2. calls # Rest
      <3>1. Len(calls) \in Nat /\ Len(Rest) = Len(calls) - 1
        BY <1>0, TopIs, Zenon
      <3>2. Len(Rest) # Len(calls)
        BY <3>1
      <3> QED
        BY <3>2
    <2>3. f \notin Pending
      BY <1>1, <1>2
    <2> QED
      BY <1>0, <1>2, <2>1, <2>2, <2>3, DeleteCommitStep
  <1>3. CASE m.ModalStack # <<>>
    <2>1. DeleteCommit(m, LastOf(m.ModalStack), None, calls)
      BY <1>3 DEF CloseAll
    <2>2. LastOf(m.ModalStack) \in Frames /\ LastOf(m.ModalStack) \in Known(m)
      BY <1>0, <1>3, SeqFacts DEF LastOf, Known, InSeq
    <2> QED
      BY <1>2, <2>1, <2>2
  <1>4. CASE m.ModalStack = <<>> /\ m.FrameList # <<>>
    <2>1. DeleteCommit(m, LastOf(m.FrameList), None, calls)
      BY <1>4 DEF CloseAll
    <2>2. LastOf(m.FrameList) \in Frames /\ LastOf(m.FrameList) \in Known(m)
      BY <1>0, <1>4, SeqFacts DEF LastOf, Known, InSeq
    <2> QED
      BY <1>2, <2>1, <2>2
  <1>5. CASE m.ModalStack = <<>> /\ m.FrameList = <<>>
    <2>1. calls' = <<[at |-> "exited"]>> /\ UNCHANGED m
      BY <1>5 DEF CloseAll
    <2>2. CallsTyped' /\ CallsStep(0, {})
      BY <1>0, <2>1, CallsEnd
    <2> QED
      BY <1>0, <2>1, <2>2, QuietStep, InvGives
  <1> QED
    BY <1>3, <1>4, <1>5

LEMMA DestroyedStep ==
  ASSUME IInv, Destroyed
  PROVE  IInv'
  <1> DEFINE f == Top.frame
             then == Top.then
             n == Len(calls)
             m0 == [m EXCEPT !.FrameToBack = [@ EXCEPT ![f] = None]]
             r == ThenExecute(Pop(m0, f, Top.listed), then)
  <1>0. /\ Sound(m) /\ m \in Fields /\ CallsTyped /\ Top.at = "destroy"
        /\ kind' = [kind EXCEPT ![f] = "none"] /\ closing' = closing \ {f}
        /\ calls' = Rest /\ UNCHANGED <<endLoop, shown>>
    BY InvGives DEF Sound, Destroyed
  <1>1. m' = r
    <2>1. m0 = [m EXCEPT !.FrameToBack[Top.frame] = None]
      BY <1>0 DEF Fields
    <2> QED
      BY <2>1 DEF Destroyed
  <1>2. /\ n \in Nat /\ n > 0 /\ DOMAIN calls = 1 .. n /\ Top = calls[n]
        /\ f \in Frames /\ then \in FrameOrNone
        /\ n \in CallsAt({"destroy"}) /\ n \in CallsAt({"handler", "destroy"})
    <2>1. /\ n \in Nat /\ n > 0 /\ DOMAIN calls = 1 .. n /\ Top = calls[n]
          /\ n \in DOMAIN calls /\ Top \in CallTypes
      BY <1>0, TopIs
    <2>2. f \in Frames /\ then \in FrameOrNone
      BY <1>0, <2>1, CallKinds
    <2> QED
      BY <1>0, <2>1, <2>2 DEF CallsAt
  <1>3. f \notin ToStack
    <2>1. f \in Busy
      BY <1>2 DEF Busy
    <2> QED
      BY <2>1 DEF IInv, PendingIsUnknown, Pending
  <1>4. then # None => then \in Thens /\ then \in ToStack /\ then \notin Known(m)
    <2>1. then # None => then \in Thens
      BY <1>2 DEF Thens
    <2> QED
      BY <2>1 DEF ToStack, IInv, PendingIsUnknown, Pending
  <1>5. Keeps(m, m0, {}, {}) /\ Known(m0) = Known(m)
        /\ m0.FrameList = m.FrameList /\ m0.ModalStack = m.ModalStack
    <2>1. m0 \in Fields
      BY <1>0, FieldTypes DEF Fields, FrameOrNone
    <2>2. /\ m0.FrameList = m.FrameList /\ m0.ModalStack = m.ModalStack
          /\ m0.FramePos = m.FramePos /\ m0.CurrentFrame = m.CurrentFrame
          /\ m0.ActivatedFrame = m.ActivatedFrame
          /\ m0.DeletedFrame = m.DeletedFrame
          /\ m0.InsertedFrame = m.InsertedFrame
          /\ m0.ExecutedFrame = m.ExecutedFrame
          /\ m0.DeactivatedFrame = m.DeactivatedFrame
      BY <1>0 DEF Fields
    <2> HIDE DEF m0
    <2>3. Keeps(m, m0, {}, {})
      BY <1>0, <2>1, <2>2, SlotsStep DEF Known
    <2> QED
      BY <2>2, <2>3 DEF Known
  <1> HIDE DEF m0
  <1>6. then \notin InSeq(m0.FrameList) \cup InSeq(m0.ModalStack)
        /\ (then \notin Known(m0) \/ then = None)
    <2>1. CASE then = None
      <3>1. m.FrameList \in Seq(Frames) /\ m.ModalStack \in Seq(Frames)
        BY <1>0, FieldTypes
      <3> QED
        BY <1>5, <2>1, <3>1, SeqFacts, FramesAssumption
    <2>2. CASE then # None
      BY <1>4, <1>5, <2>2 DEF Known
    <2> QED
      BY <2>1, <2>2
  <1>7. Keeps(m0, r, {then}, {then})
    <2> HIDE DEF then
    <2>1. Sound(m0)
      BY <1>5 DEF Keeps
    <2> QED
      BY <1>2, <1>6, <2>1, PopThenExecuteKeeps
  <1> HIDE DEF r
  <1>8. Keeps(m, r, {} \cup {then}, {} \cup {then})
    BY <1>5, <1>7, KeepsThen, Zenon
  <1>9. Keeps(m, m', {then}, {then})
    BY <1>1, <1>8
  <1>10. CallsTyped' /\ n - 1 \in Nat /\ CallsStep(n - 1, {})
    BY <1>0, CallsRest
  <1>11. then \notin Pending'
    <2>1. None \notin Pending'
      BY DEF Pending, ToStack, Thens
    <2>2. CASE then # None
      <3>1. then \notin Thens'
        <4>1. SUFFICES ASSUME then \in Thens' PROVE FALSE
          OBVIOUS
        <4>2. PICK k \in DOMAIN calls' : calls'[k].at = "destroy" /\ calls'[k].then = then
          BY <4>1 DEF Thens, CallsAt
        <4>3. k \in 1 .. n - 1 /\ calls'[k] = calls[k]
          <5>1. /\ Rest \in Seq(CallTypes) /\ Len(Rest) = n - 1
                /\ \A j \in 1 .. n - 1 : Rest[j] = calls[j]
            BY <1>0, TopIs, Zenon
          <5>2. DOMAIN Rest = 1 .. n - 1
            BY <5>1, LenProperties
          <5> HIDE DEF Rest
          <5> QED
            BY <1>0, <5>1, <5>2
        <4>4. k \in DOMAIN calls /\ k # n
          <5> HIDE DEF n
          <5>1. k \in 1 .. n /\ k # n
            BY <1>2, <4>3
          <5> QED
            BY <1>2, <5>1
        <4>5. k \in CallsAt({"destroy"}) /\ calls[k].then = calls[n].then
          BY <1>2, <4>2, <4>3, <4>4 DEF CallsAt
        <4> QED
          BY <1>2, <2>2, <4>4, <4>5 DEF IInv, PendingOnce
      <3>2. then # m'.ExecutedFrame
        BY <1>4, <1>9, <2>2 DEF Keeps, IInv, PendingOnce
      <3>3. then # m'.InsertedFrame
        BY <1>4, <1>9, <2>2 DEF Keeps, IInv, PendingOnce
      <3> QED
        BY <3>1, <3>2, <3>3 DEF Pending, ToStack
    <2> QED
      BY <2>1, <2>2
  <1>12. {then} \subseteq ToStack \cup {None} /\ {then} \cap Pending' = {}
    BY <1>4, <1>11
  <1>13. /\ kind' \in [Frames -> Kinds]
         /\ \A g \in Frames : kind'[g] = kind[g] \/ (kind'[g] = "none" /\ g \notin ToStack)
    <2>1. kind \in [Frames -> Kinds] /\ "none" \in Kinds
      BY InvGives DEF Kinds
    <2> HIDE DEF Kinds, f
    <2> QED
      BY <1>0, <1>2, <1>3, <2>1
  <1>14. closing' \subseteq Frames /\ endLoop' \in BOOLEAN /\ shown' \in FrameOrNone
    BY <1>0, InvGives
  <1> HIDE DEF then, n
  <1> QED
    BY <1>0, <1>9, <1>10, <1>12, <1>13, <1>14, KeepingStep

-----------------------------------------------------------------------------
(* What handlers ask for. *)

LEMMA RunningIs ==
  ASSUME IInv, Running \/ Top.at = "handler"
  PROVE  /\ Top.at \in {"handler", "destroy"} /\ Top.at # "commit"
         /\ Top \in CallTypes /\ Top.frame \in Frames /\ Top.ops \in Nat
         /\ Top.frame \notin Pending
  <1>1. Top.at \in {"handler", "destroy"}
    BY Zenon DEF Running
  <1>2. Top \in CallTypes /\ Len(calls) \in DOMAIN calls /\ Top = calls[Len(calls)]
    BY InvGives, TopIs
  <1>3. Top.frame \in Frames /\ Top.ops \in Nat
    BY <1>1, <1>2, CallKinds
  <1>4. Top.frame \in Busy
    BY <1>1, <1>2 DEF Busy, CallsAt
  <1> QED
    BY <1>1, <1>2, <1>3, <1>4 DEF IInv, PendingIsUnknown

(* The handler goes on, over whatever it called.                            *)
LEMMA GoesIs ==
  ASSUME IInv, Running, NEW ops \in Nat, NEW W, NEW more \in Seq(CallTypes),
         \A i \in DOMAIN more :
            \/ more[i].at \in {"nonmodal", "commit"}
            \/ (/\ more[i].at = "modal" /\ more[i].frame \in W
                /\ i = Len(more) - 1 /\ more[Len(more)].at = "commit"),
         Goes(ops, more)
  PROVE  CallsTyped' /\ Len(calls) \in Nat /\ CallsStep(Len(calls), W)
  <1> DEFINE c == [Top EXCEPT !.ops = ops, !.began = TRUE]
  <1>1. Top \in CallTypes /\ Top.at \in {"handler", "destroy"} /\ CallsTyped
    BY RunningIs, InvGives
  <1>2. c \in CallTypes /\ SameCall(Top, c)
    BY <1>1, CallKinds DEF CallTypes, SameCall
  <1>3. calls' = Rest \o <<c>> \o more
    BY DEF Goes
  <1> HIDE DEF c
  <1> QED
    BY <1>1, <1>2, <1>3, CallsGo

LEMMA MoreIs ==
  ASSUME NEW W
  PROVE  /\ <<>> \in Seq(CallTypes) /\ DOMAIN <<>> = {}
         /\ \A count \in {0, 1} :
               /\ <<CommitCall(count)>> \in Seq(CallTypes)
               /\ \A i \in DOMAIN <<CommitCall(count)>> :
                     <<CommitCall(count)>>[i].at = "commit"
  <1>1. \A count \in {0, 1} : CommitCall(count) \in CallTypes /\ CommitCall(count).at = "commit"
    BY CommitCallIs
  <1> QED
    BY <1>1

(* A request that makes no frame.                                           *)
LEMMA AskStep ==
  ASSUME IInv, Running, NEW ops \in Nat, NEW more \in Seq(CallTypes),
         \A i \in DOMAIN more : more[i].at \in {"nonmodal", "commit"},
         Goes(ops, more), UNCHANGED <<kind, shown>>,
         endLoop' \in BOOLEAN, closing' \subseteq Frames,
         NEW X, Keeps(m, m', X, {}), X \cap Pending = {}
  PROVE  IInv'
  <1>1. CallsTyped' /\ Len(calls) \in Nat /\ CallsStep(Len(calls), {})
    BY GoesIs
  <1>2. SlotsMove({})
    BY DEF Keeps, SlotsMove
  <1>3. Pending' \subseteq Pending
    BY <1>1, <1>2, PendingStep
  <1>4. X \cap Pending' = {}
    BY <1>3
  <1>5. kind' \in [Frames -> Kinds] /\ shown' \in FrameOrNone /\ kind' = kind
    BY InvGives
  <1>6. Top.at # "commit"
    BY RunningIs
  <1> QED
    BY <1>1, <1>4, <1>5, <1>6, KeepingStep

(* A request to deactivate the current frame, which can lose focus.         *)
LEMMA DeactivateStep ==
  ASSUME IInv, Running, NEW ops \in Nat, Goes(ops, <<>>),
         UNCHANGED <<kind, endLoop, shown, closing>>,
         Sound(m'), Known(m') \subseteq Known(m) \cup {None},
         InSeq(m'.ModalStack) \subseteq InSeq(m.ModalStack),
         m'.InsertedFrame \in {m.InsertedFrame, None},
         m'.ExecutedFrame \in {m.ExecutedFrame, None},
         m'.DeactivatedFrame = None \/ CanLoseFocus(m'.DeactivatedFrame)
  PROVE  IInv'
  <1>1. CallsTyped' /\ Len(calls) \in Nat /\ CallsStep(Len(calls), {})
    BY MoreIs, GoesIs
  <1>2. SlotsMove({})
    BY DEF SlotsMove
  <1>3. ToStack' \subseteq ToStack
    BY <1>1, <1>2, PendingStep
  <1>4. Top.at # "commit"
    BY RunningIs
  <1>5. FieldsStep({}, {})
    <2>1. Known(m)' \subseteq Known(m) \cup {None}
      BY DEF Known
    <2> QED
      BY <1>4, <2>1 DEF FieldsStep, CanLoseFocus
  <1>6. KindStep
    BY <1>3, InvGives DEF KindStep
  <1> QED
    BY <1>1, <1>2, <1>5, <1>6, InvGives, StepKeeps

(* A request that makes frame w a window.                                   *)
LEMMA NewWindowStep ==
  ASSUME IInv, Running, NEW ops \in Nat, Goes(ops, <<>>),
         UNCHANGED <<endLoop, shown>>, closing' \subseteq Frames,
         NEW w \in Frames, Fresh(w), kind' = [kind EXCEPT ![w] = "window"],
         Sound(m'), NEW X, Known(m') \subseteq Known(m) \cup X \cup {None},
         X \cap (Pending \cup {w}) = {},
         InSeq(m'.ModalStack) = InSeq(m.ModalStack),
         m'.InsertedFrame = w,
         m'.ExecutedFrame = m.ExecutedFrame,
         m'.DeactivatedFrame = m.DeactivatedFrame
  PROVE  IInv'
  <1>1. CallsTyped' /\ Len(calls) \in Nat /\ CallsStep(Len(calls), {w})
    BY MoreIs, GoesIs
  <1>2. SlotsMove({w})
    BY DEF SlotsMove
  <1>3. Thens' \subseteq ToStack /\ Pending' \subseteq Pending \cup {w}
    BY <1>1, <1>2, PendingStep
  <1>4. Top.at # "commit"
    BY RunningIs
  <1>5. w # None /\ w \notin Known(m) \cup Busy \cup Pending
    BY FreshIsNew
  <1>6. w # m.ExecutedFrame
    BY <1>5 DEF Pending, ToStack
  <1>7. FieldsStep({w}, X)
    <2>1. Known(m)' \subseteq Known(m) \cup X \cup {None}
      BY DEF Known
    <2> QED
      BY <1>3, <1>4, <1>6, <2>1 DEF FieldsStep
  <1>8. KindStep
    <2>1. ToStack' \subseteq ToStack
      BY <1>3 DEF ToStack
    <2>2. w \notin ToStack /\ w \notin InSeq(m'.ModalStack)
      BY <1>5 DEF Pending, Known
    <2>3. kind \in [Frames -> Kinds] /\ "window" \in Kinds
      BY InvGives DEF Kinds
    <2>4. kind' \in [Frames -> Kinds] /\ \A f : f # w /\ f \in Frames => kind'[f] = kind[f]
      BY <2>3
    <2>5. InSeq(m'.ModalStack) \subseteq Frames /\ ToStack' \subseteq Frames
      <3>1. m'.ModalStack \in Seq(Frames)
        BY FieldTypes DEF Sound
      <3> QED
        BY <2>1, <3>1, SeqFacts, ToStackIs
    <2> QED
      BY <2>1, <2>2, <2>4, <2>5 DEF KindStep
  <1> QED
    BY <1>1, <1>2, <1>7, <1>8, InvGives, StepKeeps

(* A request to execute the new frame w, which is to be modal.              *)
LEMMA NewModalStep ==
  ASSUME IInv, Running, NEW ops \in Nat, NEW more \in Seq(CallTypes),
         NEW w \in Frames, Fresh(w), NEW k \in ModalKinds, kind' = [kind EXCEPT ![w] = k],
         \A i \in DOMAIN more :
            \/ more[i].at \in {"nonmodal", "commit"}
            \/ (/\ more[i].at = "modal" /\ more[i].frame = w
                /\ i = Len(more) - 1 /\ more[Len(more)].at = "commit"),
         Goes(ops, more),
         UNCHANGED <<endLoop, shown>>, closing' \subseteq Frames,
         Sound(m'), NEW X, Known(m') \subseteq Known(m) \cup X \cup {None},
         X \cap (Pending \cup {w}) = {},
         InSeq(m'.ModalStack) = InSeq(m.ModalStack),
         m'.InsertedFrame = m.InsertedFrame,
         m'.ExecutedFrame = w,
         m'.DeactivatedFrame = m.DeactivatedFrame
  PROVE  IInv'
  <1>1. CallsTyped' /\ Len(calls) \in Nat /\ CallsStep(Len(calls), {w})
    BY GoesIs
  <1>2. SlotsMove({w})
    BY DEF SlotsMove
  <1>3. ToStack' \subseteq ToStack \cup {w} /\ Pending' \subseteq Pending \cup {w}
    BY <1>1, <1>2, PendingStep
  <1>4. Top.at # "commit"
    BY RunningIs
  <1>5. w # None /\ w \notin Known(m) \cup Busy \cup Pending
    BY FreshIsNew
  <1>6. w # m.InsertedFrame
    BY <1>5 DEF Pending
  <1>7. FieldsStep({w}, X)
    <2>1. Known(m)' \subseteq Known(m) \cup X \cup {None}
      BY DEF Known
    <2> QED
      BY <1>3, <1>4, <1>6, <2>1 DEF FieldsStep
  <1>8. KindStep
    <2>1. w \notin InSeq(m'.ModalStack)
      BY <1>5 DEF Known
    <2>2. kind \in [Frames -> Kinds] /\ ModalKinds \subseteq Kinds
      BY InvGives DEF Kinds, ModalKinds
    <2>3. /\ kind' \in [Frames -> Kinds] /\ kind'[w] = k
          /\ \A f : f # w /\ f \in Frames => kind'[f] = kind[f]
      <3> HIDE DEF Kinds, ModalKinds
      <3> QED
        BY <2>2
    <2>4. InSeq(m'.ModalStack) \subseteq Frames /\ ToStack \subseteq Frames
      <3>1. m'.ModalStack \in Seq(Frames)
        BY FieldTypes DEF Sound
      <3> QED
        BY <3>1, SeqFacts, ToStackIs
    <2> QED
      BY <1>3, <2>1, <2>3, <2>4 DEF KindStep
  <1> QED
    BY <1>1, <1>2, <1>7, <1>8, InvGives, StepKeeps

LEMMA OpenWindowStep ==
  ASSUME IInv, NEW w \in Frames, OpenWindow(w)
  PROVE  IInv'
  <1>1. /\ Running /\ Fresh(w) /\ kind' = [kind EXCEPT ![w] = "window"]
        /\ m' = InsertFrame(m, w) /\ UNCHANGED <<endLoop, shown, closing>>
        /\ Goes(Top.ops + 1, <<>>)
    BY DEF OpenWindow, Did
  <1>2. Top.ops + 1 \in Nat
    BY <1>1, RunningIs
  <1>3. Sound(m) /\ w \in FrameOrNone /\ closing' \subseteq Frames
    BY <1>1, InvGives DEF FrameOrNone
  <1>4. /\ Sound(m') /\ Known(m') = Known(m)
        /\ m'.ModalStack = m.ModalStack
        /\ m'.InsertedFrame = w
        /\ m'.ExecutedFrame = m.ExecutedFrame
        /\ m'.DeactivatedFrame = m.DeactivatedFrame
    BY <1>1, <1>3, InsertFrameIs
  <1>5. Known(m') \subseteq Known(m) \cup {} \cup {None} /\ {} \cap (Pending \cup {w}) = {}
    BY <1>4
  <1> QED
    BY <1>1, <1>2, <1>3, <1>4, <1>5, NewWindowStep

LEMMA ReloadFileStep ==
  ASSUME IInv, NEW g \in Frames, NEW w \in Frames, ReloadFile(g, w)
  PROVE  IInv'
  <1>1. /\ Running /\ Fresh(w) /\ kind' = [kind EXCEPT ![w] = "window"]
        /\ InList(m, g) /\ closing' = closing \cup {g}
        /\ m' = InsertFrame(DeleteFrame(m, g), w) /\ UNCHANGED <<endLoop, shown>>
        /\ Goes(Top.ops + 1, <<>>)
    BY DEF ReloadFile, Did
  <1>2. Top.ops + 1 \in Nat
    BY <1>1, RunningIs
  <1>3. Sound(m) /\ w \in FrameOrNone /\ g \in FrameOrNone /\ closing' \subseteq Frames
    BY <1>1, InvGives DEF FrameOrNone
  <1> DEFINE d == DeleteFrame(m, g)
  <1>4. Keeps(m, d, {g}, {})
    BY <1>3, DeleteFrameKeeps
  <1>5. /\ d.ModalStack = m.ModalStack
        /\ d.ExecutedFrame = m.ExecutedFrame
        /\ d.DeactivatedFrame = m.DeactivatedFrame
    BY <1>3 DEF Sound, Fields, DeleteFrame
  <1>6. m' = InsertFrame(d, w)
    BY <1>1
  <1> HIDE DEF d
  <1>7. /\ Sound(m') /\ Known(m') = Known(d)
        /\ m'.ModalStack = d.ModalStack
        /\ m'.InsertedFrame = w
        /\ m'.ExecutedFrame = d.ExecutedFrame
        /\ m'.DeactivatedFrame = d.DeactivatedFrame
    BY <1>3, <1>4, <1>6, InsertFrameIs DEF Keeps
  <1>8. Known(m') \subseteq Known(m) \cup {g} \cup {None}
    BY <1>4, <1>7 DEF Keeps
  <1>9. {g} \cap (Pending \cup {w}) = {}
    <2>1. g \in Known(m)
      BY <1>1 DEF InList, Known
    <2>2. w \notin Known(m)
      BY <1>1, FreshIsNew
    <2> QED
      BY <2>1, <2>2 DEF IInv, PendingIsUnknown
  <1> QED
    BY <1>1, <1>2, <1>3, <1>5, <1>7, <1>8, <1>9, NewWindowStep

LEMMA ReplaceFrameStep ==
  ASSUME IInv, NEW w \in Frames, ReplaceFrame(w)
  PROVE  IInv'
  <1> DEFINE f == Top.frame
  <1>1. /\ Running /\ Fresh(w) /\ closing' = closing \cup {f}
        /\ UNCHANGED <<endLoop, shown>> /\ Goes(HandlerOps, <<>>)
    BY DEF ReplaceFrame, Finish, Keys
  <1>2. HandlerOps \in Nat
    BY BoundsAssumption
  <1>3. /\ Sound(m) /\ w \in FrameOrNone /\ f \in FrameOrNone /\ closing' \subseteq Frames
        /\ f \notin Pending
    BY <1>1, InvGives, RunningIs DEF FrameOrNone
  <1>4. {f} \cap (Pending \cup {w}) = {}
    <2>1. f \in Busy
      <3>1. Top.at = "handler" /\ Len(calls) \in DOMAIN calls /\ Top = calls[Len(calls)]
        BY InvGives, TopIs DEF ReplaceFrame, Keys
      <3> QED
        BY <3>1 DEF Busy, CallsAt
    <2>2. w \notin Busy
      BY <1>1, FreshIsNew
    <2> QED
      BY <1>3, <2>1, <2>2
  <1>5. CASE kind[f] = "window"
    <2> DEFINE i == InsertFrame(m, w)
    <2>1. kind' = [kind EXCEPT ![w] = "window"] /\ m' = DeleteFrame(i, f)
      BY <1>5 DEF ReplaceFrame
    <2>2. /\ Sound(i) /\ Known(i) = Known(m)
          /\ i.ModalStack = m.ModalStack
          /\ i.InsertedFrame = w
          /\ i.ExecutedFrame = m.ExecutedFrame
          /\ i.DeactivatedFrame = m.DeactivatedFrame
      BY <1>3, InsertFrameIs
    <2> HIDE DEF i, f
    <2>3. Keeps(i, m', {f}, {})
      BY <1>3, <2>1, <2>2, DeleteFrameKeeps
    <2>4. /\ m'.ModalStack = i.ModalStack
          /\ m'.InsertedFrame = i.InsertedFrame
          /\ m'.ExecutedFrame = i.ExecutedFrame
          /\ m'.DeactivatedFrame = i.DeactivatedFrame
      BY <2>1, <2>2 DEF Sound, Fields, DeleteFrame
    <2>5. Sound(m') /\ Known(m') \subseteq Known(m) \cup {f} \cup {None}
      BY <2>2, <2>3 DEF Keeps
    <2> QED
      BY <1>1, <1>2, <1>3, <1>4, <2>1, <2>2, <2>4, <2>5, NewWindowStep
  <1>6. CASE kind[f] # "window"
    <2> DEFINE i == ExecuteFrame(m, w)
    <2>1. kind' = [kind EXCEPT ![w] = "editor"] /\ m' = DeleteFrame(i, f)
      BY <1>6 DEF ReplaceFrame
    <2>2. /\ Sound(i) /\ Known(i) = Known(m)
          /\ i.ModalStack = m.ModalStack
          /\ i.InsertedFrame = m.InsertedFrame
          /\ i.ExecutedFrame = w
          /\ i.DeactivatedFrame = m.DeactivatedFrame
      BY <1>3, ExecuteFrameIs
    <2> HIDE DEF i, f
    <2>3. Keeps(i, m', {f}, {})
      BY <1>3, <2>1, <2>2, DeleteFrameKeeps
    <2>4. /\ m'.ModalStack = i.ModalStack
          /\ m'.InsertedFrame = i.InsertedFrame
          /\ m'.ExecutedFrame = i.ExecutedFrame
          /\ m'.DeactivatedFrame = i.DeactivatedFrame
      BY <2>1, <2>2 DEF Sound, Fields, DeleteFrame
    <2>5. Sound(m') /\ Known(m') \subseteq Known(m) \cup {f} \cup {None}
      BY <2>2, <2>3 DEF Keeps
    <2>6. "editor" \in ModalKinds
      BY DEF ModalKinds
    <2>7. <<>> \in Seq(CallTypes) /\ DOMAIN <<>> = {}
      BY MoreIs
    <2> QED
      BY <1>1, <1>2, <1>3, <1>4, <2>1, <2>2, <2>4, <2>5, <2>6, <2>7, NewModalStep
  <1> QED
    BY <1>5, <1>6

LEMMA ExecuteModalStep ==
  ASSUME IInv, NEW d \in Frames, NEW k \in {"dialog", "viewer"}, ExecuteModal(d, k)
  PROVE  IInv'
  <1> DEFINE c == [at |-> "modal", phase |-> "run", frame |-> d,
                   level |-> Len(m.ModalStack), ev |-> k = "viewer"]
             more == <<c, CommitCall(0)>>
  <1>1. /\ Running /\ Fresh(d) /\ kind' = [kind EXCEPT ![d] = k]
        /\ m' = ExecuteFrame(m, d) /\ UNCHANGED <<endLoop, shown, closing>>
        /\ Goes(Top.ops, more)
    BY DEF ExecuteModal
  <1>2. Top.ops \in Nat
    BY <1>1, RunningIs
  <1>3. Sound(m) /\ d \in FrameOrNone /\ closing' \subseteq Frames
    BY <1>1, InvGives DEF FrameOrNone
  <1>4. /\ Sound(m') /\ Known(m') = Known(m)
        /\ m'.ModalStack = m.ModalStack
        /\ m'.InsertedFrame = m.InsertedFrame
        /\ m'.ExecutedFrame = d
        /\ m'.DeactivatedFrame = m.DeactivatedFrame
    BY <1>1, <1>3, ExecuteFrameIs
  <1>5. Known(m') \subseteq Known(m) \cup {} \cup {None} /\ {} \cap (Pending \cup {d}) = {}
    BY <1>4
  <1>6. c \in CallTypes
    <2>1. Len(m.ModalStack) \in Nat
      BY <1>3, FieldTypes, LenProperties DEF Sound
    <2> QED
      BY <2>1 DEF CallTypes, Phases
  <1>7. c.at = "modal" /\ c.frame = d
    OBVIOUS
  <1> HIDE DEF c
  <1>8. /\ more \in Seq(CallTypes)
        /\ \A i \in DOMAIN more :
            \/ more[i].at \in {"nonmodal", "commit"}
            \/ (/\ more[i].at = "modal" /\ more[i].frame = d
                /\ i = Len(more) - 1 /\ more[Len(more)].at = "commit")
    <2>1. CommitCall(0) \in CallTypes /\ CommitCall(0).at = "commit"
      BY CommitCallIs
    <2> QED
      BY <1>6, <1>7, <2>1
  <1>9. k \in ModalKinds
    BY DEF ModalKinds
  <1> HIDE DEF more
  <1> QED
    BY <1>1, <1>2, <1>3, <1>4, <1>5, <1>8, <1>9, NewModalStep

LEMMA ExecuteNonModalStep ==
  ASSUME IInv, NEW w \in Frames, ExecuteNonModal(w)
  PROVE  IInv'
  <1> DEFINE c == [at |-> "nonmodal", phase |-> "run", frame |-> w]
             more == <<c, CommitCall(0)>>
             m1 == [m EXCEPT !.ExecutedFrame = None]
  <1>1. /\ Running /\ Fresh(w) /\ kind' = [kind EXCEPT ![w] = "window"]
        /\ m' = InsertCommit(m1, w) /\ UNCHANGED <<endLoop, shown, closing>>
        /\ Goes(Top.ops + 1, more)
    BY DEF ExecuteNonModal, Did
  <1>2. Top.ops + 1 \in Nat /\ Top.at # "commit"
    BY <1>1, RunningIs
  <1>3. Sound(m) /\ m \in Fields
    BY <1>1, InvGives DEF Sound
  <1>4. m1 \in Fields
    BY <1>3, FieldTypes DEF Fields
  <1>5. /\ m1.FrameList = m.FrameList /\ m1.ModalStack = m.ModalStack
        /\ m1.FramePos = m.FramePos /\ m1.CurrentFrame = m.CurrentFrame
        /\ m1.ActivatedFrame = m.ActivatedFrame
        /\ m1.DeletedFrame = m.DeletedFrame
        /\ m1.InsertedFrame = m.InsertedFrame
        /\ m1.ExecutedFrame = None
        /\ m1.DeactivatedFrame = m.DeactivatedFrame
    BY <1>3 DEF Fields
  <1> HIDE DEF m1
  <1>6. Keeps(m, m1, {}, {})
    BY <1>3, <1>4, <1>5, SlotsStep DEF Known
  <1>7. w # None /\ w \notin Known(m) \cup Busy \cup Pending
    BY <1>1, FreshIsNew
  <1>8. Keeps(m1, m', {w}, {})
    <2>1. w \notin InSeq(m1.FrameList) \cup InSeq(m1.ModalStack) /\ Sound(m1)
      BY <1>5, <1>6, <1>7 DEF Known, Keeps
    <2> QED
      BY <1>1, <2>1, InsertCommitKeeps
  <1>9. Keeps(m, m', {} \cup {w}, {} \cup {})
    BY <1>6, <1>8, KeepsThen, Zenon
  <1>10. Keeps(m, m', {w}, {})
    BY <1>9
  <1>11. c \in CallTypes /\ c.at = "nonmodal"
    BY DEF CallTypes, Phases
  <1> HIDE DEF c
  <1>12. more \in Seq(CallTypes) /\ \A i \in DOMAIN more : more[i].at \in {"nonmodal", "commit"}
    <2>1. CommitCall(0) \in CallTypes /\ CommitCall(0).at = "commit"
      BY CommitCallIs
    <2> QED
      BY <1>11, <2>1
  <1> HIDE DEF more
  <1>13. CallsTyped' /\ Len(calls) \in Nat /\ CallsStep(Len(calls), {})
    BY <1>1, <1>2, <1>12, GoesIs
  <1>14. SlotsMove({})
    BY <1>10 DEF Keeps, SlotsMove
  <1>15. ToStack' \subseteq ToStack /\ Pending' \subseteq Pending
    BY <1>13, <1>14, PendingStep
  <1>16. Sound(m') /\ InSeq(m'.ModalStack) \subseteq InSeq(m.ModalStack)
    BY <1>10 DEF Keeps
  <1>17. FieldsStep({}, {w})
    <2>1. Known(m)' \subseteq Known(m) \cup {w} \cup {None}
      BY <1>10 DEF Known, Keeps
    <2>2. {w} \cap Pending' = {}
      BY <1>7, <1>15
    <2>3. m'.DeactivatedFrame \in {m.DeactivatedFrame, None}
      BY <1>10 DEF Keeps
    <2> QED
      BY <1>2, <1>16, <2>1, <2>2, <2>3 DEF FieldsStep
  <1>18. KindStep
    <2>1. w \notin ToStack /\ w \notin InSeq(m'.ModalStack)
      BY <1>7, <1>16 DEF Pending, Known
    <2>2. kind \in [Frames -> Kinds] /\ "window" \in Kinds
      BY InvGives DEF Kinds
    <2>3. kind' \in [Frames -> Kinds] /\ \A f : f # w /\ f \in Frames => kind'[f] = kind[f]
      BY <1>1, <2>2
    <2>4. InSeq(m'.ModalStack) \subseteq Frames /\ ToStack \subseteq Frames
      <3>1. m'.ModalStack \in Seq(Frames)
        BY <1>16, FieldTypes DEF Sound
      <3> QED
        BY <3>1, SeqFacts, ToStackIs
    <2> QED
      BY <1>15, <2>1, <2>3, <2>4 DEF KindStep
  <1> QED
    BY <1>1, <1>13, <1>14, <1>16, <1>17, <1>18, InvGives, StepKeeps

LEMMA CloseFrameStep ==
  ASSUME IInv, CloseFrame
  PROVE  IInv'
  <1> DEFINE f == Top.frame
  <1>1. /\ Running /\ closing' = closing \cup {f} /\ UNCHANGED <<kind, endLoop, shown>>
        /\ \/ m' = DeleteFrame(m, f) /\ Goes(HandlerOps, <<CommitCall(1)>>)
           \/ m' = DeleteFrame(m, None) /\ Goes(HandlerOps, <<>>)
    BY DEF CloseFrame, Keys, Finish
  <1>2. /\ Sound(m) /\ f \in FrameOrNone /\ None \in FrameOrNone
        /\ closing' \subseteq Frames /\ f \notin Pending /\ HandlerOps \in Nat
        /\ endLoop' \in BOOLEAN
    BY <1>1, InvGives, RunningIs, BoundsAssumption DEF FrameOrNone
  <1>3. None \notin Pending
    BY DEF Pending, ToStack, Thens
  <1>4. /\ <<>> \in Seq(CallTypes) /\ DOMAIN <<>> = {}
        /\ <<CommitCall(1)>> \in Seq(CallTypes)
        /\ \A i \in DOMAIN <<CommitCall(1)>> : <<CommitCall(1)>>[i].at = "commit"
    BY MoreIs
  <1> HIDE DEF f
  <1>5. CASE m' = DeleteFrame(m, f) /\ Goes(HandlerOps, <<CommitCall(1)>>)
    <2>1. Keeps(m, m', {f}, {})
      BY <1>2, <1>5, DeleteFrameKeeps
    <2> DEFINE more == <<CommitCall(1)>>
    <2>2. /\ more \in Seq(CallTypes) /\ \A i \in DOMAIN more : more[i].at = "commit"
          /\ Goes(HandlerOps, more)
      BY <1>4, <1>5
    <2>3. {f} \cap Pending = {}
      BY <1>2
    <2> HIDE DEF more
    <2> QED
      BY <1>1, <1>2, <2>1, <2>2, <2>3, AskStep
  <1>6. CASE m' = DeleteFrame(m, None) /\ Goes(HandlerOps, <<>>)
    <2>1. Keeps(m, m', {None}, {}) /\ {None} \cap Pending = {}
      BY <1>2, <1>3, <1>6, DeleteFrameKeeps
    <2> QED
      BY <1>1, <1>2, <1>4, <1>6, <2>1, AskStep
  <1> QED
    BY <1>1, <1>5, <1>6

LEMMA SwitchToOpenFileStep ==
  ASSUME IInv, NEW g \in Frames, SwitchToOpenFile(g)
  PROVE  IInv'
  <1>1. /\ Running /\ m' = ActivateFrame(m, g) /\ Goes(Top.ops + 1, <<>>)
        /\ UNCHANGED <<kind, endLoop, shown, closing>>
    BY DEF SwitchToOpenFile, Did
  <1>2. Top.ops + 1 \in Nat /\ Sound(m) /\ endLoop' \in BOOLEAN /\ closing' \subseteq Frames
    BY <1>1, RunningIs, InvGives
  <1>3. Keeps(m, m', {}, {})
    BY <1>1, <1>2, ActivateFrameKeeps
  <1>4. <<>> \in Seq(CallTypes) /\ DOMAIN <<>> = {}
    BY MoreIs
  <1> QED
    BY <1>1, <1>2, <1>3, <1>4, AskStep

LEMMA QuitViewerStep ==
  ASSUME IInv, NEW g \in Frames, QuitViewer(g)
  PROVE  IInv'
  <1> DEFINE more == <<CommitCall(0)>>
  <1>1. /\ Running /\ InList(m, g) /\ m' = DeleteFrame(m, g) /\ Goes(Top.ops + 1, more)
        /\ closing' = closing \cup {g} /\ UNCHANGED <<kind, endLoop, shown>>
    BY Zenon DEF QuitViewer, Did
  <1>2. /\ Top.ops + 1 \in Nat /\ Sound(m) /\ endLoop' \in BOOLEAN
        /\ closing' \subseteq Frames /\ g \in FrameOrNone
    BY <1>1, RunningIs, InvGives DEF FrameOrNone
  <1>3. Keeps(m, m', {g}, {})
    BY <1>1, <1>2, DeleteFrameKeeps
  <1>4. {g} \cap Pending = {}
    BY <1>1 DEF InList, IInv, PendingIsUnknown, Known
  <1>5. more \in Seq(CallTypes) /\ \A i \in DOMAIN more : more[i].at = "commit"
    BY MoreIs
  <1> HIDE DEF more
  <1> QED
    BY <1>1, <1>2, <1>3, <1>4, <1>5, AskStep

LEMMA PluginCommitStep ==
  ASSUME IInv, PluginCommit
  PROVE  IInv'
  <1> DEFINE more == <<CommitCall(0)>>
  <1>1. /\ Running /\ Goes(Top.ops + 1, more)
        /\ UNCHANGED <<m, kind, endLoop, shown, closing>>
    BY DEF PluginCommit, Did
  <1>2. Top.ops + 1 \in Nat /\ Sound(m) /\ endLoop' \in BOOLEAN /\ closing' \subseteq Frames
    BY <1>1, RunningIs, InvGives
  <1>3. Keeps(m, m', {}, {})
    BY <1>1, <1>2, KeepsSame
  <1>4. more \in Seq(CallTypes) /\ \A i \in DOMAIN more : more[i].at = "commit"
    BY MoreIs
  <1> HIDE DEF more
  <1> QED
    BY <1>1, <1>2, <1>3, <1>4, AskStep

LEMMA ExitMainLoopStep ==
  ASSUME IInv, ExitMainLoop
  PROVE  IInv'
  <1>1. /\ Running /\ Goes(HandlerOps, <<>>) /\ endLoop' = TRUE
        /\ UNCHANGED <<m, kind, shown, closing>>
    BY DEF ExitMainLoop, Keys, Finish
  <1>2. HandlerOps \in Nat /\ Sound(m) /\ endLoop' \in BOOLEAN /\ closing' \subseteq Frames
    BY <1>1, BoundsAssumption, InvGives
  <1>3. Keeps(m, m', {}, {})
    BY <1>1, <1>2, KeepsSame
  <1>4. <<>> \in Seq(CallTypes) /\ DOMAIN <<>> = {}
    BY MoreIs
  <1> QED
    BY <1>1, <1>2, <1>3, <1>4, AskStep

LEMMA SwitchFrameStep ==
  ASSUME IInv, NEW direction \in {-1, 1}, SwitchFrame(direction)
  PROVE  IInv'
  <1> DEFINE f == m.CurrentFrame
  <1>1. /\ Running /\ CanLoseFocus(f)
        /\ m' = DeactivateFrame(m, f, direction) /\ Goes(HandlerOps, <<>>)
        /\ UNCHANGED <<kind, endLoop, shown, closing>>
    BY DEF SwitchFrame, Keys, Finish
  <1>2. HandlerOps \in Nat /\ Sound(m) /\ f \in FrameOrNone /\ direction \in {-1, 0, 1}
    BY BoundsAssumption, InvGives
  <1> HIDE DEF f
  <1>3. /\ Sound(m')
        /\ Known(m') \subseteq Known(m) \cup {None}
        /\ InSeq(m'.ModalStack) \subseteq InSeq(m.ModalStack)
        /\ m'.InsertedFrame \in {m.InsertedFrame, None}
        /\ m'.ExecutedFrame \in {m.ExecutedFrame, None}
        /\ m'.DeactivatedFrame = f
    BY <1>1, <1>2, DeactivateFrameKeeps
  <1> QED
    BY <1>1, <1>2, <1>3, DeactivateStep

(* A frame chosen by its index is activated, and f, if any, deactivated.    *)
LEMMA ChooseStep ==
  ASSUME IInv, Running, NEW ops \in Nat, Goes(ops, <<>>),
         UNCHANGED <<kind, endLoop, shown, closing>>,
         NEW index \in Nat, NEW f \in FrameOrNone, f = None \/ CanLoseFocus(f),
         m' = DeactivateFrame(ActivateIndex(m, index), f, 0)
  PROVE  IInv'
  <1> DEFINE a == ActivateIndex(m, index)
  <1>1. Sound(m)
    BY InvGives
  <1>2. Keeps(m, a, {}, {})
    BY <1>1, ActivateIndexKeeps
  <1> HIDE DEF a
  <1>3. /\ Sound(m')
        /\ Known(m') \subseteq Known(a) \cup {None}
        /\ InSeq(m'.ModalStack) \subseteq InSeq(a.ModalStack)
        /\ m'.InsertedFrame \in {a.InsertedFrame, None}
        /\ m'.ExecutedFrame \in {a.ExecutedFrame, None}
        /\ m'.DeactivatedFrame = f
    <2> DEFINE direction == 0
               r == DeactivateFrame(a, f, direction)
    <2>1. m' = r /\ Sound(a) /\ direction \in {-1, 0, 1}
      BY <1>2 DEF a, Keeps
    <2> HIDE DEF direction
    <2>2. /\ Sound(r)
          /\ Known(r) \subseteq Known(a) \cup {None}
          /\ InSeq(r.ModalStack) \subseteq InSeq(a.ModalStack)
          /\ r.InsertedFrame \in {a.InsertedFrame, None}
          /\ r.ExecutedFrame \in {a.ExecutedFrame, None}
          /\ r.DeactivatedFrame = f
      BY <2>1, DeactivateFrameKeeps
    <2> HIDE DEF r
    <2> QED
      BY <2>1, <2>2
  <1>4. /\ Known(m') \subseteq Known(m) \cup {None}
        /\ InSeq(m'.ModalStack) \subseteq InSeq(m.ModalStack)
        /\ m'.InsertedFrame \in {m.InsertedFrame, None}
        /\ m'.ExecutedFrame \in {m.ExecutedFrame, None}
    BY <1>2, <1>3 DEF Keeps
  <1> QED
    BY <1>3, <1>4, DeactivateStep

LEMMA FrameMenuStep ==
  ASSUME IInv, NEW index \in Nat, FrameMenu(index)
  PROVE  IInv'
  <1> DEFINE f == IF ActivateIndex(m, index).ActivatedFrame = m.CurrentFrame
                  THEN None ELSE m.CurrentFrame
  <1>1. /\ Running /\ CanLoseFocus(m.CurrentFrame)
        /\ m' = DeactivateFrame(ActivateIndex(m, index), f, 0)
        /\ Goes(HandlerOps, <<>>)
        /\ UNCHANGED <<kind, endLoop, shown, closing>>
    BY DEF FrameMenu, Keys, Finish
  <1>2. HandlerOps \in Nat /\ f \in FrameOrNone /\ (f = None \/ CanLoseFocus(f))
    BY <1>1, BoundsAssumption, InvGives DEF FrameOrNone
  <1> HIDE DEF f
  <1> QED
    BY <1>1, <1>2, ChooseStep

LEMMA SetCurrentWindowStep ==
  ASSUME IInv, NEW index \in Nat, SetCurrentWindow(index)
  PROVE  IInv'
  <1>1. /\ Running /\ CanLoseFocus(m.CurrentFrame)
        /\ m' = DeactivateFrame(ActivateIndex(m, index), m.CurrentFrame, 0)
        /\ Goes(Top.ops + 1, <<>>)
        /\ UNCHANGED <<kind, endLoop, shown, closing>>
    BY DEF SetCurrentWindow, Did
  <1>2. Top.ops + 1 \in Nat /\ m.CurrentFrame \in FrameOrNone
    BY <1>1, RunningIs, InvGives
  <1> QED
    BY <1>1, <1>2, ChooseStep

-----------------------------------------------------------------------------
LEMMA InitInv ==
  ASSUME Init
  PROVE  IInv
  <1>1. m \in Fields
    BY FramesAssumption DEF Init, Fields, FrameOrNone
  <1>2. /\ m.FrameList = <<Panels>> /\ m.ModalStack = <<>> /\ m.FramePos = 0
        /\ m.InsertedFrame = None /\ m.ExecutedFrame = None
        /\ m.DeactivatedFrame = None
    BY DEF Init
  <1>3. kind \in [Frames -> Kinds]
    BY DEF Init, Kinds
  <1>4. calls = <<[at |-> "main", phase |-> "commit"]>> /\ calls \in Seq(CallTypes)
    BY DEF Init, CallTypes, Phases
  <1>5. /\ calls # <<>> /\ DOMAIN calls = {1} /\ calls[1].at = "main"
    BY <1>4
  <1>6. endLoop \in BOOLEAN /\ shown \in FrameOrNone /\ closing \subseteq Frames
    BY FramesAssumption DEF Init, FrameOrNone
  <1>7. \A places : "main" \notin places => CallsAt(places) = {}
    BY <1>5 DEF CallsAt
  <1>8. Thens = {} /\ ToStack = {} /\ Pending = {}
    BY <1>2, <1>7 DEF Thens, ToStack, Pending
  <1>9. NoFrameTwice
    BY <1>2 DEF NoFrameTwice, InSeq
  <1>10. PendingIsUnknown /\ PendingOnce /\ ModalIsExecuted
    BY <1>2, <1>7, <1>8 DEF PendingIsUnknown, PendingOnce, ModalIsExecuted
  <1>11. StackKeepsFocus
    BY <1>2, <1>8 DEF StackKeepsFocus, InSeq
  <1> QED
    BY <1>1, <1>2, <1>3, <1>4, <1>5, <1>6, <1>9, <1>10, <1>11
       DEF IInv, TypeOK, MainIsAtTheBottom

LEMMA NextInv ==
  ASSUME IInv, [Next]_vars
  PROVE  IInv'
  <1>1. CASE Step
    BY <1>1, CommitStep, DestroyedStep, LoopCommitStep, ProcessMainLoopStep,
       LeaveLoopStep, CloseAllStep, ReturnStep DEF Step
  <1>2. ASSUME NEW w \in Frames, OpenWindow(w) \/ ExecuteNonModal(w) \/ ReplaceFrame(w)
        PROVE  IInv'
    BY <1>2, OpenWindowStep, ExecuteNonModalStep, ReplaceFrameStep
  <1>3. ASSUME NEW d \in Frames, NEW k \in {"dialog", "viewer"}, ExecuteModal(d, k)
        PROVE  IInv'
    BY <1>3, ExecuteModalStep
  <1>4. ASSUME NEW g \in Frames, SwitchToOpenFile(g) \/ QuitViewer(g)
        PROVE  IInv'
    BY <1>4, SwitchToOpenFileStep, QuitViewerStep
  <1>5. ASSUME NEW g \in Frames, NEW w \in Frames, ReloadFile(g, w)
        PROVE  IInv'
    BY <1>5, ReloadFileStep
  <1>6. CASE CloseFrame
    BY <1>6, CloseFrameStep
  <1>7. ASSUME NEW direction \in {-1, 1}, SwitchFrame(direction)
        PROVE  IInv'
    BY <1>7, SwitchFrameStep
  <1>8. ASSUME NEW index \in 0 .. Cardinality(Frames),
               FrameMenu(index) \/ SetCurrentWindow(index)
        PROVE  IInv'
    <2>1. index \in Nat
      OBVIOUS
    <2> QED
      BY <1>8, <2>1, FrameMenuStep, SetCurrentWindowStep
  <1>9. CASE PluginCommit
    BY <1>9, PluginCommitStep
  <1>10. CASE ExitMainLoop
    BY <1>10, ExitMainLoopStep
  <1>11. CASE Exited \/ UNCHANGED vars
    <2>1. UNCHANGED <<m, kind, calls, endLoop, shown, closing>>
      BY <1>11 DEF Exited, vars
    <2>2. TypeOK' /\ MainIsAtTheBottom' /\ NoFrameTwice'
      BY <2>1 DEF IInv, TypeOK, MainIsAtTheBottom, NoFrameTwice
    <2>3. /\ Thens' = Thens /\ ToStack' = ToStack /\ Pending' = Pending
          /\ Busy' = Busy /\ Known(m)' = Known(m)
      BY <2>1 DEF Thens, ToStack, Pending, Busy, CallsAt, Known
    <2>4. PendingIsUnknown' /\ PendingOnce'
      BY <2>1, <2>3 DEF IInv, PendingIsUnknown, PendingOnce, CallsAt
    <2>5. StackKeepsFocus'
      BY <2>1, <2>3 DEF IInv, StackKeepsFocus, CanLoseFocus
    <2>6. ModalIsExecuted'
      BY <2>1 DEF IInv, ModalIsExecuted, CallsAt, Top
    <2> QED
      BY <2>2, <2>4, <2>5, <2>6 DEF IInv
  <1> QED
    BY <1>1, <1>2, <1>3, <1>4, <1>5, <1>6, <1>7, <1>8, <1>9, <1>10, <1>11 DEF Next

(* FramePos never leaves the list, and whatever handlers, nested loops and  *)
(* close events ask of the manager, its fields and the call stack keep      *)
(* their types.                                                             *)
THEOREM TypeCorrect == Spec => []TypeOK
  <1>1. IInv => TypeOK
    BY DEF IInv
  <1> QED
    BY <1>1, InitInv, NextInv, PTL DEF Spec

(* A frame is at most once in the list or on the stack, and never in both:  *)
(* the destructor that erase() of its one entry leads to runs once.         *)
THEOREM NothingIsListedTwice == Spec => []NoFrameTwice
  <1>1. IInv => NoFrameTwice
    BY DEF IInv
  <1> QED
    BY <1>1, InitInv, NextInv, PTL DEF Spec

-----------------------------------------------------------------------------
(* More about lists of frames.                                              *)

LEMMA SameSeq ==
  ASSUME NEW S, NEW s \in Seq(S), NEW t \in Seq(S), Len(s) = Len(t),
         \A k \in 1 .. Len(s) : s[k] = t[k]
  PROVE  s = t
  <1>1. /\ s \in [1 .. Len(s) -> S] /\ t \in [1 .. Len(t) -> S]
    BY LenProperties
  <1> QED
    BY <1>1

LEMMA LastIs ==
  ASSUME NEW s \in Seq(Frames), s # <<>>
  PROVE  /\ LastOf(s) \in InSeq(s) /\ LastOf(s) \in Frames
         /\ Len(s) \in Nat /\ Len(s) > 0 /\ Len(s) \in DOMAIN s
         /\ LastOf(s) = s[Len(s)]
  <1>1. Len(s) \in Nat /\ Len(s) > 0 /\ Len(s) \in DOMAIN s
    BY SeqFacts
  <1> QED
    BY <1>1, SeqFacts DEF LastOf

(* erase() leaves the other frames where they are, or one place down.       *)
LEMMA OthersStay ==
  ASSUME NEW s \in Seq(Frames), Distinct(s), NEW f \in InSeq(s)
  PROVE  LET t == Without(s, f)
         IN  /\ InSeq(t) = InSeq(s) \ {f}
             /\ s[1] # f => t # <<>> /\ t[1] = s[1]
             /\ f = LastOf(s) => /\ Len(t) = Len(s) - 1
                                 /\ \A k \in 1 .. Len(s) - 1 : t[k] = s[k]
  <1> DEFINE i == IndexOf(s, f)
             n == Len(s)
             t == [k \in 1 .. n - 1 |-> s[IF k < i THEN k ELSE k + 1]]
  <1>1. /\ n \in Nat /\ DOMAIN s = 1 .. n /\ i \in DOMAIN s /\ s[i] = f
        /\ \A k \in DOMAIN s : s[k] \in Frames
    BY SeqFacts, IndexOfIs
  <1>2. Without(s, f) = t
    BY DEF Without
  <1>3. t \in Seq(Frames) /\ f \notin InSeq(t) /\ InSeq(t) \subseteq InSeq(s)
    BY <1>2, WithoutIs
  <1> HIDE DEF i, n
  <1>4. n - 1 \in Nat
    BY <1>1
  <1>5. \A k \in 1 .. n - 1 : t[k] = s[IF k < i THEN k ELSE k + 1]
    OBVIOUS
  <1>6. DOMAIN t = 1 .. n - 1 /\ Len(t) = n - 1
    <2>1. DOMAIN t = 1 .. n - 1
      OBVIOUS
    <2>2. Len(t) \in Nat /\ DOMAIN t = 1 .. Len(t)
      <3> HIDE DEF t
      <3> QED BY <1>3, LenProperties
    <2> HIDE DEF t
    <2>3. Len(t) = n - 1
      BY <1>4, <2>1, <2>2
    <2> QED
      BY <2>1, <2>3
  <1> HIDE DEF t
  <1>7. ASSUME NEW k \in 1 .. n - 1
        PROVE  k < i => t[k] = s[k]
    BY <1>5
  <1>8. ASSUME NEW g \in InSeq(s), g # f
        PROVE  g \in InSeq(t)
    <2>1. PICK j \in 1 .. n : s[j] = g
      BY <1>1, SeqFacts
    <2>2. j # i
      BY <1>1, <1>8, <2>1
    <2>3. CASE j < i
      <3>1. j \in 1 .. n - 1
        BY <1>1, <2>1, <2>3
      <3> QED
        BY <1>5, <1>6, <2>1, <2>3, <3>1 DEF InSeq
    <2>4. CASE ~(j < i)
      <3>1. j - 1 \in 1 .. n - 1 /\ ~(j - 1 < i) /\ j - 1 + 1 = j
        BY <1>1, <2>1, <2>2, <2>4
      <3>2. t[j - 1] = s[j]
        BY <1>5, <3>1
      <3> QED
        BY <1>6, <2>1, <3>1, <3>2 DEF InSeq
    <2> QED
      BY <2>3, <2>4
  <1>9. InSeq(t) = InSeq(s) \ {f}
    BY <1>3, <1>8
  <1>10. ASSUME s[1] # f
         PROVE  t # <<>> /\ t[1] = s[1]
    <2>1. 1 \in 1 .. n - 1 /\ 1 < i
      BY <1>1, <1>10
    <2>2. t[1] = s[1]
      BY <1>7, <2>1
    <2>3. t # <<>>
      BY <1>6, <2>1
    <2> QED
      BY <2>2, <2>3
  <1>11. ASSUME f = LastOf(s)
         PROVE  \A k \in 1 .. n - 1 : t[k] = s[k]
    <2>1. i = n
      <3>1. s[n] = f /\ n \in DOMAIN s
        BY <1>1, <1>11 DEF LastOf, n
      <3> QED
        BY <1>1, <3>1 DEF Distinct
    <2>2. \A k \in 1 .. n - 1 : k < i
      BY <1>1, <2>1
    <2> QED
      BY <1>7, <2>2
  <1> QED
    BY <1>2, <1>6, <1>9, <1>10, <1>11 DEF n

(* The topmost frame is moved to the top.                                   *)
LEMMA LastAgain ==
  ASSUME NEW s \in Seq(Frames), Distinct(s), s # <<>>
  PROVE  Append(Without(s, LastOf(s)), LastOf(s)) = s
  <1> DEFINE f == LastOf(s)
             t == Without(s, f)
             n == Len(s)
  <1>1. f \in InSeq(s) /\ f \in Frames /\ n \in Nat /\ n > 0 /\ s[n] = f
    BY LastIs
  <1>2. t \in Seq(Frames) /\ Len(t) = n - 1 /\ \A k \in 1 .. n - 1 : t[k] = s[k]
    BY <1>1, WithoutIs, OthersStay
  <1> HIDE DEF t, f, n
  <1>3. /\ Append(t, f) \in Seq(Frames) /\ Len(Append(t, f)) = Len(t) + 1
        /\ \A k \in 1 .. Len(t) : Append(t, f)[k] = t[k]
        /\ Append(t, f)[Len(t) + 1] = f
    BY <1>1, <1>2, AppendProperties
  <1>4. Len(Append(t, f)) = n
    BY <1>1, <1>2, <1>3
  <1>5. ASSUME NEW k \in 1 .. n PROVE Append(t, f)[k] = s[k]
    <2>1. CASE k = n
      BY <1>1, <1>2, <1>3, <2>1
    <2>2. CASE k # n
      <3>1. k \in 1 .. n - 1
        BY <1>1, <2>2
      <3> QED
        BY <1>2, <1>3, <3>1
    <2> QED
      BY <2>1, <2>2
  <1>6. Append(t, f) = s
    BY <1>3, <1>4, <1>5, SameSeq DEF n
  <1> QED
    BY <1>6 DEF t, f

-----------------------------------------------------------------------------
(* The invariant DInv of the program whose handlers behave: what is asked   *)
(* of the manager at one time (PlanFits), where the frames are (FramesInv), *)
(* and how the loops on the call stack fit the modal stack (LoopsInv).      *)

(* One request of a handler at a time, and plugins that leave the manager   *)
(* alone in close events and name only the current viewer: what the frames  *)
(* of far themselves do.                                                    *)
Disciplined == HandlerOps = 1 /\ PluginUse = {}

(* The frame that is current while the stack holds `depth' frames.          *)
Below(mm, depth) == IF depth = 0 THEN mm.FrameList[mm.FramePos + 1]
                    ELSE mm.ModalStack[depth]
AtHome(mm) == mm.CurrentFrame = Below(mm, Len(mm.ModalStack))

NothingAsked(mm) ==
    mm.InsertedFrame = None /\ mm.DeletedFrame = None /\ mm.ExecutedFrame = None
NoSwitch(mm) == mm.ActivatedFrame = None /\ mm.DeactivatedFrame = None

(* What may be asked of the manager at one time: nothing; to open a window, *)
(* perhaps in the place of another one; to show a modal frame; to close the *)
(* current frame, perhaps with an editor in the place of a modal one; to    *)
(* switch between the frames of the list; to start the modal frame that was *)
(* put onto the stack.                                                      *)
Settled(mm) == NothingAsked(mm) /\ NoSwitch(mm) /\ AtHome(mm)
Opens(mm) ==
    /\ mm.InsertedFrame # None /\ mm.ExecutedFrame = None
    /\ mm.DeletedFrame # None => InList(mm, mm.DeletedFrame) /\ mm.DeletedFrame # Panels
    /\ NoSwitch(mm) /\ AtHome(mm) /\ mm.ModalStack = <<>>
Executes(mm) ==
    /\ mm.InsertedFrame = None /\ mm.ExecutedFrame # None /\ mm.DeletedFrame = None
    /\ NoSwitch(mm) /\ AtHome(mm)
Closes(mm) ==
    /\ mm.InsertedFrame = None
    /\ mm.DeletedFrame # None /\ mm.DeletedFrame # Panels
    /\ NoSwitch(mm) /\ AtHome(mm) /\ mm.DeletedFrame = mm.CurrentFrame
    /\ mm.ExecutedFrame # None => mm.ModalStack # <<>>
Switches(mm) ==
    /\ NothingAsked(mm) /\ mm.ModalStack = <<>>
    /\ mm.CurrentFrame # None => InList(mm, mm.CurrentFrame)
    /\ mm.ActivatedFrame # None => InList(mm, mm.ActivatedFrame)
    /\ mm.ActivatedFrame \in {None, mm.CurrentFrame} => AtHome(mm)
    /\ mm.DeactivatedFrame \in {None, mm.CurrentFrame}
Starts(mm) ==
    /\ NothingAsked(mm) /\ mm.DeactivatedFrame = None /\ mm.ModalStack # <<>>
    /\ mm.ActivatedFrame = LastOf(mm.ModalStack)
    /\ mm.CurrentFrame # mm.ActivatedFrame
    /\ InList(mm, mm.CurrentFrame) \/ InStack(mm, mm.CurrentFrame)

Plans(mm) == Settled(mm) \/ Opens(mm) \/ Closes(mm) \/ Switches(mm) \/ Starts(mm)

(* While a frame is being deleted: a window, which has a successor; an      *)
(* editor on top of the stack; any frame of the list at the end.            *)
WindowDies == Switches(m) /\ m.ActivatedFrame # None /\ Top.then = None
EditorDies ==
    /\ NothingAsked(m) /\ NoSwitch(m) /\ m.CurrentFrame = None
    /\ m.ModalStack # <<>> /\ LastOf(m.ModalStack) = Top.frame
    /\ ~Top.listed
    /\ Top.then # None => kind[Top.then] = "editor"
Ends ==
    /\ NothingAsked(m) /\ m.DeactivatedFrame = None /\ m.ModalStack = <<>> /\ endLoop
    /\ m.CurrentFrame # None => InList(m, m.CurrentFrame)

Drawn == (IF m.RefreshedFrame = None THEN shown ELSE m.RefreshedFrame) = m.CurrentFrame

(* What is asked depends on who runs.                                       *)
PlanFits ==
    /\ Top.at = "closeall" => Ends
    /\ Top.at = "destroy" =>
         /\ ~InList(m, Top.frame) /\ kind[Top.frame] \in {"panels", "window", "editor"}
         /\ IF calls[1].at = "main" THEN WindowDies \/ EditorDies
            ELSE Ends /\ Top.then = None
    /\ Top.at = "commit" => Plans(m) \/ Executes(m)
    /\ Top.at = "handler" /\ Top.ops = 0 =>
         /\ Settled(m) /\ Top.frame = m.CurrentFrame
         /\ Top.began \/ m.RefreshedFrame = None
    /\ Top.at = "handler" /\ Top.ops # 0 => Plans(m)
    /\ IsLoop(Top) /\ Top.phase = "run" => Settled(m) /\ m.RefreshedFrame = None
    /\ IsLoop(Top) /\ Top.phase = "commit" => Plans(m)
    /\ Top.at \in {"commit", "handler", "main", "modal", "nonmodal"}
         /\ m.ActivatedFrame = None => Drawn

(* Where the frames of each kind are.                                       *)
Places ==
    /\ calls[1].at = "main" => m.FrameList # <<>>
    /\ m.FrameList # <<>> => m.FrameList[1] = Panels
    /\ \A f \in InSeq(m.FrameList) : kind[f] = IF f = Panels THEN "panels" ELSE "window"
    /\ \A f \in InSeq(m.ModalStack) : kind[f] \in ModalKinds
    /\ m.InsertedFrame # None => kind[m.InsertedFrame] = "window"
    /\ m.ExecutedFrame # None =>
         kind[m.ExecutedFrame] \in IF m.DeletedFrame = None THEN {"dialog", "viewer"}
                                                            ELSE {"editor"}
    /\ \A f \in Frames : kind[f] = "window" =>
         InList(m, f) \/ f = m.InsertedFrame \/ f \in UnderDeletion

(* Every frame of the list goes back to one that is there, too.             *)
BackIsListed ==
    \A f \in InSeq(m.FrameList) :
        InList(m, m.FrameToBack[f]) \/ (f = Panels /\ m.FrameToBack[f] = None)

(* What is to be deleted is, or is no longer in the list or on the stack.   *)
ClosingLeaves ==
    /\ closing \cap Pending = {}
    /\ \A f \in closing : /\ kind[f] # "none"
                          /\ \/ f = m.DeletedFrame \/ f \in UnderDeletion
                             \/ ~InList(m, f) /\ ~InStack(m, f)

(* The call stack: what is called from where.                               *)
Follows(a, b) ==
    \/ b.at = "modal" /\ a.at = "handler" /\ a.ops = 0 /\ a.began
    \/ b.at = "nonmodal" /\ a.at = "handler" /\ a.ops = 1 /\ a.began
    \/ /\ b.at = "handler" /\ IsLoop(a) /\ a.phase = "commit"
       /\ b.ops = 0 \/ (b.ops = 1 /\ b.began)
    \/ b.at = "commit" /\ IsLoop(a) /\ a.phase = "run" /\ b.count = 0
    \/ b.at \in {"commit", "destroy"} /\ a.at = "handler" /\ a.ops = 1 /\ a.began
    \/ b.at = "destroy" /\ a.at \in {"commit", "closeall"}
Shape(s) ==
    /\ \A k \in DOMAIN s : k > 1 => Follows(s[k - 1], s[k])
    /\ s[1].at # "main" => \A k \in DOMAIN s : k > 1 => s[k].at = "destroy"

(* Modal loops nest inside the others, each with one frame of the stack,    *)
(* which is the one it was entered for or one that has taken its place.     *)
Modals(s) == {k \in DOMAIN s : s[k].at = "modal"}
Nested(s) ==
    /\ \A j \in DOMAIN s, k \in Modals(s) : s[j].at = "nonmodal" => j < k
    /\ \A j, k \in Modals(s) : j < k => s[j].level < s[k].level
LevelsAre(s, n) == {s[k].level : k \in Modals(s)} = 0 .. n - 1
LoopsFit ==
    LET n == Len(m.ModalStack)
    IN IF Executes(m) THEN LevelsAre(calls, n + 1)
       ELSE \/ LevelsAre(calls, n)
            \/ /\ LevelsAre(calls, n + 1) /\ Settled(m)
               /\ Top.at = "handler" => Top.ops # 0
ModalFrames ==
    /\ \A k \in Modals(calls) : kind[calls[k].frame] \in {"dialog", "viewer"}
    /\ \A j, k \in Modals(calls) : calls[j].frame = calls[k].frame => j = k
    /\ \A k \in Modals(calls), i \in DOMAIN m.ModalStack :
          m.ModalStack[i] = calls[k].frame => i = calls[k].level + 1
    /\ \A k \in Modals(calls) :
          m.ExecutedFrame = calls[k].frame => calls[k].level = Len(m.ModalStack)
(* The frame that has opened a modal one is current again without it.       *)
Callers == \A k \in Modals(calls) : calls[k - 1].frame = Below(m, calls[k].level)

FramesInv == Places /\ BackIsListed /\ ClosingLeaves
LoopsInv == Shape(calls) /\ Nested(calls) /\ LoopsFit /\ ModalFrames /\ Callers
DInv == PlanFits /\ FramesInv /\ LoopsInv

-----------------------------------------------------------------------------
(* What the operations do in the situations that requests made one at a     *)
(* time lead to.                                                            *)

(* Everything but the slots, and the requests that are not about switching. *)
SameLists(mm, r) == r.FrameList = mm.FrameList /\ r.ModalStack = mm.ModalStack
SameAsked(mm, r) ==
    /\ r.InsertedFrame = mm.InsertedFrame /\ r.DeletedFrame = mm.DeletedFrame
    /\ r.ExecutedFrame = mm.ExecutedFrame

(* The frame of the list at FramePos.                                       *)
LEMMA PosIs ==
  ASSUME NEW mm, Sound(mm), mm.FrameList # <<>>
  PROVE  /\ mm.FramePos + 1 \in DOMAIN mm.FrameList
         /\ Below(mm, 0) = mm.FrameList[mm.FramePos + 1]
         /\ Below(mm, 0) \in InSeq(mm.FrameList) /\ Below(mm, 0) \in Frames
  <1>1. /\ mm.FrameList \in Seq(Frames) /\ mm.FramePos \in Nat
        /\ mm.FramePos = 0 \/ mm.FramePos < Len(mm.FrameList)
    BY FieldTypes DEF Sound
  <1>2. /\ Len(mm.FrameList) \in Nat /\ Len(mm.FrameList) > 0
        /\ DOMAIN mm.FrameList = 1 .. Len(mm.FrameList)
    BY <1>1, SeqFacts
  <1>3. mm.FramePos + 1 \in DOMAIN mm.FrameList
    BY <1>1, <1>2
  <1>4. Below(mm, 0) = mm.FrameList[mm.FramePos + 1]
    BY DEF Below
  <1> QED
    BY <1>1, <1>3, <1>4, SeqFacts DEF InSeq

(* The frame that is current when nothing is asked.                         *)
LEMMA HomeIs ==
  ASSUME NEW mm, Sound(mm), mm.FrameList # <<>> \/ mm.ModalStack # <<>>, AtHome(mm)
  PROVE  /\ mm.CurrentFrame # None /\ mm.CurrentFrame \in Frames
         /\ mm.ModalStack = <<>> => mm.CurrentFrame \in InSeq(mm.FrameList)
         /\ mm.ModalStack # <<>> => /\ mm.CurrentFrame \in InSeq(mm.ModalStack)
                                    /\ mm.CurrentFrame = LastOf(mm.ModalStack)
  <1>1. CASE mm.ModalStack = <<>>
    <2>1. Len(mm.ModalStack) = 0
      BY <1>1
    <2>2. mm.CurrentFrame = Below(mm, 0)
      BY <2>1 DEF AtHome
    <2> QED
      BY <1>1, <2>2, PosIs, FramesAssumption
  <1>2. CASE mm.ModalStack # <<>>
    <2>1. mm.ModalStack \in Seq(Frames)
      BY FieldTypes DEF Sound
    <2>2. /\ LastOf(mm.ModalStack) \in InSeq(mm.ModalStack)
          /\ LastOf(mm.ModalStack) \in Frames
          /\ Len(mm.ModalStack) # 0 /\ LastOf(mm.ModalStack) = mm.ModalStack[Len(mm.ModalStack)]
      BY <1>2, <2>1, LastIs
    <2>3. mm.CurrentFrame = LastOf(mm.ModalStack)
      BY <2>2 DEF AtHome, Below
    <2> QED
      BY <1>2, <2>2, <2>3, FramesAssumption
  <1> QED
    BY <1>1, <1>2

(* A frame of the list, or the topmost one of the stack, is activated.      *)
LEMMA ActivateCommitIs ==
  ASSUME NEW mm, Sound(mm), NEW f \in Frames,
         \/ f \in InSeq(mm.FrameList)
            /\ (mm.CurrentFrame = f => f = Below(mm, 0))
         \/ mm.ModalStack # <<>> /\ f = LastOf(mm.ModalStack)
  PROVE  LET r == ActivateCommit(mm, f)
         IN  /\ SameLists(mm, r) /\ SameAsked(mm, r)
             /\ r.DeactivatedFrame = mm.DeactivatedFrame
             /\ r.ActivatedFrame = None
             /\ r.CurrentFrame = f /\ r.RefreshedFrame = f
             /\ f \in InSeq(mm.FrameList) => Below(r, 0) = f
             /\ f \notin InSeq(mm.FrameList) => Below(r, 0) = Below(mm, 0)
             /\ \A g : \/ r.FrameToBack[g] = mm.FrameToBack[g]
                       \/ InList(mm, r.FrameToBack[g])
             /\ mm.CurrentFrame \notin InSeq(mm.FrameList) =>
                    r.FrameToBack = mm.FrameToBack
  <1> DEFINE r == ActivateCommit(mm, f)
             L == mm.FrameList
             pos == IF InList(mm, f) /\ mm.CurrentFrame # f
                    THEN IndexOf(mm.FrameList, f) - 1 ELSE mm.FramePos
             back == IF InList(mm, f) /\ InList(mm, mm.CurrentFrame)
                        /\ mm.CurrentFrame # f
                     THEN mm.CurrentFrame ELSE mm.FrameToBack[f]
  <1>0. /\ mm \in Fields /\ mm.FrameList \in Seq(Frames) /\ mm.ModalStack \in Seq(Frames)
        /\ Distinct(mm.ModalStack) /\ Distinct(mm.FrameList)
        /\ mm.FramePos \in Nat /\ mm.FrameToBack \in [Frames -> FrameOrNone]
        /\ InSeq(mm.FrameList) \cap InSeq(mm.ModalStack) = {}
    BY FieldTypes DEF Sound
  <1>1. InStack(mm, f) => Append(Without(mm.ModalStack, f), f) = mm.ModalStack
    <2>1. InStack(mm, f) => mm.ModalStack # <<>> /\ f = LastOf(mm.ModalStack)
      BY <1>0 DEF InStack
    <2> QED
      BY <1>0, <2>1, LastAgain
  <1>2. r = [mm EXCEPT !.ActivatedFrame = None, !.RefreshedFrame = f,
                       !.CurrentFrame = f, !.FramePos = pos,
                       !.FrameToBack = [@ EXCEPT ![f] = back]]
    <2>1. CASE mm.CurrentFrame = f
      <3>1. pos = mm.FramePos /\ back = mm.FrameToBack[f]
        BY <2>1
      <3>2. r = [mm EXCEPT !.ActivatedFrame = None, !.RefreshedFrame = f]
        BY <2>1 DEF ActivateCommit
      <3> HIDE DEF r, pos, back
      <3>3. [mm.FrameToBack EXCEPT ![f] = back] = mm.FrameToBack
        BY <1>0, <3>1
      <3> QED
        BY <1>0, <2>1, <3>1, <3>2, <3>3 DEF Fields
    <2>2. CASE mm.CurrentFrame # f
      BY <1>0, <1>1, <2>2 DEF ActivateCommit, Fields
    <2> QED
      BY <2>1, <2>2
  <1> HIDE DEF r
  <1>3. /\ SameLists(mm, r) /\ SameAsked(mm, r)
        /\ r.DeactivatedFrame = mm.DeactivatedFrame
        /\ r.ActivatedFrame = None
        /\ r.CurrentFrame = f /\ r.RefreshedFrame = f /\ r.FramePos = pos
        /\ r.FrameToBack = [mm.FrameToBack EXCEPT ![f] = back]
    BY <1>0, <1>2 DEF Fields, SameLists, SameAsked
  <1>4. f \in InSeq(mm.FrameList) => Below(r, 0) = f
    <2>1. SUFFICES ASSUME f \in InSeq(mm.FrameList) PROVE r.FrameList[pos + 1] = f
      BY <1>3 DEF Below
    <2>2. /\ IndexOf(L, f) \in DOMAIN L /\ L[IndexOf(L, f)] = f
          /\ Len(L) \in Nat /\ DOMAIN L = 1 .. Len(L)
      BY <1>0, <2>1, IndexOfIs, SeqFacts
    <2>3. CASE mm.CurrentFrame # f
      <3>1. pos = IndexOf(L, f) - 1
        BY <2>1, <2>3 DEF InList
      <3>2. pos + 1 = IndexOf(L, f)
        BY <2>2, <3>1
      <3> QED
        BY <1>3, <2>2, <3>2 DEF SameLists
    <2>4. CASE mm.CurrentFrame = f
      <3>1. f = Below(mm, 0)
        BY <1>0, <2>1, <2>4, LastIs
      <3> QED
        BY <1>3, <2>4, <3>1 DEF SameLists, Below
    <2> QED
      BY <2>3, <2>4
  <1>5. f \notin InSeq(mm.FrameList) => Below(r, 0) = Below(mm, 0)
    BY <1>3 DEF Below, SameLists, InList
  <1>6. back = mm.FrameToBack[f] \/ InList(mm, back)
    OBVIOUS
  <1>7. mm.CurrentFrame \notin InSeq(mm.FrameList) => back = mm.FrameToBack[f]
    BY DEF InList
  <1> HIDE DEF back
  <1>8. \A g : \/ r.FrameToBack[g] = mm.FrameToBack[g]
               \/ InList(mm, r.FrameToBack[g])
    <2> TAKE g
    <2>1. CASE g = f
      BY <1>0, <1>3, <1>6, <2>1
    <2>2. CASE g # f
      <3>1. CASE g \in Frames
        BY <1>0, <1>3, <2>2, <3>1
      <3>2. CASE g \notin Frames
        BY <1>0, <1>3, <2>2, <3>2
      <3> QED
        BY <3>1, <3>2
    <2> QED
      BY <2>1, <2>2
  <1>9. mm.CurrentFrame \notin InSeq(mm.FrameList) => r.FrameToBack = mm.FrameToBack
    BY <1>0, <1>3, <1>7
  <1> QED
    BY <1>3, <1>4, <1>5, <1>8, <1>9 DEF r

(* What a frame goes back to when f is gone.                                *)
Backs(mm, f) == [g \in Frames |-> IF InList(mm, g) /\ mm.FrameToBack[g] = f
                                  THEN Panels ELSE mm.FrameToBack[g]]

LEMMA ActivateFrameIs ==
  ASSUME NEW mm \in Fields, NEW f
  PROVE  LET r == ActivateFrame(mm, f)
         IN  /\ SameLists(mm, r) /\ SameAsked(mm, r)
             /\ r.FramePos = mm.FramePos /\ r.FrameToBack = mm.FrameToBack
             /\ r.CurrentFrame = mm.CurrentFrame
             /\ r.RefreshedFrame = mm.RefreshedFrame
             /\ r.DeactivatedFrame = mm.DeactivatedFrame
             /\ mm.ActivatedFrame = None /\ f # None /\ InList(mm, f) =>
                    r.ActivatedFrame = f
             /\ r.ActivatedFrame = mm.ActivatedFrame \/ InList(mm, f) \/ InStack(mm, f)
             /\ r.ActivatedFrame \in {mm.ActivatedFrame, f}
  BY DEF ActivateFrame, Fields, SameLists, SameAsked

(* A frame is taken out of the list, if it is there.                        *)
LEMMA UnlinkIs ==
  ASSUME NEW mm, Sound(mm), NEW f \in Frames
  PROVE  LET r == Unlink(mm, f)
         IN  /\ r.FrameList = Without(mm.FrameList, f) /\ r.ModalStack = mm.ModalStack
             /\ r.InsertedFrame = mm.InsertedFrame /\ r.DeletedFrame = None
             /\ r.ExecutedFrame = mm.ExecutedFrame
             /\ r.DeactivatedFrame = mm.DeactivatedFrame
             /\ r.CurrentFrame = mm.CurrentFrame
             /\ r.RefreshedFrame = mm.RefreshedFrame
             /\ r.FrameToBack = Backs(mm, f)
             /\ ~InList(mm, f) => /\ r.FramePos = mm.FramePos
                                  /\ r.ActivatedFrame = mm.ActivatedFrame
             /\ InList(mm, f) /\ mm.ActivatedFrame = None
                  /\ InList(mm, mm.FrameToBack[f]) /\ Without(mm.FrameList, f) # <<>>
                => InList(r, r.ActivatedFrame)
  <1> DEFINE r == Unlink(mm, f)
             list == Without(mm.FrameList, f)
             pos == IF mm.FramePos >= Len(list) THEN 0 ELSE mm.FramePos
             backs == [g \in Frames |-> IF InList(mm, g) /\ mm.FrameToBack[g] = f
                                        THEN Panels ELSE mm.FrameToBack[g]]
             m1 == [mm EXCEPT !.DeletedFrame = None, !.FrameToBack = backs]
             m2 == [m1 EXCEPT !.FrameList = list, !.FramePos = pos]
             back == m2.FrameToBack[f]
  <1>0. /\ mm \in Fields /\ mm.FrameList \in Seq(Frames) /\ mm.FramePos \in Nat
        /\ Distinct(mm.FrameList) /\ mm.FrameToBack \in [Frames -> FrameOrNone]
    BY FieldTypes DEF Sound
  <1>1. backs = Backs(mm, f) /\ backs \in [Frames -> FrameOrNone]
    BY <1>0, FieldTypes, FramesAssumption DEF Backs
  <1>2. list \in Seq(Frames) /\ Len(list) \in Nat /\ pos \in Nat
        /\ (pos = 0 \/ pos < Len(list))
    <2>1. list \in Seq(Frames) /\ Len(list) \in Nat
      BY <1>0, WithoutIs, SeqFacts
    <2> HIDE DEF list
    <2> QED
      BY <1>0, <2>1
  <1>3. r = IF ~InList(mm, f) THEN m1
            ELSE IF back # Panels THEN ActivateFrame(m2, back)
            ELSE IF list # <<>> THEN ActivateFrame(m2, list[pos + 1])
            ELSE m2
    <2>1. m1 = [mm EXCEPT !.DeletedFrame = None,
                 !.FrameToBack = [g \in Frames |->
                     IF InList(mm, g) /\ @[g] = f THEN Panels ELSE @[g]]]
      BY <1>0 DEF Fields
    <2> QED
      BY <2>1 DEF Unlink
  <1>4. ~InList(mm, f) => list = mm.FrameList
    BY DEF InList, Without
  <1> HIDE DEF list, pos, r, backs
  <1>5. m1 \in Fields /\ m2 \in Fields
    BY <1>0, <1>1, <1>2, FieldTypes DEF Fields
  <1>6. /\ m1.FrameList = mm.FrameList /\ m1.ModalStack = mm.ModalStack
        /\ m1.InsertedFrame = mm.InsertedFrame /\ m1.DeletedFrame = None
        /\ m1.ExecutedFrame = mm.ExecutedFrame
        /\ m1.DeactivatedFrame = mm.DeactivatedFrame
        /\ m1.CurrentFrame = mm.CurrentFrame
        /\ m1.RefreshedFrame = mm.RefreshedFrame
        /\ m1.FrameToBack = Backs(mm, f)
        /\ m1.FramePos = mm.FramePos /\ m1.ActivatedFrame = mm.ActivatedFrame
    BY <1>0, <1>1 DEF Fields
  <1>7. /\ m2.FrameList = list /\ m2.ModalStack = mm.ModalStack
        /\ m2.InsertedFrame = mm.InsertedFrame /\ m2.DeletedFrame = None
        /\ m2.ExecutedFrame = mm.ExecutedFrame
        /\ m2.DeactivatedFrame = mm.DeactivatedFrame
        /\ m2.CurrentFrame = mm.CurrentFrame
        /\ m2.RefreshedFrame = mm.RefreshedFrame
        /\ m2.FrameToBack = Backs(mm, f)
        /\ m2.FramePos = pos /\ m2.ActivatedFrame = mm.ActivatedFrame
    BY <1>0, <1>1 DEF Fields
  <1> HIDE DEF m1, m2
  <1>8. ASSUME NEW g
        PROVE  LET a == ActivateFrame(m2, g)
               IN  /\ a.FrameList = list /\ a.ModalStack = mm.ModalStack
                   /\ a.InsertedFrame = mm.InsertedFrame /\ a.DeletedFrame = None
                   /\ a.ExecutedFrame = mm.ExecutedFrame
                   /\ a.DeactivatedFrame = mm.DeactivatedFrame
                   /\ a.CurrentFrame = mm.CurrentFrame
                   /\ a.RefreshedFrame = mm.RefreshedFrame
                   /\ a.FrameToBack = Backs(mm, f)
                   /\ mm.ActivatedFrame = None /\ g \in InSeq(list) => a.ActivatedFrame = g
    <2> DEFINE a == ActivateFrame(m2, g)
    <2>1. None \notin InSeq(list)
      BY <1>2, SeqFacts, FramesAssumption
    <2>2. /\ SameLists(m2, a) /\ SameAsked(m2, a)
          /\ a.FramePos = m2.FramePos /\ a.FrameToBack = m2.FrameToBack
          /\ a.CurrentFrame = m2.CurrentFrame
          /\ a.RefreshedFrame = m2.RefreshedFrame
          /\ a.DeactivatedFrame = m2.DeactivatedFrame
          /\ m2.ActivatedFrame = None /\ g # None /\ InList(m2, g) => a.ActivatedFrame = g
      BY <1>5, ActivateFrameIs
    <2> HIDE DEF a
    <2>3. /\ a.FrameList = list /\ a.ModalStack = mm.ModalStack
          /\ a.InsertedFrame = mm.InsertedFrame /\ a.DeletedFrame = None
          /\ a.ExecutedFrame = mm.ExecutedFrame
          /\ a.DeactivatedFrame = mm.DeactivatedFrame
          /\ a.CurrentFrame = mm.CurrentFrame
          /\ a.RefreshedFrame = mm.RefreshedFrame
          /\ a.FrameToBack = Backs(mm, f)
      BY <1>7, <2>2 DEF SameLists, SameAsked
    <2>4. mm.ActivatedFrame = None /\ g \in InSeq(list) => a.ActivatedFrame = g
      BY <1>7, <2>1, <2>2 DEF InList
    <2> QED
      BY <2>3, <2>4 DEF a
  <1>9. /\ r.FrameList = list /\ r.ModalStack = mm.ModalStack
        /\ r.InsertedFrame = mm.InsertedFrame /\ r.DeletedFrame = None
        /\ r.ExecutedFrame = mm.ExecutedFrame
        /\ r.DeactivatedFrame = mm.DeactivatedFrame
        /\ r.CurrentFrame = mm.CurrentFrame
        /\ r.RefreshedFrame = mm.RefreshedFrame
        /\ r.FrameToBack = Backs(mm, f)
    <2>1. CASE ~InList(mm, f)
      BY <1>3, <1>4, <1>6, <2>1
    <2>2. CASE InList(mm, f)
      BY <1>3, <1>7, <1>8, <2>2
    <2> QED
      BY <2>1, <2>2
  <1>10. ~InList(mm, f) => /\ r.FramePos = mm.FramePos
                           /\ r.ActivatedFrame = mm.ActivatedFrame
    BY <1>3, <1>6
  <1>11. ASSUME InList(mm, f), mm.ActivatedFrame = None,
                InList(mm, mm.FrameToBack[f]), list # <<>>
         PROVE  InList(r, r.ActivatedFrame)
    <2>1. f \in InSeq(mm.FrameList)
      BY <1>11 DEF InList
    <2>2. InSeq(list) = InSeq(mm.FrameList) \ {f}
      BY <1>0, <2>1, OthersStay DEF list
    <2>3. CASE back # Panels
      <3>1. back = mm.FrameToBack[f] /\ back # f
        BY <1>7, <1>11, <2>3 DEF Backs
      <3>2. back \in InSeq(list)
        BY <1>11, <2>2, <3>1 DEF InList
      <3>3. r = ActivateFrame(m2, back)
        BY <1>3, <1>11, <2>3
      <3> QED
        BY <1>8, <1>9, <1>11, <3>2, <3>3 DEF InList
    <2>4. CASE back = Panels
      <3>1. r = ActivateFrame(m2, list[pos + 1])
        BY <1>3, <1>11, <2>4
      <3>2. list[pos + 1] \in InSeq(list)
        <4>1. Len(list) > 0 /\ DOMAIN list = 1 .. Len(list)
          BY <1>2, <1>11, SeqFacts
        <4>2. pos + 1 \in DOMAIN list
          BY <1>2, <4>1
        <4> QED
          BY <4>2 DEF InSeq
      <3> QED
        BY <1>8, <1>9, <1>11, <3>1, <3>2 DEF InList
    <2> QED
      BY <2>3, <2>4
  <1> QED
    BY <1>9, <1>10, <1>11 DEF r, list

(* The topmost modal frame leaves the stack.                                *)
Popped(mm, f, r) ==
    LET n == Len(mm.ModalStack)
    IN  /\ r.FrameList = mm.FrameList
        /\ Len(r.ModalStack) = n - 1 /\ n - 1 \in Nat
        /\ \A k \in 1 .. n - 1 : r.ModalStack[k] = mm.ModalStack[k]
        /\ InSeq(r.ModalStack) = InSeq(mm.ModalStack) \ {f}
        /\ SameAsked(mm, r) /\ r.DeactivatedFrame = mm.DeactivatedFrame
        /\ r.ActivatedFrame = None /\ r.FrameToBack = mm.FrameToBack
        /\ AtHome(r) /\ r.RefreshedFrame = r.CurrentFrame
        /\ Below(r, 0) = Below(mm, 0)

LEMMA PopIs ==
  ASSUME NEW mm, Sound(mm), mm.FrameList # <<>>, mm.ModalStack # <<>>,
         NEW f, f = LastOf(mm.ModalStack), mm.CurrentFrame \in {f, None}
  PROVE  Popped(mm, f, Pop(mm, f, FALSE))
  <1> DEFINE r == Pop(mm, f, FALSE)
             n == Len(mm.ModalStack)
             S == mm.ModalStack
             s == Without(S, f)
             m1 == [mm EXCEPT !.ModalStack = s]
             g == IF s # <<>> THEN LastOf(s) ELSE mm.FrameList[mm.FramePos + 1]
  <1>0. /\ mm \in Fields /\ mm.FrameList \in Seq(Frames) /\ S \in Seq(Frames)
        /\ Distinct(S) /\ Distinct(mm.FrameList) /\ f \in InSeq(S) /\ f \in Frames
        /\ n \in Nat /\ n > 0 /\ InSeq(mm.FrameList) \cap InSeq(S) = {}
    BY FieldTypes, LastIs DEF Sound
  <1>1. /\ s \in Seq(Frames) /\ Distinct(s) /\ InSeq(s) = InSeq(S) \ {f}
        /\ Len(s) = n - 1 /\ \A k \in 1 .. n - 1 : s[k] = S[k]
    BY <1>0, WithoutIs, OthersStay
  <1> HIDE DEF s
  <1>2. /\ m1.FrameList = mm.FrameList /\ m1.ModalStack = s
        /\ SameAsked(mm, m1) /\ m1.DeactivatedFrame = mm.DeactivatedFrame
        /\ m1.FrameToBack = mm.FrameToBack /\ m1.CurrentFrame = mm.CurrentFrame
        /\ m1.FramePos = mm.FramePos /\ m1 \in Fields
    BY <1>0, <1>1, FieldTypes DEF Fields, SameAsked
  <1>3. r = ActivateCommit(m1, g)
    BY <1>0, <1>2 DEF Pop, InStack, s
  <1> HIDE DEF m1
  <1>4. Sound(m1)
    BY <1>0, <1>1, <1>2 DEF Sound
  <1>5. /\ s = <<>> => g = Below(m1, 0) /\ g \in InSeq(m1.FrameList) /\ g \in Frames
        /\ s # <<>> => g = LastOf(m1.ModalStack) /\ g \in InSeq(s) /\ g \in Frames
    BY <1>1, <1>2, <1>4, PosIs, LastIs DEF Below
  <1>6. mm.CurrentFrame \notin InSeq(mm.FrameList)
    BY <1>0, SeqFacts, FramesAssumption
  <1> HIDE DEF g, n
  <1>7. LET a == ActivateCommit(m1, g)
        IN  /\ SameLists(m1, a) /\ SameAsked(m1, a)
            /\ a.DeactivatedFrame = m1.DeactivatedFrame
            /\ a.ActivatedFrame = None
            /\ a.CurrentFrame = g /\ a.RefreshedFrame = g
            /\ g \in InSeq(m1.FrameList) => Below(a, 0) = g
            /\ g \notin InSeq(m1.FrameList) => Below(a, 0) = Below(m1, 0)
            /\ m1.CurrentFrame \notin InSeq(m1.FrameList) =>
                   a.FrameToBack = m1.FrameToBack
    <2>1. g \in Frames
      BY <1>5
    <2>2. \/ g \in InSeq(m1.FrameList) /\ (m1.CurrentFrame = g => g = Below(m1, 0))
          \/ m1.ModalStack # <<>> /\ g = LastOf(m1.ModalStack)
      BY <1>2, <1>5
    <2> QED
      BY <1>4, <2>1, <2>2, ActivateCommitIs
  <1>8. /\ SameLists(m1, r) /\ SameAsked(m1, r)
        /\ r.DeactivatedFrame = m1.DeactivatedFrame
        /\ r.ActivatedFrame = None
        /\ r.CurrentFrame = g /\ r.RefreshedFrame = g
        /\ g \in InSeq(m1.FrameList) => Below(r, 0) = g
        /\ g \notin InSeq(m1.FrameList) => Below(r, 0) = Below(m1, 0)
        /\ m1.CurrentFrame \notin InSeq(m1.FrameList) =>
               r.FrameToBack = m1.FrameToBack
    BY <1>3, <1>7
  <1> HIDE DEF r
  <1>9. Below(m1, 0) = Below(mm, 0)
    BY <1>2 DEF Below
  <1>10. Below(r, 0) = Below(mm, 0)
    BY <1>0, <1>1, <1>2, <1>5, <1>8, <1>9
  <1>11. AtHome(r)
    <2>1. CASE s = <<>>
      <3>1. Len(r.ModalStack) = 0
        BY <1>2, <1>8, <2>1 DEF SameLists
      <3> QED
        BY <1>2, <1>5, <1>8, <2>1, <3>1 DEF AtHome
    <2>2. CASE s # <<>>
      <3>1. Len(s) # 0 /\ g = s[Len(s)]
        BY <1>1, <1>2, <1>5, <2>2, LastIs
      <3>2. r.ModalStack = s
        BY <1>2, <1>8 DEF SameLists
      <3> QED
        BY <1>8, <3>1, <3>2 DEF AtHome, Below
    <2> QED
      BY <2>1, <2>2
  <1>12. /\ r.FrameList = mm.FrameList /\ r.ModalStack = s
         /\ SameAsked(mm, r) /\ r.DeactivatedFrame = mm.DeactivatedFrame
         /\ r.FrameToBack = mm.FrameToBack
    BY <1>2, <1>6, <1>8 DEF SameLists, SameAsked
  <1>13. n - 1 \in Nat
    BY <1>0
  <1> QED
    BY <1>1, <1>8, <1>10, <1>11, <1>12, <1>13 DEF r, n, Popped

(* A modal frame is put onto the stack, to be started.                      *)
LEMMA ExecuteCommitIs ==
  ASSUME NEW mm, Sound(mm), NEW f \in Frames,
         f \notin InSeq(mm.FrameList) \cup InSeq(mm.ModalStack),
         InList(mm, mm.CurrentFrame) \/ InStack(mm, mm.CurrentFrame),
         mm.InsertedFrame = None, mm.DeletedFrame = None, mm.DeactivatedFrame = None
  PROVE  LET r == ExecuteCommit(mm, f)
             n == Len(mm.ModalStack)
         IN  /\ r.FrameList = mm.FrameList /\ r.FrameToBack = mm.FrameToBack
             /\ Len(r.ModalStack) = n + 1
             /\ \A k \in 1 .. n : r.ModalStack[k] = mm.ModalStack[k]
             /\ r.ModalStack[n + 1] = f
             /\ InSeq(r.ModalStack) = InSeq(mm.ModalStack) \cup {f}
             /\ Below(r, 0) = Below(mm, 0)
             /\ Starts(r)
  <1> DEFINE r == ExecuteCommit(mm, f)
             n == Len(mm.ModalStack)
             s == Append(mm.ModalStack, f)
  <1>0. mm \in Fields /\ mm.ModalStack \in Seq(Frames) /\ n \in Nat
    BY FieldTypes, SeqFacts DEF Sound
  <1>1. /\ s \in Seq(Frames) /\ Len(s) = n + 1 /\ InSeq(s) = InSeq(mm.ModalStack) \cup {f}
        /\ \A k \in 1 .. n : s[k] = mm.ModalStack[k]
        /\ s[n + 1] = f
    BY <1>0, AppendIs, AppendProperties
  <1> HIDE DEF s
  <1>2. /\ r.FrameList = mm.FrameList /\ r.FrameToBack = mm.FrameToBack
        /\ r.ModalStack = s /\ r.FramePos = mm.FramePos
        /\ r.CurrentFrame = mm.CurrentFrame /\ r.ActivatedFrame = f
        /\ r.InsertedFrame = None /\ r.DeletedFrame = None /\ r.ExecutedFrame = None
        /\ r.DeactivatedFrame = None
    BY <1>0 DEF ExecuteCommit, Fields, s
  <1> HIDE DEF r
  <1>3. s # <<>> /\ LastOf(s) = f
    BY <1>0, <1>1 DEF LastOf
  <1>4. mm.CurrentFrame # f
    BY DEF InList, InStack
  <1>5. InList(r, r.CurrentFrame) \/ InStack(r, r.CurrentFrame)
    BY <1>1, <1>2 DEF InList, InStack
  <1>6. Starts(r)
    BY <1>2, <1>3, <1>4, <1>5 DEF Starts, NothingAsked
  <1>7. Below(r, 0) = Below(mm, 0)
    BY <1>2 DEF Below
  <1> HIDE DEF n
  <1> QED
    BY <1>1, <1>2, <1>6, <1>7 DEF r, n

(* A window is put into the list, to be activated.                          *)
LEMMA InsertCommitIs ==
  ASSUME NEW mm, Sound(mm), NEW f \in Frames, f \notin InSeq(mm.FrameList),
         mm.FrameList # <<>>, mm.ModalStack = <<>>, InList(mm, mm.CurrentFrame),
         mm.DeletedFrame = None, mm.ExecutedFrame = None, NoSwitch(mm)
  PROVE  LET r == InsertCommit(mm, f)
         IN  /\ r.FrameList # <<>> /\ r.FrameList[1] = mm.FrameList[1]
             /\ InSeq(r.FrameList) = InSeq(mm.FrameList) \cup {f}
             /\ r.FrameToBack = [mm.FrameToBack EXCEPT ![f] = mm.CurrentFrame]
             /\ r.ModalStack = mm.ModalStack
             /\ Below(r, 0) = Below(mm, 0)
             /\ Switches(r) /\ r.ActivatedFrame # None
  <1> DEFINE r == InsertCommit(mm, f)
             L == mm.FrameList
             t == Append(L, f)
  <1>0. /\ mm \in Fields /\ L \in Seq(Frames) /\ Len(L) \in Nat /\ Len(L) > 0
        /\ mm.FramePos \in Nat /\ (mm.FramePos = 0 \/ mm.FramePos < Len(L))
        /\ mm.FrameToBack \in [Frames -> FrameOrNone] /\ f # None
    BY FieldTypes, SeqFacts, FramesAssumption DEF Sound
  <1>1. /\ t \in Seq(Frames) /\ Len(t) = Len(L) + 1 /\ InSeq(t) = InSeq(L) \cup {f}
        /\ \A k \in 1 .. Len(L) : t[k] = L[k]
    BY <1>0, AppendIs, AppendProperties
  <1>2. t # <<>> /\ t[1] = L[1] /\ t[mm.FramePos + 1] = L[mm.FramePos + 1]
    <2> HIDE DEF t, L
    <2>1. 1 \in 1 .. Len(L) /\ mm.FramePos + 1 \in 1 .. Len(L)
      BY <1>0
    <2>2. Len(t) # 0
      BY <1>0, <1>1
    <2> QED
      BY <1>1, <2>1, <2>2
  <1> HIDE DEF t
  <1>3. /\ r.FrameList = t /\ r.ModalStack = mm.ModalStack /\ r.FramePos = mm.FramePos
        /\ r.FrameToBack = [mm.FrameToBack EXCEPT ![f] = mm.CurrentFrame]
        /\ r.CurrentFrame = mm.CurrentFrame /\ r.ActivatedFrame = f
        /\ r.InsertedFrame = None /\ r.DeletedFrame = None /\ r.ExecutedFrame = None
        /\ r.DeactivatedFrame = None
    BY <1>0 DEF InsertCommit, Fields, NoSwitch, t
  <1> HIDE DEF r
  <1>4. Below(r, 0) = Below(mm, 0)
    BY <1>2, <1>3 DEF Below
  <1>5. InList(r, f) /\ InList(r, mm.CurrentFrame) /\ f # mm.CurrentFrame
    BY <1>1, <1>3 DEF InList
  <1>6. Switches(r)
    BY <1>0, <1>3, <1>5 DEF Switches, NothingAsked
  <1> QED
    BY <1>0, <1>1, <1>2, <1>3, <1>4, <1>6 DEF r

-----------------------------------------------------------------------------
(* The call stack: what is on it, and the modal loops.                      *)

Alike(c, d) ==
    /\ d.at = c.at
    /\ c.at \in {"modal", "handler"} => d.frame = c.frame
    /\ c.at = "modal" => d.level = c.level

(* The modal loops and their callers are the same.                          *)
SameLoops(s, t) ==
    /\ Modals(t) = Modals(s)
    /\ \A k \in Modals(s) : /\ t[k].level = s[k].level /\ t[k].frame = s[k].frame
                            /\ t[k - 1].frame = s[k - 1].frame

LEMMA LoopsAreSame ==
  ASSUME NEW s \in Seq(CallTypes), NEW t \in Seq(CallTypes),
         s[1].at \in {"main", "closeall", "exited"}, Shape(s), Nested(s),
         NEW n \in Nat, n <= Len(s), n <= Len(t),
         \A k \in 1 .. n : Alike(s[k], t[k]),
         \A k \in n + 1 .. Len(s) : s[k].at # "modal",
         \A k \in n + 1 .. Len(t) :
            t[k].at # "modal" /\ (t[k].at = "nonmodal" => Modals(s) = {})
  PROVE  SameLoops(s, t) /\ Nested(t)
  <1> DEFINE a == Len(s)
             b == Len(t)
  <1>1. a \in Nat /\ b \in Nat /\ DOMAIN s = 1 .. a /\ DOMAIN t = 1 .. b
    BY LenProperties
  <1> HIDE DEF a, b
  <1>2. /\ \A k \in 1 .. a : k \in 1 .. n \/ k \in n + 1 .. a
        /\ \A k \in 1 .. b : k \in 1 .. n \/ k \in n + 1 .. b
        /\ 1 .. n \subseteq 1 .. a /\ 1 .. n \subseteq 1 .. b
    BY <1>1 DEF a, b
  <1>3. Modals(s) = {k \in 1 .. n : s[k].at = "modal"}
    BY <1>1, <1>2 DEF Modals, a
  <1>4. Modals(t) = {k \in 1 .. n : t[k].at = "modal"}
    BY <1>1, <1>2 DEF Modals, b
  <1>5. Modals(t) = Modals(s)
    BY <1>3, <1>4 DEF Alike
  <1>6. ASSUME NEW k \in Modals(s)
        PROVE  /\ t[k].level = s[k].level /\ t[k].frame = s[k].frame
               /\ t[k - 1].frame = s[k - 1].frame
    <2>1. k \in 1 .. n /\ s[k].at = "modal" /\ k \in DOMAIN s
      BY <1>1, <1>2, <1>3
    <2>2. k # 1
      BY <2>1
    <2>3. s[k - 1].at = "handler"
      BY <2>1, <2>2 DEF Shape, Follows
    <2>4. k - 1 \in 1 .. n
      BY <2>1, <2>2
    <2> QED
      BY <2>1, <2>3, <2>4 DEF Alike
  <1>7. Nested(t)
    <2>1. ASSUME NEW j \in DOMAIN t, NEW k \in Modals(t), t[j].at = "nonmodal"
          PROVE  j < k
      <3>1. CASE j \in 1 .. n
        <4>1. j \in DOMAIN s /\ s[j].at = "nonmodal"
          BY <1>1, <1>2, <2>1, <3>1 DEF Alike
        <4> QED
          BY <1>5, <4>1 DEF Nested
      <3>2. CASE j \in n + 1 .. Len(t)
        BY <1>5, <2>1, <3>2
      <3> QED
        BY <1>1, <1>2, <3>1, <3>2 DEF b
    <2>2. ASSUME NEW j \in Modals(t), NEW k \in Modals(t), j < k
          PROVE  t[j].level < t[k].level
      BY <1>5, <1>6, <2>2 DEF Nested
    <2> QED
      BY <2>1, <2>2 DEF Nested
  <1> QED
    BY <1>5, <1>6, <1>7 DEF SameLoops

(* A destructor calls nothing.                                              *)
LEMMA DestroyIsTop ==
  ASSUME NEW s \in Seq(CallTypes), Shape(s)
  PROVE  \A k \in DOMAIN s : s[k].at = "destroy" => k = Len(s)
  <1> DEFINE n == Len(s)
  <1>1. n \in Nat /\ DOMAIN s = 1 .. n
    BY LenProperties
  <1> HIDE DEF n
  <1>2. ASSUME NEW k \in 1 .. n, s[k].at = "destroy", k # n
        PROVE  FALSE
    <2>1. k + 1 \in 1 .. n /\ k + 1 > 1 /\ k + 1 - 1 = k
      BY <1>1, <1>2
    <2>2. Follows(s[k], s[k + 1])
      BY <1>1, <2>1 DEF Shape
    <2> QED
      BY <1>2, <2>2 DEF Follows, IsLoop
  <1> QED
    BY <1>1, <1>2, Zenon DEF n

LEMMA UnderIs ==
  ASSUME CallsTyped, Shape(calls)
  PROVE  /\ Top.at = "destroy" => /\ UnderDeletion = {Top.frame}
                                  /\ Thens = {Top.then} \ {None}
         /\ Top.at # "destroy" => UnderDeletion = {} /\ Thens = {}
  <1>1. Len(calls) \in DOMAIN calls /\ Top = calls[Len(calls)] /\ calls \in Seq(CallTypes)
    BY TopIs DEF CallsTyped
  <1>2. \A k \in DOMAIN calls : calls[k].at = "destroy" => k = Len(calls)
    BY <1>1, DestroyIsTop
  <1>3. UnderDeletion = {calls[k].frame : k \in {j \in DOMAIN calls : calls[j].at = "destroy"}}
    BY DEF UnderDeletion
  <1>4. Thens = {calls[k].then : k \in {j \in DOMAIN calls : calls[j].at = "destroy"}} \ {None}
    BY DEF Thens, CallsAt
  <1>5. CASE Top.at = "destroy"
    <2>1. {j \in DOMAIN calls : calls[j].at = "destroy"} = {Len(calls)}
      BY <1>1, <1>2, <1>5
    <2> QED
      BY <1>1, <1>3, <1>4, <1>5, <2>1
  <1>6. CASE Top.at # "destroy"
    <2>1. {j \in DOMAIN calls : calls[j].at = "destroy"} = {}
      BY <1>1, <1>2, <1>6
    <2> QED
      BY <1>3, <1>4, <1>6, <2>1
  <1> QED
    BY <1>5, <1>6

LEMMA UnderIsNext ==
  ASSUME CallsTyped', Shape(calls')
  PROVE  /\ Top'.at = "destroy" => /\ UnderDeletion' = {Top'.frame}
                                   /\ Thens' = {Top'.then} \ {None}
         /\ Top'.at # "destroy" => UnderDeletion' = {} /\ Thens' = {}
  <1>1. /\ calls' \in Seq(CallTypes) /\ Len(calls') \in DOMAIN calls'
        /\ Top' = calls'[Len(calls')]
    BY SeqFacts DEF CallsTyped, Top
  <1>2. \A k \in DOMAIN calls' : calls'[k].at = "destroy" => k = Len(calls')
    BY <1>1, DestroyIsTop
  <1>3. UnderDeletion' = {calls'[k].frame : k \in {j \in DOMAIN calls' : calls'[j].at = "destroy"}}
    BY DEF UnderDeletion
  <1>4. Thens' = {calls'[k].then : k \in {j \in DOMAIN calls' : calls'[j].at = "destroy"}} \ {None}
    BY DEF Thens, CallsAt
  <1>5. CASE Top'.at = "destroy"
    <2>1. {j \in DOMAIN calls' : calls'[j].at = "destroy"} = {Len(calls')}
      BY <1>1, <1>2, <1>5
    <2> QED
      BY <1>1, <1>3, <1>4, <1>5, <2>1
  <1>6. CASE Top'.at # "destroy"
    <2>1. {j \in DOMAIN calls' : calls'[j].at = "destroy"} = {}
      BY <1>1, <1>2, <1>6
    <2> QED
      BY <1>3, <1>4, <1>6, <2>1
  <1> QED
    BY <1>5, <1>6

(* Something returns.                                                       *)
LEMMA PopShape ==
  ASSUME CallsTyped, Shape(calls), Nested(calls),
         Top.at \notin {"main", "closeall", "exited"}, calls' = Rest
  PROVE  /\ Len(calls) > 1 /\ CallsTyped' /\ Shape(calls')
         /\ calls'[1] = calls[1] /\ Len(calls') = Len(calls) - 1
         /\ \A k \in 1 .. Len(calls) - 1 : calls'[k] = calls[k]
         /\ Top' = calls[Len(calls) - 1] /\ Follows(Top', Top)
         /\ Top.at # "modal" => SameLoops(calls, calls') /\ Nested(calls')
  <1> DEFINE n == Len(calls)
  <1>1. /\ n \in Nat /\ n > 1 /\ DOMAIN calls = 1 .. n /\ Top = calls[n]
        /\ calls' \in Seq(CallTypes) /\ Len(calls') = n - 1
        /\ \A k \in 1 .. n - 1 : calls'[k] = calls[k]
        /\ calls \in Seq(CallTypes)
    BY TopIs, Zenon DEF CallsTyped
  <1>2. CallsTyped'
    BY CallsRest
  <1>3. DOMAIN calls' = 1 .. n - 1
    BY <1>1, LenProperties
  <1>4. Top' = calls'[n - 1]
    BY <1>1 DEF Top
  <1> HIDE DEF n
  <1>5. 1 \in 1 .. n - 1 /\ n - 1 \in 1 .. n - 1 /\ 1 .. n - 1 \subseteq 1 .. n /\ n \in 1 .. n
    BY <1>1
  <1>6. calls'[1] = calls[1] /\ Top' = calls[n - 1]
    BY <1>1, <1>4, <1>5
  <1>7. Shape(calls')
    <2>1. ASSUME NEW k \in 1 .. n - 1, k > 1
          PROVE  Follows(calls'[k - 1], calls'[k])
      <3>1. k \in DOMAIN calls /\ k - 1 \in 1 .. n - 1
        BY <1>1, <2>1
      <3>2. calls'[k] = calls[k] /\ calls'[k - 1] = calls[k - 1]
        BY <1>1, <3>1
      <3> QED
        BY <2>1, <3>1, <3>2 DEF Shape
    <2>2. ASSUME NEW k \in 1 .. n - 1, k > 1, calls'[1].at # "main"
          PROVE  calls'[k].at = "destroy"
      <3>1. k \in DOMAIN calls /\ calls'[k] = calls[k]
        BY <1>1, <1>5
      <3> QED
        BY <1>6, <2>2, <3>1 DEF Shape
    <2> QED
      BY <1>3, <2>1, <2>2 DEF Shape
  <1>8. Follows(Top', Top)
    BY <1>1, <1>5, <1>6 DEF Shape
  <1>9. ASSUME Top.at # "modal" PROVE SameLoops(calls, calls') /\ Nested(calls')
    <2>1. n - 1 \in Nat /\ n - 1 <= Len(calls) /\ n - 1 <= Len(calls')
      BY <1>1 DEF n
    <2>2. \A k \in 1 .. n - 1 : Alike(calls[k], calls'[k])
      BY <1>1 DEF Alike
    <2>3. \A k \in (n - 1) + 1 .. Len(calls) : calls[k].at # "modal"
      <3>1. \A k \in (n - 1) + 1 .. n : k = n
        BY <1>1
      <3> QED
        BY <1>1, <1>9, <3>1, Zenon DEF n
    <2>4. (n - 1) + 1 .. Len(calls') = {}
      BY <1>1
    <2>5. calls[1].at \in {"main", "closeall", "exited"}
      BY DEF CallsTyped, MainIsAtTheBottom
    <2> QED
      BY <1>1, <2>1, <2>2, <2>3, <2>4, <2>5, LoopsAreSame DEF CallsTyped
  <1> QED
    BY <1>1, <1>2, <1>6, <1>7, <1>8, <1>9 DEF n

(* The topmost call goes on as c, and calls what is in `more'.              *)
LEMMA GoIs ==
  ASSUME CallsTyped, NEW c \in CallTypes, NEW more \in Seq(CallTypes),
         calls' = Rest \o <<c>> \o more
  PROVE  /\ calls' \in Seq(CallTypes) /\ Len(calls') = Len(calls) + Len(more)
         /\ Len(more) \in Nat
         /\ \A k \in 1 .. Len(calls) - 1 : calls'[k] = calls[k]
         /\ calls'[Len(calls)] = c
         /\ \A i \in 1 .. Len(more) : calls'[Len(calls) + i] = more[i]
  <1> DEFINE n == Len(calls)
             l == Len(more)
             base == Rest \o <<c>>
  <1>1. /\ n \in Nat /\ n > 0 /\ Rest \in Seq(CallTypes) /\ Len(Rest) = n - 1
        /\ \A k \in 1 .. n - 1 : Rest[k] = calls[k]
        /\ l \in Nat
    BY TopIs, LenProperties, Zenon
  <1>2. <<c>> \in Seq(CallTypes) /\ Len(<<c>>) = 1 /\ <<c>>[1] = c
    OBVIOUS
  <1> HIDE DEF Rest
  <1>3. /\ base \in Seq(CallTypes) /\ Len(base) = Len(Rest) + 1
        /\ \A k \in 1 .. Len(Rest) + 1 :
              base[k] = IF k <= Len(Rest) THEN Rest[k] ELSE <<c>>[k - Len(Rest)]
    BY <1>1, <1>2, ConcatProperties
  <1> HIDE DEF n, l, base
  <1>4. /\ Len(base) = n /\ \A k \in 1 .. n - 1 : base[k] = calls[k]
        /\ base[n] = c
    <2>1. Len(base) = n
      BY <1>1, <1>3
    <2>2. ASSUME NEW k \in 1 .. n - 1 PROVE base[k] = calls[k]
      <3>1. k \in 1 .. Len(Rest) + 1 /\ k <= Len(Rest)
        BY <1>1
      <3> QED
        BY <1>1, <1>3, <3>1
    <2>3. n \in 1 .. Len(Rest) + 1 /\ ~(n <= Len(Rest)) /\ n - Len(Rest) = 1
      BY <1>1
    <2> QED
      BY <1>2, <1>3, <2>1, <2>2, <2>3
  <1>5. /\ base \o more \in Seq(CallTypes) /\ Len(base \o more) = Len(base) + Len(more)
        /\ \A k \in 1 .. Len(base) + Len(more) : (base \o more)[k] =
                  IF k <= Len(base) THEN base[k] ELSE more[k - Len(base)]
    <2>1. base \in Seq(CallTypes) /\ more \in Seq(CallTypes)
      BY <1>3
    <2> QED
      BY <2>1, ConcatProperties
  <1>6. calls' = base \o more
    BY DEF base
  <1>7. Len(calls') = n + l
    BY <1>4, <1>5, <1>6 DEF l
  <1>8. ASSUME NEW k \in 1 .. n PROVE calls'[k] = base[k]
    <2>1. k \in 1 .. n + l /\ k <= n
      BY <1>1
    <2> QED
      BY <1>4, <1>5, <1>6, <2>1 DEF l
  <1>9. ASSUME NEW i \in 1 .. l PROVE calls'[n + i] = more[i]
    <2>1. n + i \in 1 .. n + l /\ ~(n + i <= n) /\ (n + i) - n = i
      BY <1>1
    <2>2. \A k \in 1 .. n + l :
             calls'[k] = IF k <= n THEN base[k] ELSE more[k - n]
      BY <1>4, <1>5, <1>6 DEF l
    <2>3. calls'[n + i] = more[(n + i) - n]
      BY <2>1, <2>2
    <2> QED
      BY <2>1, <2>3
  <1>10. ASSUME NEW k \in 1 .. n - 1 PROVE calls'[k] = calls[k]
    <2>1. k \in 1 .. n
      BY <1>1
    <2> QED
      BY <1>4, <1>8, <2>1
  <1>11. calls'[n] = c
    <2>1. n \in 1 .. n
      BY <1>1
    <2> QED
      BY <1>4, <1>8, <2>1
  <1> QED
    BY <1>1, <1>5, <1>6, <1>7, <1>9, <1>10, <1>11, Zenon DEF n, l

LEMMA GoShape ==
  ASSUME CallsTyped, Shape(calls), Nested(calls), calls[1].at = "main",
         NEW c \in CallTypes, Alike(Top, c), NEW more \in Seq(CallTypes),
         Len(more) <= 2,
         Len(calls) > 1 => Follows(calls[Len(calls) - 1], c),
         Len(more) >= 1 => Follows(c, more[1]),
         Len(more) = 2 => Follows(more[1], more[2]),
         \A i \in 1 .. Len(more) : more[i].at = "nonmodal" => Modals(calls) = {},
         calls' = Rest \o <<c>> \o more
  PROVE  /\ CallsTyped' /\ Shape(calls') /\ calls'[1].at = "main"
         /\ Len(calls) > 1 => calls'[Len(calls) - 1] = calls[Len(calls) - 1]
         /\ Top' = IF Len(more) = 0 THEN c ELSE more[Len(more)]
         /\ (\A i \in 1 .. Len(more) : more[i].at # "modal") =>
                SameLoops(calls, calls') /\ Nested(calls')
  <1> DEFINE n == Len(calls)
             l == Len(more)
             b == Len(calls')
  <1>1. /\ calls \in Seq(CallTypes) /\ n \in Nat /\ n > 0 /\ DOMAIN calls = 1 .. n
        /\ Top = calls[n] /\ calls[1].at \in {"main", "closeall", "exited"}
    BY TopIs DEF CallsTyped, MainIsAtTheBottom
  <1>2. /\ calls' \in Seq(CallTypes) /\ b = n + l /\ l \in Nat
        /\ \A k \in 1 .. n - 1 : calls'[k] = calls[k]
        /\ calls'[n] = c
        /\ \A i \in 1 .. l : calls'[n + i] = more[i]
    BY GoIs
  <1>3. DOMAIN calls' = 1 .. b
    BY <1>2, LenProperties
  <1>4. l <= 2 /\ (l = 0 \/ l = 1 \/ l = 2)
    <2>1. l <= 2
      OBVIOUS
    <2> HIDE DEF l
    <2> QED
      BY <1>2, <2>1
  <1>5. Top' = calls'[b]
    BY DEF Top
  <1> HIDE DEF n, b
  <1>6. calls'[1].at = "main"
    <2>1. CASE n = 1
      BY <1>1, <1>2, <2>1 DEF Alike
    <2>2. CASE n # 1
      <3>1. 1 \in 1 .. n - 1
        BY <1>1, <2>2
      <3> QED
        BY <1>2, <3>1
    <2> QED
      BY <2>1, <2>2
  <1>7. CallsTyped'
    <2>1. calls' # <<>>
      <3>1. b # 0
        BY <1>1, <1>2
      <3> QED
        BY <3>1 DEF b
    <2> QED
      BY <1>2, <1>6, <2>1 DEF CallsTyped, MainIsAtTheBottom
  <1> HIDE DEF l
  <1>8. Shape(calls')
    <2>1. ASSUME NEW k \in 1 .. b, k > 1
          PROVE  Follows(calls'[k - 1], calls'[k])
      <3>1. CASE k < n
        <4>1. k \in 1 .. n - 1 /\ k - 1 \in 1 .. n - 1 /\ k \in DOMAIN calls
          BY <1>1, <2>1, <3>1
        <4> QED
          BY <1>2, <2>1, <4>1 DEF Shape
      <3>2. CASE k = n
        <4>1. n > 1 /\ n - 1 \in 1 .. n - 1
          BY <1>1, <2>1, <3>2
        <4> QED
          BY <1>2, <3>2, <4>1 DEF n
      <3>3. CASE k = n + 1
        <4>1. k - 1 = n /\ l >= 1 /\ 1 \in 1 .. l
          BY <1>1, <1>2, <2>1, <3>3
        <4> QED
          BY <1>2, <3>3, <4>1 DEF l
      <3>4. CASE k > n + 1
        <4>1. k = n + 2 /\ l = 2
          BY <1>1, <1>2, <1>4, <2>1, <3>4
        <4>2. k - 1 = n + 1 /\ 1 \in 1 .. l /\ 2 \in 1 .. l
          BY <1>1, <4>1
        <4> QED
          BY <1>2, <4>1, <4>2 DEF l
      <3>5. k < n \/ k = n \/ k = n + 1 \/ k > n + 1
        BY <1>1, <2>1
      <3> QED
        BY <3>1, <3>2, <3>3, <3>4, <3>5
    <2> QED
      BY <1>3, <1>6, <2>1 DEF Shape
  <1>9. Top' = IF l = 0 THEN c ELSE more[l]
    <2>1. CASE l = 0
      <3>1. b = n
        BY <1>1, <1>2, <2>1
      <3> QED
        BY <1>2, <1>5, <2>1, <3>1
    <2>2. CASE l # 0
      <3>1. l \in 1 .. l
        BY <1>2, <2>2
      <3> QED
        BY <1>2, <1>5, <2>2, <3>1
    <2> QED
      BY <2>1, <2>2
  <1>10. ASSUME n > 1 PROVE calls'[n - 1] = calls[n - 1]
    <2>1. n - 1 \in 1 .. n - 1
      BY <1>1, <1>10
    <2> QED
      BY <1>2, <2>1
  <1>11. ASSUME \A i \in 1 .. l : more[i].at # "modal"
         PROVE  SameLoops(calls, calls') /\ Nested(calls')
    <2>1. n <= Len(calls) /\ n <= Len(calls')
      BY <1>1, <1>2 DEF n, b
    <2>2. ASSUME NEW k \in 1 .. n PROVE Alike(calls[k], calls'[k])
      <3>1. CASE k = n
        BY <1>1, <1>2, <3>1
      <3>2. CASE k # n
        <4>1. k \in 1 .. n - 1
          BY <1>1, <3>2
        <4> QED
          BY <1>2, <4>1 DEF Alike
      <3> QED
        BY <3>1, <3>2
    <2>3. n + 1 .. Len(calls) = {}
      BY <1>1 DEF n
    <2>4. ASSUME NEW k \in n + 1 .. Len(calls')
          PROVE  calls'[k].at # "modal" /\ (calls'[k].at = "nonmodal" => Modals(calls) = {})
      <3>1. k \in n + 1 .. n + l
        BY <1>2 DEF b
      <3>2. k - n \in 1 .. l /\ n + (k - n) = k
        BY <1>1, <1>2, <3>1
      <3>3. calls'[k] = more[k - n]
        BY <1>2, <3>2
      <3> QED
        BY <1>11, <3>2, <3>3 DEF l
    <2> QED
      BY <1>1, <1>2, <2>1, <2>2, <2>3, <2>4, LoopsAreSame
  <1> QED
    BY <1>6, <1>7, <1>8, <1>9, <1>10, <1>11 DEF n, l

(* A destructor is called.                                                  *)
LEMMA DestroyShape ==
  ASSUME CallsTyped, Shape(calls), Nested(calls),
         Top.at \in {"commit", "closeall"},
         NEW stack \in {calls, Rest}, stack = Rest => Top.at = "commit" /\ Top.count = 1,
         NEW c \in CallTypes, c.at = "destroy", calls' = Append(stack, c)
  PROVE  /\ CallsTyped' /\ Shape(calls') /\ calls'[1] = calls[1] /\ Top' = c
         /\ SameLoops(calls, calls') /\ Nested(calls')
  <1> DEFINE n == Len(calls)
             l == Len(stack)
             b == Len(calls')
  <1>1. /\ calls \in Seq(CallTypes) /\ n \in Nat /\ n > 0 /\ DOMAIN calls = 1 .. n
        /\ Top = calls[n] /\ calls[1].at \in {"main", "closeall", "exited"}
        /\ Rest \in Seq(CallTypes) /\ Len(Rest) = n - 1
        /\ \A k \in 1 .. n - 1 : Rest[k] = calls[k]
        /\ Top.at = "commit" => n > 1
    BY TopIs DEF CallsTyped, MainIsAtTheBottom
  <1>2. /\ stack \in Seq(CallTypes) /\ l \in Nat /\ l > 0 /\ l <= n
        /\ \A k \in 1 .. l : stack[k] = calls[k]
        /\ \A k \in l + 1 .. n : calls[k] = Top
        /\ Follows(calls[l], c)
    <2> HIDE DEF n
    <2>1. CASE stack = calls
      <3>1. l = n
        BY <2>1 DEF n
      <3>2. Follows(Top, c)
        BY DEF Follows
      <3> QED
        BY <1>1, <2>1, <3>1, <3>2
    <2>2. CASE stack = Rest
      <3>1. l = n - 1 /\ n > 1
        BY <1>1, <2>2
      <3>2. \A k \in l + 1 .. n : k = n
        BY <1>1, <3>1
      <3>3. Follows(calls[n - 1], Top)
        <4>1. n \in DOMAIN calls
          BY <1>1
        <4> QED
          BY <1>1, <3>1, <4>1 DEF Shape
      <3>4. Follows(calls[n - 1], c)
        BY <2>2, <3>3 DEF Follows
      <3> QED
        BY <1>1, <2>2, <3>1, <3>2, <3>4
    <2> QED
      BY <2>1, <2>2
  <1>3. /\ calls' \in Seq(CallTypes) /\ b = l + 1
        /\ \A k \in 1 .. l : calls'[k] = stack[k]
        /\ calls'[l + 1] = c
    BY <1>2, AppendProperties
  <1>4. DOMAIN calls' = 1 .. b /\ Top' = calls'[b]
    BY <1>3, LenProperties DEF Top
  <1> HIDE DEF n, b, l
  <1>5. \A k \in 1 .. l : calls'[k] = calls[k]
    BY <1>2, <1>3
  <1>6. calls'[1] = calls[1]
    BY <1>2, <1>5
  <1>7. CallsTyped'
    <2>1. calls' # <<>>
      <3>1. b # 0
        BY <1>2, <1>3
      <3> QED
        BY <3>1 DEF b
    <2> QED
      BY <1>1, <1>3, <1>6, <2>1 DEF CallsTyped, MainIsAtTheBottom
  <1>8. Shape(calls')
    <2>1. ASSUME NEW k \in 1 .. b, k > 1
          PROVE  /\ Follows(calls'[k - 1], calls'[k])
                 /\ calls'[1].at # "main" => calls'[k].at = "destroy"
      <3>1. CASE k = l + 1
        <4>1. k - 1 = l /\ l \in 1 .. l
          BY <1>2, <3>1
        <4> QED
          BY <1>2, <1>3, <1>5, <3>1, <4>1
      <3>2. CASE k # l + 1
        <4>1. k \in 1 .. l /\ k - 1 \in 1 .. l /\ k \in DOMAIN calls
          BY <1>1, <1>2, <1>3, <2>1, <3>2
        <4> QED
          BY <1>5, <1>6, <2>1, <4>1 DEF Shape
      <3> QED
        BY <3>1, <3>2
    <2> QED
      BY <1>4, <2>1 DEF Shape
  <1>9. SameLoops(calls, calls') /\ Nested(calls')
    <2>1. l <= Len(calls) /\ l <= Len(calls')
      BY <1>2, <1>3 DEF n, b
    <2>2. \A k \in 1 .. l : Alike(calls[k], calls'[k])
      BY <1>5 DEF Alike
    <2>3. \A k \in l + 1 .. Len(calls) : calls[k].at # "modal"
      BY <1>2 DEF n
    <2>4. \A k \in l + 1 .. Len(calls') :
             calls'[k].at # "modal" /\ (calls'[k].at = "nonmodal" => Modals(calls) = {})
      <3>1. \A k \in l + 1 .. b : k = l + 1
        BY <1>2, <1>3
      <3> QED
        BY <1>3, <3>1 DEF b
    <2> QED
      BY <1>1, <1>2, <1>3, <2>1, <2>2, <2>3, <2>4, LoopsAreSame
  <1>10. Top' = c
    BY <1>2, <1>3, <1>4
  <1> QED
    BY <1>6, <1>7, <1>8, <1>9, <1>10

-----------------------------------------------------------------------------
(* What the invariant says, part by part, and how its parts carry over.     *)
LEMMA Grounds ==
  ASSUME IInv, DInv
  PROVE  /\ CallsTyped /\ Sound(m) /\ m \in Fields
         /\ Shape(calls) /\ Nested(calls) /\ LoopsFit /\ ModalFrames /\ Callers
         /\ Places /\ BackIsListed /\ ClosingLeaves /\ PlanFits
         /\ Pending = Thens \cup ({m.ExecutedFrame, m.InsertedFrame} \ {None})
  <1>1. CallsTyped /\ Sound(m) /\ m \in Fields
    BY InvGives DEF Sound
  <1>2. Pending = Thens \cup ({m.ExecutedFrame, m.InsertedFrame} \ {None})
    BY DEF Pending, ToStack
  <1> QED
    BY <1>1, <1>2 DEF DInv, FramesInv, LoopsInv

LEMMA BottomOf ==
  ASSUME NEW s \in Seq(CallTypes), s # <<>>, Shape(s)
  PROVE  /\ s[Len(s)].at \in {"main", "modal", "nonmodal", "commit", "handler"}
              /\ s[1].at \in {"main", "closeall", "exited"} => s[1].at = "main"
         /\ s[Len(s)].at \in {"closeall", "exited", "main"} => Len(s) = 1
  <1> DEFINE n == Len(s)
  <1>1. n \in Nat /\ n > 0 /\ DOMAIN s = 1 .. n
    BY SeqFacts
  <1> HIDE DEF n
  <1>2. CASE n = 1
    BY <1>2 DEF n
  <1>3. CASE n # 1
    <2>1. n \in DOMAIN s /\ n > 1
      BY <1>1, <1>3
    <2>2. Follows(s[n - 1], s[n])
      BY <2>1 DEF Shape
    <2>3. s[n].at \notin {"closeall", "exited", "main"}
      BY <2>2 DEF Follows
    <2>4. s[1].at # "main" => s[n].at = "destroy"
      BY <2>1 DEF Shape
    <2> QED
      BY <2>3, <2>4 DEF n
  <1> QED
    BY <1>2, <1>3

(* Everything but destructors runs on top of the main loop.                 *)
LEMMA OnMain ==
  ASSUME IInv, DInv, Top.at \in {"main", "modal", "nonmodal", "commit", "handler"}
  PROVE  /\ calls[1].at = "main" /\ m.FrameList # <<>> /\ m.FrameList[1] = Panels
         /\ UnderDeletion = {} /\ Thens = {}
  <1>1. /\ calls \in Seq(CallTypes) /\ calls # <<>> /\ Top = calls[Len(calls)]
        /\ calls[1].at \in {"main", "closeall", "exited"}
    BY Grounds DEF CallsTyped, MainIsAtTheBottom, Top
  <1>2. calls[1].at = "main"
    BY <1>1, BottomOf, Grounds
  <1> QED
    BY <1>2, Grounds, UnderIs DEF Places

LEMMA ModalIs ==
  ASSUME NEW s \in Seq(CallTypes), s # <<>>, s[1].at \in {"main", "closeall", "exited"},
         Shape(s), NEW k \in Modals(s)
  PROVE  /\ k \in DOMAIN s /\ k \in 1 .. Len(s) /\ k > 1 /\ k - 1 \in DOMAIN s
         /\ s[k].at = "modal" /\ s[k].frame \in Frames /\ s[k].level \in Nat
         /\ s[k - 1].at = "handler" /\ s[k - 1].ops = 0
  <1>1. k \in DOMAIN s /\ s[k].at = "modal" /\ DOMAIN s = 1 .. Len(s) /\ Len(s) \in Nat
    BY SeqFacts DEF Modals
  <1>2. k # 1
    BY <1>1
  <1>3. k \in 1 .. Len(s) /\ k > 1 /\ k - 1 \in DOMAIN s
    BY <1>1, <1>2
  <1>4. s[k] \in CallTypes
    BY <1>1, SeqFacts
  <1>5. s[k].frame \in Frames /\ s[k].level \in Nat
    BY <1>1, <1>4, CallKinds
  <1> QED
    BY <1>1, <1>3, <1>5 DEF Shape, Follows

(* How deep the stack and the loops are.                                    *)
LEMMA Depths ==
  ASSUME IInv, DInv
  PROVE  /\ \A k \in Modals(calls) : calls[k].level \in 0 .. Len(m.ModalStack)
         /\ ~Settled(m) /\ ~Executes(m) =>
               /\ LevelsAre(calls, Len(m.ModalStack))
               /\ \A k \in Modals(calls) : calls[k].level \in 0 .. Len(m.ModalStack) - 1
               /\ m.ModalStack = <<>> => Modals(calls) = {}
         /\ Len(m.ModalStack) \in Nat
  <1> DEFINE n == Len(m.ModalStack)
  <1>1. n \in Nat /\ (m.ModalStack = <<>> => n = 0)
    BY Grounds, FieldTypes, LenProperties
  <1>2. LoopsFit
    BY Grounds
  <1> HIDE DEF n
  <1>3. LevelsAre(calls, n) \/ LevelsAre(calls, n + 1)
    BY <1>2 DEF LoopsFit, n
  <1>4. \A k \in Modals(calls) : calls[k].level \in {calls[j].level : j \in Modals(calls)}
    OBVIOUS
  <1>5. ASSUME NEW k \in Modals(calls) PROVE calls[k].level \in 0 .. n
    <2>1. calls[k].level \in 0 .. n - 1 \/ calls[k].level \in 0 .. (n + 1) - 1
      BY <1>3, <1>4 DEF LevelsAre
    <2> QED
      BY <1>1, <2>1
  <1>6. ASSUME ~Settled(m), ~Executes(m) PROVE LevelsAre(calls, n)
    BY <1>2, <1>6 DEF LoopsFit, n
  <1>7. ASSUME ~Settled(m), ~Executes(m), NEW k \in Modals(calls)
        PROVE  calls[k].level \in 0 .. n - 1
    BY <1>4, <1>6, <1>7 DEF LevelsAre
  <1>8. ASSUME ~Settled(m), ~Executes(m), m.ModalStack = <<>> PROVE Modals(calls) = {}
    <2>1. 0 .. n - 1 = {}
      BY <1>1, <1>8
    <2> QED
      BY <1>7, <1>8, <2>1
  <1> QED
    BY <1>1, <1>5, <1>6, <1>7, <1>8 DEF n

LEMMA LoopsMove ==
  ASSUME CallsTyped, CallsTyped', Shape(calls), ModalFrames, Callers,
         SameLoops(calls, calls'),
         \A k \in Modals(calls) :
            /\ Below(m', calls[k].level) = Below(m, calls[k].level)
            /\ kind'[calls[k].frame] = kind[calls[k].frame]
            /\ m'.ExecutedFrame = calls[k].frame =>
                  m.ExecutedFrame = calls[k].frame
                  /\ Len(m'.ModalStack) = Len(m.ModalStack),
         \A i \in DOMAIN m'.ModalStack :
            \/ i \in DOMAIN m.ModalStack /\ m'.ModalStack[i] = m.ModalStack[i]
            \/ kind[m'.ModalStack[i]] = "editor"
            \/ /\ i = Len(m.ModalStack) + 1
               /\ m'.ModalStack[i] = m.ExecutedFrame
  PROVE  /\ ModalFrames' /\ Callers'
         /\ \A n : LevelsAre(calls, n) => LevelsAre(calls', n)
  <1> DEFINE M == Modals(calls)
  <1>1. /\ Modals(calls') = M
        /\ \A k \in M : /\ calls'[k].level = calls[k].level
                        /\ calls'[k].frame = calls[k].frame
                        /\ calls'[k - 1].frame = calls[k - 1].frame
    BY DEF SameLoops
  <1>2. /\ \A k \in M : kind[calls[k].frame] \in {"dialog", "viewer"}
        /\ \A j, k \in M : calls[j].frame = calls[k].frame => j = k
        /\ \A k \in M, i \in DOMAIN m.ModalStack :
              m.ModalStack[i] = calls[k].frame => i = calls[k].level + 1
        /\ \A k \in M :
              m.ExecutedFrame = calls[k].frame => calls[k].level = Len(m.ModalStack)
    BY DEF ModalFrames
  <1>3. \A k \in M : calls[k - 1].frame = Below(m, calls[k].level)
    BY DEF Callers
  <1> HIDE DEF M
  <1>4. Callers'
    <2>1. \A k \in M : calls'[k - 1].frame = Below(m', calls'[k].level)
      BY <1>1, <1>3 DEF M
    <2> QED
      BY <1>1, <2>1 DEF Callers
  <1>5. ASSUME NEW n, LevelsAre(calls, n) PROVE LevelsAre(calls', n)
    <2>1. {calls'[k].level : k \in M} = {calls[k].level : k \in M}
      BY <1>1
    <2> QED
      BY <1>1, <1>5, <2>1 DEF LevelsAre, M
  <1>6. ASSUME NEW k \in M, NEW i \in DOMAIN m'.ModalStack,
               m'.ModalStack[i] = calls'[k].frame
        PROVE  i = calls'[k].level + 1
    <2>1. m'.ModalStack[i] = calls[k].frame /\ calls'[k].level = calls[k].level
      BY <1>1, <1>6
    <2>2. CASE i \in DOMAIN m.ModalStack /\ m'.ModalStack[i] = m.ModalStack[i]
      BY <1>2, <2>1, <2>2
    <2>3. CASE kind[m'.ModalStack[i]] = "editor"
      BY <1>2, <2>1, <2>3
    <2>4. CASE i = Len(m.ModalStack) + 1 /\ m'.ModalStack[i] = m.ExecutedFrame
      BY <1>2, <2>1, <2>4
    <2> QED
      BY <2>2, <2>3, <2>4
  <1>7. ModalFrames'
    <2>1. \A k \in M : kind'[calls'[k].frame] \in {"dialog", "viewer"}
      BY <1>1, <1>2 DEF M
    <2>2. \A j, k \in M : calls'[j].frame = calls'[k].frame => j = k
      BY <1>1, <1>2
    <2>3. ASSUME NEW k \in M, m'.ExecutedFrame = calls'[k].frame
          PROVE  calls'[k].level = Len(m'.ModalStack)
      BY <1>1, <1>2, <2>3 DEF M
    <2> QED
      BY <1>1, <1>6, <2>1, <2>2, <2>3 DEF ModalFrames
  <1> QED
    BY <1>4, <1>5, <1>7

(* The stack stays, and so does the frame of the list under modal ones.     *)
LEMMA LoopsStay ==
  ASSUME IInv, DInv, IInv', SameLoops(calls, calls'),
         m'.ModalStack = m.ModalStack,
         Modals(calls) = {} \/ Below(m', 0) = Below(m, 0),
         \A k \in Modals(calls) : /\ kind'[calls[k].frame] = kind[calls[k].frame]
                                  /\ \/ m'.ExecutedFrame # calls[k].frame
                                     \/ m'.ExecutedFrame = m.ExecutedFrame
  PROVE  /\ ModalFrames' /\ Callers'
         /\ \A n : LevelsAre(calls, n) => LevelsAre(calls', n)
  <1>1. CallsTyped /\ CallsTyped'
    BY InvGives DEF CallsTyped, IInv, TypeOK
  <1>2. \A k \in Modals(calls) : Below(m', calls[k].level) = Below(m, calls[k].level)
    BY DEF Below
  <1> QED
    BY <1>1, <1>2, Grounds, LoopsMove

-----------------------------------------------------------------------------
(* A pass of Commit() that calls no destructor.                             *)
LEMMA PassCalls ==
  ASSUME IInv, DInv, Top.at = "commit",
         calls' = IF Top.count = 1 THEN Rest ELSE calls
  PROVE  /\ CallsTyped' /\ Shape(calls') /\ Nested(calls') /\ SameLoops(calls, calls')
         /\ calls'[1].at = "main"
         /\ \/ Top'.at = "commit"
            \/ Top'.at = "handler" /\ Top'.ops = 1 /\ Top'.began
         /\ UnderDeletion' = {} /\ Thens' = {}
  <1>1. CallsTyped /\ Shape(calls) /\ Nested(calls) /\ calls[1].at = "main"
    BY Grounds, OnMain
  <1>2. /\ CallsTyped' /\ Shape(calls') /\ Nested(calls') /\ SameLoops(calls, calls')
        /\ calls'[1] = calls[1]
        /\ \/ Top'.at = "commit"
           \/ Top'.at = "handler" /\ Top'.ops = 1 /\ Top'.began
    <2>1. CASE Top.count = 1
      <3>1. calls' = Rest
        BY <2>1
      <3>2. /\ CallsTyped' /\ Shape(calls') /\ Nested(calls') /\ SameLoops(calls, calls')
            /\ calls'[1] = calls[1] /\ Follows(Top', Top)
        BY <1>1, <3>1, PopShape
      <3> QED
        BY <2>1, <3>2 DEF Follows
    <2>2. CASE Top.count # 1
      <3>1. calls' = calls
        BY <2>2
      <3> QED
        BY <1>1, <3>1 DEF CallsTyped, MainIsAtTheBottom, Top, SameLoops
    <2> QED
      BY <2>1, <2>2
  <1>3. UnderDeletion' = {} /\ Thens' = {}
    BY <1>2, UnderIsNext
  <1> QED
    BY <1>1, <1>2, <1>3

LEMMA PassDone ==
  ASSUME IInv, DInv, IInv', Top.at = "commit",
         calls' = IF Top.count = 1 THEN Rest ELSE calls,
         Settled(m') \/ Switches(m') \/ Starts(m'),
         m'.ActivatedFrame = None => Drawn',
         FramesInv', ModalFrames', Callers',
         \/ LevelsAre(calls', Len(m'.ModalStack))
         \/ LevelsAre(calls', Len(m'.ModalStack) + 1) /\ Settled(m')
  PROVE  DInv'
  <1>1. /\ Shape(calls') /\ Nested(calls') /\ SameLoops(calls, calls')
        /\ \/ Top'.at = "commit"
           \/ Top'.at = "handler" /\ Top'.ops = 1 /\ Top'.began
    BY PassCalls
  <1>2. Plans(m') /\ ~Executes(m')
    BY DEF Plans, Executes, Settled, Switches, Starts, NothingAsked
  <1>3. PlanFits'
    BY <1>1, <1>2 DEF PlanFits, IsLoop
  <1>4. LoopsFit'
    BY <1>1, <1>2 DEF LoopsFit
  <1> QED
    BY <1>1, <1>3, <1>4 DEF DInv, LoopsInv

(* What becomes of the frames in a pass, whatever is called.                *)
LEMMA PassFrames ==
  ASSUME IInv, DInv, IInv', Top.at = "commit", kind' = kind, closing' = closing,
         m'.InsertedFrame = None, m'.ExecutedFrame = None,
         m'.FrameList # <<>>, m'.FrameList[1] = Panels,
         InSeq(m'.FrameList) \subseteq InSeq(m.FrameList) \cup ({m.InsertedFrame} \ {None}),
         InSeq(m'.ModalStack) \subseteq InSeq(m.ModalStack) \cup ({m.ExecutedFrame} \ {None}),
         \A f \in Frames : kind[f] = "window" /\ (InList(m, f) \/ f = m.InsertedFrame) =>
            InList(m', f) \/ f \in UnderDeletion',
         m.DeletedFrame # None =>
            \/ m.DeletedFrame \in UnderDeletion'
            \/ ~InList(m', m.DeletedFrame) /\ ~InStack(m', m.DeletedFrame),
         Thens' \subseteq {m.ExecutedFrame} \ {None},
         BackIsListed'
  PROVE  FramesInv'
  <1>1. /\ Places /\ ClosingLeaves /\ m.FrameList # <<>> /\ m.FrameList[1] = Panels
        /\ UnderDeletion = {} /\ Thens = {}
        /\ Pending = {m.ExecutedFrame, m.InsertedFrame} \ {None}
    BY Grounds, OnMain
  <1>2. /\ m.FrameList \in Seq(Frames) /\ Panels \in InSeq(m.FrameList)
        /\ closing \subseteq Frames
    <2>1. m.FrameList \in Seq(Frames) /\ closing \subseteq Frames
      BY Grounds, FieldTypes, InvGives
    <2>2. 1 \in DOMAIN m.FrameList
      BY <1>1, <2>1, SeqFacts
    <2> QED
      BY <1>1, <2>1, <2>2 DEF InSeq
  <1>3. kind[Panels] = "panels"
    BY <1>1, <1>2 DEF Places
  <1>4. Places'
    <2>1. ASSUME NEW f \in InSeq(m'.FrameList)
          PROVE  kind'[f] = IF f = Panels THEN "panels" ELSE "window"
      BY <1>1, <1>3 DEF Places
    <2>2. ASSUME NEW f \in InSeq(m'.ModalStack)
          PROVE  kind'[f] \in ModalKinds
      BY <1>1 DEF Places, ModalKinds
    <2>3. ASSUME NEW f \in Frames, kind'[f] = "window"
          PROVE  InList(m', f) \/ f \in UnderDeletion'
      BY <1>1, <2>3 DEF Places
    <2> QED
      BY <2>1, <2>2, <2>3 DEF Places
  <1>5. ClosingLeaves'
    <2>1. Pending' = Thens'
      BY DEF Pending, ToStack
    <2>2. closing' \cap Pending' = {}
      BY <1>1, <2>1 DEF ClosingLeaves
    <2>3. ASSUME NEW f \in closing
          PROVE  /\ kind'[f] # "none"
                 /\ f \in UnderDeletion' \/ (~InList(m', f) /\ ~InStack(m', f))
      <3>1. /\ kind[f] # "none" /\ f # None /\ f \notin Pending
            /\ f = m.DeletedFrame \/ (~InList(m, f) /\ ~InStack(m, f))
        BY <1>1, <1>2, FramesAssumption DEF ClosingLeaves
      <3>2. CASE f = m.DeletedFrame
        BY <3>1, <3>2
      <3>3. CASE ~InList(m, f) /\ ~InStack(m, f)
        BY <1>1, <3>1, <3>3 DEF InList, InStack
      <3> QED
        BY <3>1, <3>2, <3>3
    <2> QED
      BY <2>2, <2>3 DEF ClosingLeaves
  <1> QED
    BY <1>4, <1>5 DEF FramesInv

(* A pass that moves no frame in or out.                                    *)
LEMMA PassMovesNothing ==
  ASSUME IInv, DInv, IInv', Top.at = "commit",
         calls' = IF Top.count = 1 THEN Rest ELSE calls,
         kind' = kind, closing' = closing,
         NothingAsked(m), NothingAsked(m'), SameLists(m, m'),
         \A f \in Frames : \/ m'.FrameToBack[f] = m.FrameToBack[f]
                           \/ InList(m, m'.FrameToBack[f])
  PROVE  FramesInv'
  <1>1. Thens' = {}
    BY PassCalls
  <1>2. BackIsListed /\ m.FrameList \in Seq(Frames)
    BY Grounds, FieldTypes
  <1>3. BackIsListed'
    <2>1. InSeq(m.FrameList) \subseteq Frames
      BY <1>2, SeqFacts
    <2> QED
      BY <1>2, <2>1 DEF BackIsListed, SameLists, InList
  <1>4. m.FrameList # <<>> /\ m.FrameList[1] = Panels
    BY OnMain
  <1>5. \A f \in Frames : kind[f] = "window" /\ (InList(m, f) \/ f = m.InsertedFrame) =>
            InList(m', f)
    BY FramesAssumption DEF SameLists, InList, NothingAsked
  <1> QED
    BY <1>1, <1>3, <1>4, <1>5, PassFrames DEF SameLists, NothingAsked

LEMMA PlanIsDone ==
  ASSUME Sound(m), Plans(m), NothingAsked(m), NoSwitch(m)
  PROVE  Settled(m)
  <1>1. ~Starts(m)
    <2>1. m.ModalStack \in Seq(Frames) /\ m.ActivatedFrame = None
      BY FieldTypes DEF Sound, NoSwitch
    <2>2. m.ModalStack # <<>> => LastOf(m.ModalStack) \in Frames
      BY <2>1, SeqFacts DEF LastOf
    <2> QED
      BY <2>1, <2>2, FramesAssumption DEF Starts
  <1> QED
    BY <1>1 DEF Plans, Settled, Opens, Closes, Switches, NothingAsked, NoSwitch

LEMMA CommitPlan ==
  ASSUME IInv, DInv, Top.at = "commit"
  PROVE  /\ Plans(m) \/ Executes(m)
         /\ m.DeletedFrame = None /\ ~Requested => NothingAsked(m) /\ Plans(m)
         /\ m.ActivatedFrame = None => Drawn
  <1>1. PlanFits
    BY Grounds
  <1> QED
    BY <1>1 DEF PlanFits, Requested, NothingAsked, Executes

LEMMA RefreshD ==
  ASSUME IInv, DInv, IInv', Top.at = "commit",
         CommitRefresh(IF Top.count = 1 THEN Rest ELSE calls),
         kind' = kind, closing' = closing
  PROVE  DInv'
  <1>1. /\ calls' = IF Top.count = 1 THEN Rest ELSE calls
        /\ NothingAsked(m) /\ NoSwitch(m) /\ Plans(m) /\ Drawn
        /\ m.RefreshedFrame # None
        /\ m' = [m EXCEPT !.RefreshedFrame = None]
        /\ shown' = IF InList(m, m.RefreshedFrame) \/ InStack(m, m.RefreshedFrame)
                    THEN m.RefreshedFrame ELSE shown
    BY CommitPlan DEF CommitRefresh, NoSwitch
  <1>2. Sound(m) /\ m \in Fields /\ Settled(m)
    BY <1>1, Grounds, PlanIsDone
  <1>3. /\ SameLists(m, m') /\ m'.FramePos = m.FramePos /\ m'.FrameToBack = m.FrameToBack
        /\ m'.CurrentFrame = m.CurrentFrame /\ m'.RefreshedFrame = None
        /\ NothingAsked(m') /\ NoSwitch(m')
    BY <1>1, <1>2 DEF Fields, SameLists, NothingAsked, NoSwitch
  <1>4. Below(m', 0) = Below(m, 0) /\ Settled(m')
    BY <1>2, <1>3 DEF Settled, AtHome, Below, SameLists
  <1>5. m.CurrentFrame = m.RefreshedFrame /\ m.FrameList # <<>> /\ AtHome(m)
    BY <1>1, <1>2, OnMain DEF Drawn, Settled
  <1>6. InList(m, m.RefreshedFrame) \/ InStack(m, m.RefreshedFrame)
    BY <1>2, <1>5, HomeIs DEF InList, InStack
  <1>7. Drawn'
    BY <1>1, <1>3, <1>5, <1>6 DEF Drawn
  <1>8. FramesInv'
    BY <1>1, <1>3, PassMovesNothing
  <1>9. SameLoops(calls, calls')
    BY <1>1, PassCalls
  <1>10. /\ ModalFrames' /\ Callers'
         /\ \A n : LevelsAre(calls, n) => LevelsAre(calls', n)
    BY <1>1, <1>3, <1>4, <1>9, LoopsStay DEF SameLists, NothingAsked
  <1>11. LevelsAre(calls, Len(m.ModalStack)) \/ LevelsAre(calls, Len(m.ModalStack) + 1)
    BY Grounds DEF LoopsFit
  <1> QED
    BY <1>1, <1>3, <1>4, <1>7, <1>8, <1>10, <1>11, PassDone DEF SameLists

LEMMA LastPassD ==
  ASSUME IInv, DInv, IInv', Top.at = "commit", Slots = {None}, calls' = Rest,
         m' = m, shown' = shown, kind' = kind, closing' = closing
  PROVE  DInv'
  <1>1. /\ NothingAsked(m) /\ NoSwitch(m) /\ m.RefreshedFrame = None
    BY DEF Slots, NothingAsked, NoSwitch
  <1>2. Sound(m) /\ Plans(m) /\ Settled(m) /\ Drawn
    <2>1. Sound(m) /\ Plans(m) /\ Drawn
      BY <1>1, CommitPlan, Grounds DEF NothingAsked, Requested, NoSwitch
    <2> QED
      BY <1>1, <2>1, PlanIsDone
  <1>3. /\ CallsTyped' /\ Shape(calls') /\ Nested(calls') /\ SameLoops(calls, calls')
        /\ calls'[1] = calls[1] /\ Follows(Top', Top)
    BY Grounds, PopShape
  <1>4. \/ Top'.at = "handler" /\ Top'.ops = 1 /\ Top'.began
        \/ IsLoop(Top') /\ Top'.phase = "run"
    BY <1>3 DEF Follows
  <1>5. /\ UnderDeletion' = {} /\ Thens' = {} /\ UnderDeletion = {} /\ Thens = {}
        /\ calls[1].at = "main"
    BY <1>3, <1>4, UnderIsNext, OnMain DEF IsLoop
  <1>6. FramesInv'
    <2>1. Pending' = Pending
      BY <1>5 DEF Pending, ToStack
    <2> QED
      BY <1>3, <1>5, <2>1, Grounds DEF FramesInv, Places, BackIsListed, ClosingLeaves
  <1>7. /\ ModalFrames' /\ Callers'
        /\ \A n : LevelsAre(calls, n) => LevelsAre(calls', n)
    BY <1>3, LoopsStay
  <1>8. LoopsFit'
    <2>1. LevelsAre(calls, Len(m.ModalStack)) \/ LevelsAre(calls, Len(m.ModalStack) + 1)
      BY Grounds DEF LoopsFit
    <2>2. ~Executes(m') /\ Settled(m')
      BY <1>1, <1>2 DEF Executes, NothingAsked
    <2>3. Top'.at = "handler" => Top'.ops # 0
      BY <1>4 DEF IsLoop
    <2> QED
      BY <1>7, <2>1, <2>2, <2>3 DEF LoopsFit
  <1>9. PlanFits'
    <2>1. Drawn' /\ Settled(m') /\ Plans(m') /\ m'.RefreshedFrame = None
      BY <1>1, <1>2 DEF Drawn, Plans
    <2> QED
      BY <1>4, <2>1 DEF PlanFits, IsLoop
  <1> QED
    BY <1>3, <1>6, <1>7, <1>8, <1>9 DEF DInv, LoopsInv

-----------------------------------------------------------------------------
(* Commit() activates, inserts and executes.                                *)
LEMMA DeactivateD ==
  ASSUME IInv, DInv, IInv', Top.at = "commit",
         calls' = IF Top.count = 1 THEN Rest ELSE calls,
         m.DeletedFrame = None, ~Requested,
         m.ActivatedFrame = None, m.DeactivatedFrame # None,
         m' = [m EXCEPT !.DeactivatedFrame = None],
         shown' = shown, kind' = kind, closing' = closing
  PROVE  DInv'
  <1>1. NothingAsked(m) /\ Plans(m) /\ Drawn /\ Sound(m) /\ m \in Fields
    BY CommitPlan, Grounds
  <1>2. Switches(m) /\ ~Settled(m) /\ ~Executes(m)
    BY <1>1 DEF Plans, Settled, NoSwitch, Opens, NothingAsked, Closes, Starts, Executes
  <1>3. /\ SameLists(m, m') /\ m'.FramePos = m.FramePos /\ m'.FrameToBack = m.FrameToBack
        /\ m'.CurrentFrame = m.CurrentFrame /\ m'.RefreshedFrame = m.RefreshedFrame
        /\ NothingAsked(m') /\ NoSwitch(m')
    BY <1>1 DEF Fields, SameLists, NothingAsked, NoSwitch
  <1>4. Below(m', 0) = Below(m, 0) /\ Settled(m')
    BY <1>2, <1>3 DEF Settled, Switches, AtHome, Below, SameLists
  <1>5. Drawn'
    BY <1>1, <1>3 DEF Drawn
  <1>6. FramesInv'
    BY <1>1, <1>3, PassMovesNothing
  <1>7. SameLoops(calls, calls')
    BY PassCalls
  <1>8. /\ ModalFrames' /\ Callers'
        /\ \A n : LevelsAre(calls, n) => LevelsAre(calls', n)
    BY <1>1, <1>3, <1>4, <1>7, LoopsStay DEF SameLists, NothingAsked
  <1>9. LevelsAre(calls, Len(m.ModalStack))
    BY <1>2, Depths
  <1> QED
    BY <1>3, <1>4, <1>5, <1>6, <1>8, <1>9, PassDone DEF SameLists

LEMMA ActivateD ==
  ASSUME IInv, DInv, IInv', Top.at = "commit",
         calls' = IF Top.count = 1 THEN Rest ELSE calls,
         m.DeletedFrame = None, ~Requested, m.ActivatedFrame # None,
         m' = ActivateCommit(IF m.DeactivatedFrame = None THEN m
                 ELSE DeactivateCommit(m, m.DeactivatedFrame, m.ActivatedFrame),
                 m.ActivatedFrame),
         shown' = shown, kind' = kind, closing' = closing
  PROVE  DInv'
  <1> DEFINE f == m.ActivatedFrame
             mm == IF m.DeactivatedFrame = None THEN m
                   ELSE DeactivateCommit(m, m.DeactivatedFrame, m.ActivatedFrame)
  <1>1. NothingAsked(m) /\ Plans(m) /\ Sound(m) /\ m \in Fields
    BY CommitPlan, Grounds
  <1>2. Switches(m) \/ Starts(m)
    BY <1>1 DEF Plans, Settled, NoSwitch, Opens, NothingAsked, Closes
  <1>3. f \in Frames /\ f # None /\ ~Settled(m) /\ ~Executes(m)
    BY <1>1, FieldTypes DEF FrameOrNone, Settled, NoSwitch, Executes, NothingAsked
  <1>4. /\ m.FrameList # <<>> /\ m.FrameList[1] = Panels
        /\ BackIsListed /\ m.FrameList \in Seq(Frames)
    BY <1>1, OnMain, Grounds, FieldTypes
  <1>5. /\ Sound(mm) /\ SameLists(m, mm) /\ mm.DeactivatedFrame = None
        /\ mm.FramePos = m.FramePos /\ mm.FrameToBack = m.FrameToBack
        /\ mm.CurrentFrame = m.CurrentFrame /\ NothingAsked(mm)
    <2>1. CASE m.DeactivatedFrame = None
      BY <1>1, <2>1 DEF SameLists
    <2>2. CASE m.DeactivatedFrame # None
      <3>1. m.ModalStack = <<>>
        BY <1>2, <2>2 DEF Starts, Switches
      <3>2. mm = [m EXCEPT !.DeactivatedFrame = None, !.ModalStack = m.ModalStack]
        BY <2>2, <3>1 DEF DeactivateCommit
      <3>3. m.DeactivatedFrame \notin InSeq(m.ModalStack)
        BY <3>1 DEF InSeq
      <3>4. Sound(mm)
        BY <1>1, <2>2, <3>3, DeactivateCommitKeeps DEF Keeps
      <3> QED
        BY <1>1, <3>2, <3>4 DEF Fields, SameLists, NothingAsked
    <2> QED
      BY <2>1, <2>2
  <1> HIDE DEF mm
  <1>6. /\ Below(mm, 0) = Below(m, 0) /\ InSeq(mm.FrameList) = InSeq(m.FrameList)
        /\ mm.ModalStack = m.ModalStack
    BY <1>5 DEF Below, SameLists
  <1>7. \/ f \in InSeq(mm.FrameList) /\ (mm.CurrentFrame = f => f = Below(mm, 0))
        \/ mm.ModalStack # <<>> /\ f = LastOf(mm.ModalStack)
    <2>1. CASE Switches(m)
      BY <1>3, <1>5, <1>6, <2>1 DEF Switches, AtHome, Below, InList
    <2>2. CASE Starts(m)
      BY <1>6, <2>2 DEF Starts
    <2> QED
      BY <1>2, <2>1, <2>2
  <1>8. m' = ActivateCommit(mm, f)
    BY DEF mm
  <1> HIDE DEF f
  <1>9. /\ SameLists(mm, m') /\ SameAsked(mm, m') /\ m'.DeactivatedFrame = None
        /\ m'.ActivatedFrame = None
        /\ m'.CurrentFrame = f /\ m'.RefreshedFrame = f
        /\ f \in InSeq(mm.FrameList) => Below(m', 0) = f
        /\ f \notin InSeq(mm.FrameList) => Below(m', 0) = Below(mm, 0)
        /\ \A g : \/ m'.FrameToBack[g] = mm.FrameToBack[g]
                  \/ InList(mm, m'.FrameToBack[g])
    BY <1>3, <1>5, <1>7, <1>8, ActivateCommitIs
  <1>10. NothingAsked(m') /\ NoSwitch(m') /\ SameLists(m, m')
    BY <1>5, <1>9 DEF NothingAsked, NoSwitch, SameAsked, SameLists
  <1>11. AtHome(m')
    <2>1. CASE Switches(m)
      <3>1. m'.ModalStack = <<>> /\ f \in InSeq(mm.FrameList)
        BY <1>3, <1>6, <1>10, <2>1 DEF Switches, SameLists, InList, f
      <3> QED
        BY <1>9, <3>1 DEF AtHome, Below
    <2>2. CASE Starts(m)
      <3>1. m'.ModalStack # <<>> /\ f = LastOf(m'.ModalStack) /\ m'.ModalStack = m.ModalStack
        BY <1>10, <2>2 DEF Starts, SameLists, f
      <3>2. Len(m.ModalStack) # 0
        BY <1>1, <3>1, FieldTypes, SeqFacts
      <3> QED
        BY <1>9, <3>1, <3>2 DEF AtHome, Below, LastOf
    <2> QED
      BY <1>2, <2>1, <2>2
  <1>12. Settled(m')
    BY <1>10, <1>11 DEF Settled
  <1>13. Drawn'
    BY <1>3, <1>9, FramesAssumption DEF Drawn
  <1>14. FramesInv'
    <2>1. \A g \in Frames : \/ m'.FrameToBack[g] = m.FrameToBack[g]
                            \/ InList(m, m'.FrameToBack[g])
      BY <1>5, <1>6, <1>9 DEF InList
    <2> QED
      BY <1>1, <1>10, <2>1, PassMovesNothing
  <1>15. Modals(calls) = {} \/ Below(m', 0) = Below(m, 0)
    <2>1. CASE Switches(m)
      BY <1>3, <2>1, Depths DEF Switches
    <2>2. CASE Starts(m)
      <3>1. f \in InSeq(m.ModalStack)
        BY <1>1, <2>2, FieldTypes, SeqFacts DEF Starts, f, LastOf
      <3>2. f \notin InSeq(m.FrameList)
        BY <1>1, <3>1 DEF Sound
      <3> QED
        BY <1>6, <1>9, <3>2
    <2> QED
      BY <1>2, <2>1, <2>2
  <1>16. SameLoops(calls, calls')
    BY PassCalls
  <1>17. /\ ModalFrames' /\ Callers'
         /\ \A n : LevelsAre(calls, n) => LevelsAre(calls', n)
    BY <1>1, <1>10, <1>15, <1>16, LoopsStay DEF SameLists, NothingAsked
  <1>18. LevelsAre(calls', Len(m'.ModalStack))
    BY <1>3, <1>10, <1>17, Depths DEF SameLists
  <1> QED
    BY <1>12, <1>13, <1>14, <1>17, <1>18, PassDone

LEMMA InsertD ==
  ASSUME IInv, DInv, IInv', Top.at = "commit",
         CommitInsert(IF Top.count = 1 THEN Rest ELSE calls),
         kind' = kind, closing' = closing
  PROVE  DInv'
  <1> DEFINE f == m.InsertedFrame
  <1>1. /\ m.DeletedFrame = None /\ m.ExecutedFrame = None /\ f # None
        /\ m' = InsertCommit(m, f) /\ calls' = IF Top.count = 1 THEN Rest ELSE calls
        /\ shown' = shown
    BY DEF CommitInsert
  <1>2. Opens(m) /\ Sound(m) /\ f \in Frames
    <2>1. (Plans(m) \/ Executes(m)) /\ Sound(m)
      BY CommitPlan, Grounds
    <2>2. f \in FrameOrNone
      BY InvGives
    <2> QED
      BY <1>1, <2>1, <2>2 DEF Plans, Settled, NothingAsked, Closes, Switches, Starts, Executes,
                              FrameOrNone
  <1>3. m.FrameList # <<>> /\ m.FrameList[1] = Panels
    BY OnMain
  <1>4. InList(m, m.CurrentFrame)
    BY <1>2, <1>3, HomeIs DEF Opens, InList
  <1>5. f \notin InSeq(m.FrameList)
    <2>1. f \in Pending
      BY <1>1 DEF Pending
    <2> QED
      BY <2>1 DEF IInv, PendingIsUnknown, Known
  <1>6. /\ m'.FrameList # <<>> /\ m'.FrameList[1] = m.FrameList[1]
        /\ InSeq(m'.FrameList) = InSeq(m.FrameList) \cup {f}
        /\ m'.FrameToBack = [m.FrameToBack EXCEPT ![f] = m.CurrentFrame]
        /\ m'.ModalStack = m.ModalStack
        /\ Below(m', 0) = Below(m, 0)
        /\ Switches(m') /\ m'.ActivatedFrame # None
    BY <1>1, <1>2, <1>3, <1>4, <1>5, InsertCommitIs DEF Opens
  <1>7. Thens' = {}
    BY <1>1, PassCalls
  <1>8. BackIsListed'
    <2>1. m.FrameToBack \in [Frames -> FrameOrNone] /\ BackIsListed /\ f \in Frames
      BY <1>2, Grounds, FieldTypes
    <2>2. ASSUME NEW g \in InSeq(m'.FrameList)
          PROVE  InList(m', m'.FrameToBack[g]) \/ (g = Panels /\ m'.FrameToBack[g] = None)
      <3>1. CASE g = f
        BY <1>4, <1>6, <2>1, <3>1 DEF InList
      <3>2. CASE g # f
        <4>1. g \in InSeq(m.FrameList) /\ g \in Frames
          BY <1>2, <1>6, <3>2, FieldTypes, SeqFacts DEF Sound
        <4>2. m'.FrameToBack[g] = m.FrameToBack[g]
          BY <1>6, <2>1, <3>2, <4>1
        <4> QED
          BY <1>6, <2>1, <4>1, <4>2 DEF BackIsListed, InList
      <3> QED
        BY <3>1, <3>2
    <2> QED
      BY <2>2 DEF BackIsListed
  <1>9. FramesInv'
    <2>1. m'.InsertedFrame = None /\ m'.ExecutedFrame = None
      BY <1>6 DEF Switches, NothingAsked
    <2>2. \A g \in Frames : kind[g] = "window" /\ (InList(m, g) \/ g = m.InsertedFrame) =>
             InList(m', g)
      BY <1>6 DEF InList
    <2> QED
      BY <1>1, <1>3, <1>6, <1>7, <1>8, <2>1, <2>2, PassFrames
  <1>10. SameLoops(calls, calls')
    BY <1>1, PassCalls
  <1>11. /\ ModalFrames' /\ Callers'
         /\ \A n : LevelsAre(calls, n) => LevelsAre(calls', n)
    <2>1. m'.ExecutedFrame = m.ExecutedFrame
      BY <1>1, <1>6 DEF Switches, NothingAsked
    <2> QED
      BY <1>6, <1>10, <2>1, LoopsStay
  <1>12. LevelsAre(calls', Len(m'.ModalStack))
    <2>1. ~Settled(m) /\ ~Executes(m)
      BY <1>1 DEF Settled, NothingAsked, Executes
    <2> QED
      BY <1>6, <1>11, <2>1, Depths
  <1> QED
    BY <1>1, <1>6, <1>9, <1>11, <1>12, PassDone

LEMMA ExecuteD ==
  ASSUME IInv, DInv, IInv', Top.at = "commit",
         CommitExecute(IF Top.count = 1 THEN Rest ELSE calls),
         kind' = kind, closing' = closing
  PROVE  DInv'
  <1> DEFINE f == m.ExecutedFrame
             n == Len(m.ModalStack)
  <1>1. /\ m.DeletedFrame = None /\ f # None
        /\ m' = ExecuteCommit(m, f) /\ calls' = IF Top.count = 1 THEN Rest ELSE calls
    BY DEF CommitExecute
  <1>2. Executes(m) /\ Sound(m) /\ f \in Frames
    <2>1. (Plans(m) \/ Executes(m)) /\ Sound(m)
      BY CommitPlan, Grounds
    <2>2. f \in FrameOrNone
      BY InvGives
    <2> QED
      BY <1>1, <2>1, <2>2 DEF Plans, Settled, NothingAsked, Closes, Switches, Starts, Opens,
                              FrameOrNone
  <1>3. m.FrameList # <<>> /\ m.FrameList[1] = Panels
    BY OnMain
  <1>4. InList(m, m.CurrentFrame) \/ InStack(m, m.CurrentFrame)
    BY <1>2, <1>3, HomeIs DEF Executes, InList, InStack
  <1>5. f \notin InSeq(m.FrameList) \cup InSeq(m.ModalStack)
    <2>1. f \in Pending
      BY <1>1 DEF Pending, ToStack
    <2> QED
      BY <2>1 DEF IInv, PendingIsUnknown, Known
  <1>6. /\ m'.FrameList = m.FrameList /\ m'.FrameToBack = m.FrameToBack
        /\ Len(m'.ModalStack) = n + 1
        /\ \A k \in 1 .. n : m'.ModalStack[k] = m.ModalStack[k]
        /\ m'.ModalStack[n + 1] = f
        /\ InSeq(m'.ModalStack) = InSeq(m.ModalStack) \cup {f}
        /\ Below(m', 0) = Below(m, 0)
        /\ Starts(m')
    BY <1>1, <1>2, <1>4, <1>5, ExecuteCommitIs DEF Executes, NoSwitch
  <1>7. Thens' = {} /\ SameLoops(calls, calls') /\ CallsTyped'
    BY <1>1, PassCalls
  <1>8. BackIsListed'
    BY <1>6, Grounds DEF BackIsListed, InList
  <1>9. m'.InsertedFrame = None /\ m'.ExecutedFrame = None /\ m.InsertedFrame = None
    BY <1>2, <1>6 DEF Starts, NothingAsked, Executes
  <1>10. FramesInv'
    <2>1. \A g \in Frames : kind[g] = "window" /\ (InList(m, g) \/ g = m.InsertedFrame) =>
             InList(m', g)
      BY <1>6, <1>9, FramesAssumption DEF InList
    <2> QED
      BY <1>1, <1>3, <1>6, <1>7, <1>8, <1>9, <2>1, PassFrames
  <1>11. n \in Nat /\ DOMAIN m.ModalStack = 1 .. n /\ DOMAIN m'.ModalStack = 1 .. n + 1
    <2>1. m.ModalStack \in Seq(Frames) /\ m'.ModalStack \in Seq(Frames)
      BY <1>2, FieldTypes DEF Sound, IInv, TypeOK
    <2> QED
      BY <1>6, <2>1, SeqFacts
  <1> HIDE DEF n
  <1>12. \A k \in Modals(calls) : Below(m', calls[k].level) = Below(m, calls[k].level)
    <2>1. ASSUME NEW k \in Modals(calls)
          PROVE  Below(m', calls[k].level) = Below(m, calls[k].level)
      <3>1. calls[k].level \in 0 .. n
        BY Depths DEF n
      <3>2. CASE calls[k].level = 0
        BY <1>6, <3>2
      <3>3. CASE calls[k].level # 0
        <4>1. calls[k].level \in 1 .. n
          BY <1>11, <3>1, <3>3
        <4> QED
          BY <1>6, <3>3, <4>1 DEF Below
      <3> QED
        BY <3>2, <3>3
    <2> QED
      BY <2>1
  <1>13. ASSUME NEW i \in DOMAIN m'.ModalStack
         PROVE  \/ i \in DOMAIN m.ModalStack /\ m'.ModalStack[i] = m.ModalStack[i]
                \/ i = n + 1 /\ m'.ModalStack[i] = m.ExecutedFrame
    <2>1. i \in 1 .. n \/ i = n + 1
      BY <1>11
    <2> QED
      BY <1>6, <1>11, <2>1
  <1>14. \A k \in Modals(calls) : m'.ExecutedFrame # calls[k].frame
    <2>1. \A k \in Modals(calls) : calls[k].frame \in Frames
      BY ModalIs, Grounds DEF CallsTyped, MainIsAtTheBottom
    <2> QED
      BY <1>9, <2>1, FramesAssumption
  <1>15. /\ ModalFrames' /\ Callers'
         /\ \A j : LevelsAre(calls, j) => LevelsAre(calls', j)
    <2>1. CallsTyped /\ Shape(calls) /\ ModalFrames /\ Callers
      BY Grounds
    <2> QED
      BY <1>7, <1>12, <1>13, <1>14, <2>1, LoopsMove DEF n
  <1>16. LevelsAre(calls', Len(m'.ModalStack))
    <2>1. LevelsAre(calls, n + 1)
      BY <1>2, Grounds DEF LoopsFit, n
    <2> QED
      BY <1>6, <1>15, <2>1
  <1>17. m'.ActivatedFrame # None
    <2>1. m'.ModalStack[n + 1] = f /\ Len(m'.ModalStack) = n + 1
      BY <1>6 DEF n
    <2> QED
      BY <1>1, <1>6, <2>1 DEF Starts, LastOf
  <1> QED
    BY <1>1, <1>6, <1>10, <1>15, <1>16, <1>17, PassDone

-----------------------------------------------------------------------------
(* A modal frame is taken off the stack, perhaps for another one.           *)
PoppedThen(mm, f, then, r) ==
    LET n == Len(mm.ModalStack)
    IN  /\ r.FrameList = mm.FrameList /\ r.FrameToBack = mm.FrameToBack
        /\ Below(r, 0) = Below(mm, 0)
        /\ InSeq(r.ModalStack) = (InSeq(mm.ModalStack) \ {f}) \cup ({then} \ {None})
        /\ n \in Nat /\ n > 0
        /\ \A k \in 1 .. n - 1 : r.ModalStack[k] = mm.ModalStack[k]
        /\ then = None =>
             /\ Len(r.ModalStack) = n - 1 /\ Settled(r)
             /\ r.RefreshedFrame = r.CurrentFrame /\ r.CurrentFrame # None
        /\ then # None =>
             /\ Len(r.ModalStack) = n /\ r.ModalStack[n] = then
             /\ Starts(r) /\ r.ActivatedFrame # None

LEMMA PopThenIs ==
  ASSUME NEW mm, Sound(mm), mm.FrameList # <<>>, mm.ModalStack # <<>>,
         NEW f, f = LastOf(mm.ModalStack), mm.CurrentFrame \in {f, None},
         NothingAsked(mm), mm.DeactivatedFrame = None,
         NEW then \in FrameOrNone,
         then \notin InSeq(mm.FrameList) \cup InSeq(mm.ModalStack)
  PROVE  PoppedThen(mm, f, then, ThenExecute(Pop(mm, f, FALSE), then))
  <1> DEFINE p == Pop(mm, f, FALSE)
             n == Len(mm.ModalStack)
  <1>1. /\ p.FrameList = mm.FrameList
        /\ Len(p.ModalStack) = n - 1 /\ n - 1 \in Nat
        /\ \A k \in 1 .. n - 1 : p.ModalStack[k] = mm.ModalStack[k]
        /\ InSeq(p.ModalStack) = InSeq(mm.ModalStack) \ {f}
        /\ SameAsked(mm, p) /\ p.DeactivatedFrame = mm.DeactivatedFrame
        /\ p.ActivatedFrame = None /\ p.FrameToBack = mm.FrameToBack
        /\ AtHome(p) /\ p.RefreshedFrame = p.CurrentFrame
        /\ Below(p, 0) = Below(mm, 0)
    <2>1. Popped(mm, f, p)
      BY PopIs
    <2> QED
      BY <2>1 DEF Popped
  <1>2. n \in Nat /\ n > 0
    BY LastIs, FieldTypes DEF Sound
  <1>3. Sound(p)
    BY PopKeeps DEF Keeps
  <1> HIDE DEF p, n
  <1>4. NothingAsked(p) /\ NoSwitch(p) /\ Settled(p)
    BY <1>1 DEF SameAsked, NothingAsked, NoSwitch, Settled
  <1>5. /\ p.CurrentFrame # None
        /\ InList(p, p.CurrentFrame) \/ InStack(p, p.CurrentFrame)
    BY <1>1, <1>3, HomeIs DEF InList, InStack
  <1>6. CASE then = None
    <2>1. ThenExecute(p, then) = p
      BY <1>6 DEF ThenExecute
    <2> QED
      BY <1>1, <1>2, <1>4, <1>5, <1>6, <2>1 DEF p, n, PoppedThen
  <1>7. CASE then # None
    <2> DEFINE r == ExecuteCommit(p, then)
    <2>1. ThenExecute(p, then) = r
      BY <1>7 DEF ThenExecute
    <2>2. then \in Frames /\ then \notin InSeq(p.FrameList) \cup InSeq(p.ModalStack)
      BY <1>1, <1>7 DEF FrameOrNone
    <2>3. /\ r.FrameList = p.FrameList /\ r.FrameToBack = p.FrameToBack
          /\ Len(r.ModalStack) = Len(p.ModalStack) + 1
          /\ \A k \in 1 .. Len(p.ModalStack) : r.ModalStack[k] = p.ModalStack[k]
          /\ r.ModalStack[Len(p.ModalStack) + 1] = then
          /\ InSeq(r.ModalStack) = InSeq(p.ModalStack) \cup {then}
          /\ Below(r, 0) = Below(p, 0)
          /\ Starts(r)
      BY <1>3, <1>4, <1>5, <2>2, ExecuteCommitIs DEF NothingAsked, NoSwitch
    <2> HIDE DEF r
    <2>4. Len(p.ModalStack) + 1 = n
      BY <1>1, <1>2
    <2>5. Len(r.ModalStack) = n /\ r.ModalStack[n] = then
      BY <2>3, <2>4
    <2>6. r.ActivatedFrame # None
      BY <1>7, <2>3, <2>5 DEF Starts, LastOf
    <2>7. \A k \in 1 .. n - 1 : r.ModalStack[k] = mm.ModalStack[k]
      BY <1>1, <2>3
    <2> QED
      BY <1>1, <1>2, <1>7, <2>1, <2>3, <2>5, <2>6, <2>7, Zenon DEF p, n, PoppedThen
  <1> QED
    BY <1>6, <1>7

LEMMA LoopsPop ==
  ASSUME IInv, DInv, IInv', SameLoops(calls, calls'),
         LevelsAre(calls, Len(m.ModalStack)),
         \A k \in 1 .. Len(m.ModalStack) - 1 : m'.ModalStack[k] = m.ModalStack[k],
         Below(m', 0) = Below(m, 0), m'.ExecutedFrame = None,
         \/ Len(m'.ModalStack) = Len(m.ModalStack) - 1
         \/ /\ Len(m'.ModalStack) = Len(m.ModalStack)
            /\ kind[m'.ModalStack[Len(m.ModalStack)]] = "editor",
         \A k \in Modals(calls) : kind'[calls[k].frame] = kind[calls[k].frame]
  PROVE  /\ ModalFrames' /\ Callers'
         /\ \A n : LevelsAre(calls, n) => LevelsAre(calls', n)
  <1> DEFINE n == Len(m.ModalStack)
  <1>1. CallsTyped /\ CallsTyped' /\ Shape(calls) /\ ModalFrames /\ Callers
    BY Grounds DEF CallsTyped, IInv, TypeOK
  <1>2. /\ n \in Nat /\ DOMAIN m.ModalStack = 1 .. n
        /\ DOMAIN m'.ModalStack = 1 .. Len(m'.ModalStack)
    BY SeqFacts, FieldTypes DEF IInv, TypeOK
  <1>3. \A k \in Modals(calls) : m'.ExecutedFrame # calls[k].frame
    <2>1. \A k \in Modals(calls) : calls[k].frame \in Frames
      BY <1>1, ModalIs DEF CallsTyped, MainIsAtTheBottom
    <2> QED
      BY <2>1, FramesAssumption
  <1> HIDE DEF n
  <1>4. ASSUME NEW k \in Modals(calls)
        PROVE  Below(m', calls[k].level) = Below(m, calls[k].level)
    <2>1. calls[k].level \in 0 .. n - 1
      BY DEF LevelsAre, n
    <2>2. CASE calls[k].level = 0
      BY <2>2
    <2>3. CASE calls[k].level # 0
      <3>1. calls[k].level \in 1 .. n - 1
        BY <1>2, <2>1, <2>3
      <3> QED
        BY <2>3, <3>1 DEF Below, n
    <2> QED
      BY <2>2, <2>3
  <1>5. ASSUME NEW i \in DOMAIN m'.ModalStack
        PROVE  \/ i \in DOMAIN m.ModalStack /\ m'.ModalStack[i] = m.ModalStack[i]
               \/ kind[m'.ModalStack[i]] = "editor"
    <2>1. CASE i \in 1 .. n - 1
      <3>1. i \in 1 .. n
        BY <1>2, <2>1
      <3> QED
        BY <1>2, <2>1, <3>1 DEF n
    <2>2. CASE i \notin 1 .. n - 1
      <3>1. i = n /\ Len(m'.ModalStack) # n - 1
        <4>1. Len(m'.ModalStack) = n - 1 \/ Len(m'.ModalStack) = n
          BY DEF n
        <4>2. Len(m'.ModalStack) # n - 1
          BY <1>2, <2>2
        <4> QED
          BY <1>2, <2>2, <4>1, <4>2
      <3> QED
        BY <3>1 DEF n
    <2> QED
      BY <2>1, <2>2
  <1> QED
    BY <1>1, <1>3, <1>4, <1>5, LoopsMove

(* A pass of Commit() that calls a destructor.                              *)
DestroyCall(f, listed, then) ==
    [at |-> "destroy", frame |-> f, ops |-> 0, began |-> FALSE,
     listed |-> listed, then |-> then]
Called(f, listed, then) ==
    /\ Shape(calls') /\ Nested(calls') /\ SameLoops(calls, calls')
    /\ calls'[1].at = "main"
    /\ Top'.at = "destroy" /\ Top'.frame = f /\ Top'.then = then
    /\ Top'.listed = listed
    /\ UnderDeletion' = {f} /\ Thens' = {then} \ {None}

LEMMA DestroyCalled ==
  ASSUME IInv, DInv, IInv', Top.at = "commit",
         NEW stack, stack = IF Top.count = 1 THEN Rest ELSE calls,
         NEW f \in Frames, NEW then \in FrameOrNone, NEW listed \in BOOLEAN,
         calls' = Append(stack, DestroyCall(f, listed, then))
  PROVE  Called(f, listed, then)
  <1> DEFINE c == DestroyCall(f, listed, then)
  <1>1. CallsTyped /\ Shape(calls) /\ Nested(calls) /\ calls[1].at = "main"
    BY Grounds, OnMain
  <1>2. stack \in {calls, Rest} /\ (stack = Rest => Top.count = 1)
    <2>1. calls # Rest
      <3>1. Len(Rest) # Len(calls)
        BY <1>1, TopIs
      <3> QED
        BY <3>1
    <2> QED
      BY <2>1
  <1>3. c \in CallTypes /\ c.at = "destroy"
    BY DEF CallTypes, DestroyCall
  <1> HIDE DEF c
  <1>4. /\ CallsTyped' /\ Shape(calls') /\ calls'[1] = calls[1] /\ Top' = c
        /\ SameLoops(calls, calls') /\ Nested(calls')
    BY <1>1, <1>2, <1>3, DestroyShape DEF c
  <1>5. /\ Top'.at = "destroy" /\ Top'.frame = f /\ Top'.then = then
        /\ Top'.listed = listed
    BY <1>4 DEF c, DestroyCall
  <1>6. UnderDeletion' = {f} /\ Thens' = {then} \ {None}
    BY <1>4, <1>5, UnderIsNext
  <1> QED
    BY <1>1, <1>4, <1>5, <1>6 DEF Called

LEMMA DestroyDone ==
  ASSUME DInv, NEW f, NEW listed, NEW then, Called(f, listed, then),
         WindowDies' \/ EditorDies',
         ~InList(m', f), kind'[f] \in {"panels", "window", "editor"},
         FramesInv', ModalFrames', Callers',
         LevelsAre(calls', Len(m'.ModalStack))
  PROVE  DInv'
  <1>1. PlanFits'
    BY DEF PlanFits, IsLoop, Called
  <1>2. ~Executes(m')
    BY DEF WindowDies, EditorDies, Switches, NothingAsked, Executes
  <1>3. LoopsFit'
    BY <1>2 DEF LoopsFit
  <1> QED
    BY <1>1, <1>3 DEF DInv, LoopsInv, Called

LEMMA BacksAre ==
  ASSUME NEW mm \in Fields, NEW f \in Frames, f # Panels,
         Panels \in InSeq(mm.FrameList),
         \A g \in InSeq(mm.FrameList) \ {f} :
            \/ InList(mm, mm.FrameToBack[g])
            \/ mm.FrameToBack[g] = f
            \/ g = Panels /\ mm.FrameToBack[g] = None
  PROVE  \A g \in InSeq(mm.FrameList) \ {f} :
            \/ Backs(mm, f)[g] \in InSeq(mm.FrameList) \ {f}
            \/ g = Panels /\ Backs(mm, f)[g] = None
  <1>1. SUFFICES ASSUME NEW g \in InSeq(mm.FrameList) \ {f}
                 PROVE  \/ Backs(mm, f)[g] \in InSeq(mm.FrameList) \ {f}
                        \/ g = Panels /\ Backs(mm, f)[g] = None
    OBVIOUS
  <1>2. g \in Frames
    BY FieldTypes, SeqFacts
  <1>3. Backs(mm, f)[g] = IF InList(mm, g) /\ mm.FrameToBack[g] = f
                          THEN Panels ELSE mm.FrameToBack[g]
    BY <1>2 DEF Backs
  <1>4. InList(mm, g)
    BY DEF InList
  <1> QED
    BY <1>3, <1>4 DEF InList

LEMMA ReplacedKeeps ==
  ASSUME NEW s \in Seq(Frames), NEW f \in InSeq(s), NEW g \in Frames,
         g \notin InSeq(s), Distinct(s)
  PROVE  LET t == [s EXCEPT ![IndexOf(s, f)] = g]
         IN  /\ InSeq(t) = (InSeq(s) \ {f}) \cup {g}
             /\ s[1] # f => t[1] = s[1]
  <1> DEFINE i == IndexOf(s, f)
             t == [s EXCEPT ![i] = g]
  <1>1. i \in DOMAIN s /\ s[i] = f
    BY IndexOfIs
  <1>2. InSeq(t) \subseteq InSeq(s) \cup {g} /\ f \notin InSeq(t) /\ g \in InSeq(t)
    BY ReplacedIs
  <1> HIDE DEF i
  <1>3. DOMAIN t = DOMAIN s /\ \A k \in DOMAIN s : k # i => t[k] = s[k]
    OBVIOUS
  <1>4. ASSUME NEW x \in InSeq(s), x # f PROVE x \in InSeq(t)
    <2>1. PICK k \in DOMAIN s : s[k] = x
      BY DEF InSeq
    <2>2. k # i
      BY <1>1, <1>4, <2>1
    <2> QED
      BY <1>3, <2>1, <2>2 DEF InSeq
  <1>5. s[1] # f => t[1] = s[1]
    BY <1>1
  <1> QED
    BY <1>2, <1>4, <1>5 DEF i

-----------------------------------------------------------------------------
(* Commit() deletes.  `mm' is the manager with the requests taken out.      *)
Taken(mm) ==
    /\ Sound(mm) /\ SameLists(m, mm) /\ mm.FramePos = m.FramePos
    /\ mm.FrameToBack = m.FrameToBack /\ mm.CurrentFrame = m.CurrentFrame
    /\ mm.InsertedFrame = None /\ mm.ExecutedFrame = None /\ NoSwitch(mm)

LEMMA ClosesIs ==
  ASSUME IInv, DInv, Top.at = "commit", Closes(m)
  PROVE  /\ m.DeletedFrame \in Frames /\ m.DeletedFrame # Panels
         /\ m.DeletedFrame = m.CurrentFrame /\ m.DeletedFrame # None
         /\ m.ExecutedFrame \in FrameOrNone
         /\ m.ExecutedFrame \notin InSeq(m.FrameList) \cup InSeq(m.ModalStack)
         /\ m.ExecutedFrame # None => kind[m.ExecutedFrame] = "editor"
         /\ m.ModalStack = <<>> => /\ InList(m, m.DeletedFrame)
                                   /\ kind[m.DeletedFrame] = "window"
                                   /\ m.ExecutedFrame = None
                                   /\ Modals(calls) = {}
         /\ m.ModalStack # <<>> => /\ ~InList(m, m.DeletedFrame)
                                   /\ m.DeletedFrame = LastOf(m.ModalStack)
                                   /\ kind[m.DeletedFrame] \in ModalKinds
         /\ LevelsAre(calls, Len(m.ModalStack))
         /\ Panels \in InSeq(m.FrameList)
  <1>1. Sound(m) /\ m \in Fields /\ Places /\ m.FrameList # <<>> /\ m.FrameList[1] = Panels
    BY Grounds, OnMain
  <1>2. /\ m.DeletedFrame \in FrameOrNone /\ m.ExecutedFrame \in FrameOrNone
        /\ m.FrameList \in Seq(Frames) /\ m.ModalStack \in Seq(Frames)
        /\ InSeq(m.FrameList) \cap InSeq(m.ModalStack) = {}
    BY <1>1, FieldTypes DEF Sound
  <1>3. m.DeletedFrame \in Frames
    BY <1>2 DEF Closes, FrameOrNone
  <1>4. /\ m.ModalStack = <<>> => m.CurrentFrame \in InSeq(m.FrameList)
        /\ m.ModalStack # <<>> => /\ m.CurrentFrame \in InSeq(m.ModalStack)
                                  /\ m.CurrentFrame = LastOf(m.ModalStack)
    BY <1>1, HomeIs DEF Closes
  <1>5. m.ExecutedFrame \notin InSeq(m.FrameList) \cup InSeq(m.ModalStack)
    <2>1. m.ExecutedFrame # None => m.ExecutedFrame \in Pending
      BY DEF Pending, ToStack
    <2>2. None \notin InSeq(m.FrameList) \cup InSeq(m.ModalStack)
      BY <1>2, SeqFacts, FramesAssumption
    <2> QED
      BY <2>1, <2>2 DEF IInv, PendingIsUnknown, Known
  <1>6. ~Settled(m) /\ ~Executes(m)
    BY DEF Closes, Settled, NothingAsked, Executes
  <1>7. Panels \in InSeq(m.FrameList)
    <2>1. 1 \in DOMAIN m.FrameList
      BY <1>1, <1>2, SeqFacts
    <2> QED
      BY <1>1, <2>1 DEF InSeq
  <1>8. m.ExecutedFrame # None => kind[m.ExecutedFrame] = "editor"
    BY <1>1 DEF Places, Closes
  <1>9. ASSUME m.ModalStack = <<>>
        PROVE  /\ InList(m, m.DeletedFrame) /\ kind[m.DeletedFrame] = "window"
               /\ m.ExecutedFrame = None /\ Modals(calls) = {}
    BY <1>1, <1>4, <1>6, <1>9, Depths DEF InList, Places, Closes
  <1>10. ASSUME m.ModalStack # <<>>
         PROVE  /\ ~InList(m, m.DeletedFrame) /\ m.DeletedFrame = LastOf(m.ModalStack)
                /\ kind[m.DeletedFrame] \in ModalKinds
    BY <1>1, <1>2, <1>4, <1>10 DEF InList, Places, Closes
  <1>11. LevelsAre(calls, Len(m.ModalStack))
    BY <1>6, Depths
  <1> QED
    BY <1>2, <1>3, <1>5, <1>7, <1>8, <1>9, <1>10, <1>11 DEF Closes

(* The manager's part of a DeleteCommit() up to the destructor.             *)
LEMMA TakenUnlinked ==
  ASSUME IInv, DInv, Top.at = "commit", Closes(m), NEW mm, Taken(mm)
  PROVE  LET f == m.DeletedFrame
             r == Unlink(mm, f)
         IN  /\ Sound(r) /\ r \in Fields
             /\ r.FrameList = Without(m.FrameList, f) /\ r.ModalStack = m.ModalStack
             /\ InSeq(r.FrameList) = InSeq(m.FrameList) \ {f}
             /\ r.FrameList # <<>> /\ r.FrameList[1] = Panels
             /\ NothingAsked(r) /\ r.DeactivatedFrame = None
             /\ r.CurrentFrame = m.CurrentFrame
             /\ \A g \in InSeq(r.FrameList) :
                   InList(r, r.FrameToBack[g]) \/ (g = Panels /\ r.FrameToBack[g] = None)
             /\ ~InList(m, f) => /\ r.FrameList = m.FrameList
                                 /\ r.FramePos = m.FramePos
                                 /\ Below(r, 0) = Below(m, 0)
                                 /\ r.ActivatedFrame = None
             /\ InList(m, f) => r.ActivatedFrame # None /\ InList(r, r.ActivatedFrame)
  <1> DEFINE f == m.DeletedFrame
             r == Unlink(mm, f)
  <1>1. /\ f \in Frames /\ f # Panels /\ Panels \in InSeq(m.FrameList)
    BY ClosesIs
  <1>2. /\ Sound(mm) /\ mm \in Fields /\ mm.FrameList = m.FrameList
        /\ mm.ModalStack = m.ModalStack /\ mm.FramePos = m.FramePos
        /\ mm.FrameToBack = m.FrameToBack /\ mm.CurrentFrame = m.CurrentFrame
        /\ mm.InsertedFrame = None /\ mm.ExecutedFrame = None
        /\ mm.ActivatedFrame = None /\ mm.DeactivatedFrame = None
    BY DEF Taken, Sound, SameLists, NoSwitch
  <1>3. /\ r.FrameList = Without(mm.FrameList, f) /\ r.ModalStack = mm.ModalStack
        /\ r.InsertedFrame = mm.InsertedFrame /\ r.DeletedFrame = None
        /\ r.ExecutedFrame = mm.ExecutedFrame
        /\ r.DeactivatedFrame = mm.DeactivatedFrame
        /\ r.CurrentFrame = mm.CurrentFrame
        /\ r.FrameToBack = Backs(mm, f)
        /\ ~InList(mm, f) => /\ r.FramePos = mm.FramePos
                             /\ r.ActivatedFrame = mm.ActivatedFrame
        /\ InList(mm, f) /\ mm.ActivatedFrame = None
             /\ InList(mm, mm.FrameToBack[f]) /\ Without(mm.FrameList, f) # <<>>
           => InList(r, r.ActivatedFrame)
    BY <1>1, <1>2, UnlinkIs
  <1>4. Sound(r) /\ r \in Fields
    BY <1>2, UnlinkKeeps DEF Keeps, Sound
  <1> HIDE DEF r
  <1>5. /\ m.FrameList # <<>> /\ m.FrameList[1] = Panels /\ BackIsListed
        /\ m.FrameList \in Seq(Frames) /\ Distinct(m.FrameList)
    BY <1>2, OnMain, Grounds, FieldTypes DEF Sound
  <1>6. /\ InSeq(r.FrameList) = InSeq(m.FrameList) \ {f}
        /\ r.FrameList # <<>> /\ r.FrameList[1] = Panels
        /\ f \notin InSeq(m.FrameList) => r.FrameList = m.FrameList
    <2>1. CASE f \in InSeq(m.FrameList)
      BY <1>1, <1>2, <1>3, <1>5, <2>1, OthersStay
    <2>2. CASE f \notin InSeq(m.FrameList)
      BY <1>2, <1>3, <1>5, <2>2 DEF Without
    <2> QED
      BY <2>1, <2>2
  <1>7. \A g \in InSeq(r.FrameList) :
            InList(r, r.FrameToBack[g]) \/ (g = Panels /\ r.FrameToBack[g] = None)
    <2>1. \A g \in InSeq(mm.FrameList) \ {f} :
            \/ InList(mm, mm.FrameToBack[g])
            \/ g = Panels /\ mm.FrameToBack[g] = None
      BY <1>2, <1>5 DEF BackIsListed, InList
    <2>2. \A g \in InSeq(mm.FrameList) \ {f} :
            \/ Backs(mm, f)[g] \in InSeq(mm.FrameList) \ {f}
            \/ g = Panels /\ Backs(mm, f)[g] = None
      BY <1>1, <1>2, <2>1, BacksAre
    <2> QED
      BY <1>2, <1>3, <1>6, <2>2 DEF InList
  <1>8. ASSUME ~InList(m, f)
        PROVE  /\ r.FrameList = m.FrameList /\ r.FramePos = m.FramePos
               /\ Below(r, 0) = Below(m, 0) /\ r.ActivatedFrame = None
    BY <1>2, <1>3, <1>6, <1>8 DEF InList, Below
  <1>9. ASSUME InList(m, f)
        PROVE  r.ActivatedFrame # None /\ InList(r, r.ActivatedFrame)
    <2>1. InList(mm, mm.FrameToBack[f])
      BY <1>1, <1>2, <1>5, <1>9 DEF BackIsListed, InList
    <2>2. InList(r, r.ActivatedFrame)
      BY <1>2, <1>3, <1>6, <1>9, <2>1 DEF InList
    <2>3. None \notin InSeq(r.FrameList)
      BY <1>5, <1>6, SeqFacts, FramesAssumption
    <2> QED
      BY <2>2, <2>3 DEF InList
  <1>10. NothingAsked(r) /\ r.DeactivatedFrame = None
    BY <1>2, <1>3 DEF NothingAsked
  <1> QED
    BY <1>2, <1>3, <1>4, <1>6, <1>7, <1>8, <1>9, <1>10 DEF r

(* A window or a modal editor is closed: its destructor is called.          *)
LEMMA BornClosedD ==
  ASSUME IInv, DInv, IInv', Top.at = "commit", Closes(m), NEW mm, Taken(mm),
         kind[m.DeletedFrame] \in {"window", "editor"},
         DeleteCommit(mm, m.DeletedFrame, m.ExecutedFrame,
                      IF Top.count = 1 THEN Rest ELSE calls),
         kind' = kind, closing' = closing
  PROVE  DInv'
  <1> DEFINE f == m.DeletedFrame
             then == m.ExecutedFrame
             stack == IF Top.count = 1 THEN Rest ELSE calls
             r == Unlink(mm, f)
             listed == InList(mm, f)
  <1>1. /\ f \in Frames /\ f # Panels /\ f # None
        /\ f = m.CurrentFrame /\ then \in FrameOrNone
        /\ then # None => kind[then] = "editor"
        /\ m.ModalStack = <<>> => /\ InList(m, f) /\ kind[f] = "window"
                                  /\ then = None /\ Modals(calls) = {}
        /\ m.ModalStack # <<>> => /\ ~InList(m, f) /\ f = LastOf(m.ModalStack)
                                  /\ kind[f] \in ModalKinds
        /\ LevelsAre(calls, Len(m.ModalStack))
    BY ClosesIs
  <1>2. /\ m' = [r EXCEPT !.CurrentFrame = IF @ = f THEN None ELSE @]
        /\ calls' = Append(stack, DestroyCall(f, listed, then))
    BY DEF DeleteCommit, DynamicallyBorn, DestroyCall
  <1>3. listed = InList(m, f) /\ listed \in BOOLEAN
    BY DEF Taken, SameLists, InList
  <1>4. /\ Sound(r) /\ r \in Fields
        /\ r.ModalStack = m.ModalStack
        /\ InSeq(r.FrameList) = InSeq(m.FrameList) \ {f}
        /\ r.FrameList # <<>> /\ r.FrameList[1] = Panels
        /\ NothingAsked(r) /\ r.DeactivatedFrame = None
        /\ r.CurrentFrame = m.CurrentFrame
        /\ \A g \in InSeq(r.FrameList) :
              InList(r, r.FrameToBack[g]) \/ (g = Panels /\ r.FrameToBack[g] = None)
        /\ ~InList(m, f) => /\ r.FrameList = m.FrameList
                            /\ r.FramePos = m.FramePos
                            /\ Below(r, 0) = Below(m, 0)
                            /\ r.ActivatedFrame = None
        /\ InList(m, f) => r.ActivatedFrame # None /\ InList(r, r.ActivatedFrame)
    BY TakenUnlinked
  <1> HIDE DEF r, stack, listed
  <1>5. /\ m'.FrameList = r.FrameList /\ m'.ModalStack = r.ModalStack
        /\ m'.InsertedFrame = None /\ m'.DeletedFrame = None /\ m'.ExecutedFrame = None
        /\ m'.DeactivatedFrame = None /\ m'.ActivatedFrame = r.ActivatedFrame
        /\ m'.CurrentFrame = None /\ m'.FrameToBack = r.FrameToBack
        /\ m'.FramePos = r.FramePos
    BY <1>1, <1>2, <1>4 DEF Fields, NothingAsked
  <1>6. /\ Called(f, listed, then)
        /\ SameLoops(calls, calls') /\ Top'.frame = f /\ Top'.then = then
        /\ Top'.listed = listed
        /\ UnderDeletion' = {f} /\ Thens' = {then} \ {None}
    <2>1. stack = IF Top.count = 1 THEN Rest ELSE calls
      BY DEF stack
    <2>2. Called(f, listed, then)
      <3> HIDE DEF f, then
      <3> QED
        BY <1>1, <1>2, <1>3, <2>1, DestroyCalled
    <2> QED
      BY <2>2 DEF Called
  <1>7. ~InList(m', f)
    BY <1>4, <1>5 DEF InList
  <1>8. BackIsListed'
    BY <1>4, <1>5 DEF BackIsListed, InList
  <1>9. FramesInv'
    <2>1. \A g \in Frames : kind[g] = "window" /\ (InList(m, g) \/ g = m.InsertedFrame) =>
             InList(m', g) \/ g \in UnderDeletion'
      BY <1>4, <1>5, <1>6, FramesAssumption DEF InList, Closes
    <2> QED
      BY <1>4, <1>5, <1>6, <1>8, <2>1, PassFrames
  <1>10. Modals(calls) = {} \/ Below(m', 0) = Below(m, 0)
    BY <1>1, <1>4, <1>5 DEF Below
  <1>11. \A k \in Modals(calls) : m'.ExecutedFrame # calls[k].frame
    <2>1. \A k \in Modals(calls) : calls[k].frame \in Frames
      BY ModalIs, Grounds DEF CallsTyped, MainIsAtTheBottom
    <2> QED
      BY <1>5, <2>1, FramesAssumption
  <1>12. /\ ModalFrames' /\ Callers'
         /\ \A n : LevelsAre(calls, n) => LevelsAre(calls', n)
    BY <1>4, <1>5, <1>6, <1>10, <1>11, LoopsStay
  <1>13. LevelsAre(calls', Len(m'.ModalStack))
    BY <1>1, <1>4, <1>5, <1>12
  <1>14. WindowDies' \/ EditorDies'
    <2>1. CASE m.ModalStack = <<>>
      <3>1. Switches(m') /\ m'.ActivatedFrame # None
        BY <1>1, <1>4, <1>5, <2>1 DEF Switches, NothingAsked, InList
      <3> QED
        BY <1>1, <1>6, <2>1, <3>1 DEF WindowDies
    <2>2. CASE m.ModalStack # <<>>
      <3>1. NothingAsked(m') /\ NoSwitch(m')
        BY <1>1, <1>4, <1>5, <2>2 DEF NothingAsked, NoSwitch
      <3> QED
        BY <1>1, <1>3, <1>4, <1>5, <1>6, <2>2, <3>1 DEF EditorDies
    <2> QED
      BY <2>1, <2>2
  <1>15. kind'[f] \in {"panels", "window", "editor"}
    OBVIOUS
  <1> QED
    BY <1>6, <1>7, <1>9, <1>12, <1>13, <1>14, <1>15, DestroyDone

(* A modal dialog or viewer is closed.                                      *)
LEMMA ModalClosedD ==
  ASSUME IInv, DInv, IInv', Top.at = "commit", Closes(m), NEW mm, Taken(mm),
         kind[m.DeletedFrame] \in {"dialog", "viewer"},
         DeleteCommit(mm, m.DeletedFrame, m.ExecutedFrame,
                      IF Top.count = 1 THEN Rest ELSE calls),
         kind' = kind, closing' = closing
  PROVE  DInv'
  <1> DEFINE f == m.DeletedFrame
             then == m.ExecutedFrame
             r == Unlink(mm, f)
             n == Len(m.ModalStack)
  <1>1. /\ f \in Frames /\ f # None /\ f = m.CurrentFrame /\ then \in FrameOrNone
        /\ then # None => kind[then] = "editor"
        /\ then \notin InSeq(m.FrameList) \cup InSeq(m.ModalStack)
        /\ m.ModalStack # <<>> /\ ~InList(m, f) /\ f = LastOf(m.ModalStack)
        /\ LevelsAre(calls, Len(m.ModalStack))
    BY ClosesIs
  <1>2. /\ m' = ThenExecute(Pop(r, f, FALSE), then)
        /\ calls' = IF Top.count = 1 THEN Rest ELSE calls
    <2>1. ~DynamicallyBorn(f)
      BY DEF DynamicallyBorn
    <2>2. InList(mm, f) = FALSE
      BY <1>1 DEF Taken, SameLists, InList
    <2> QED
      BY <2>1, <2>2 DEF DeleteCommit
  <1>3. /\ Sound(r) /\ r.ModalStack = m.ModalStack
        /\ r.FrameList # <<>> /\ r.FrameList[1] = Panels
        /\ NothingAsked(r) /\ r.DeactivatedFrame = None
        /\ r.CurrentFrame = m.CurrentFrame
        /\ \A g \in InSeq(r.FrameList) :
              InList(r, r.FrameToBack[g]) \/ (g = Panels /\ r.FrameToBack[g] = None)
        /\ r.FrameList = m.FrameList
        /\ Below(r, 0) = Below(m, 0)
    BY <1>1, TakenUnlinked
  <1> HIDE DEF r
  <1>4. /\ m'.FrameList = r.FrameList /\ m'.FrameToBack = r.FrameToBack
        /\ Below(m', 0) = Below(r, 0)
        /\ InSeq(m'.ModalStack) = (InSeq(r.ModalStack) \ {f}) \cup ({then} \ {None})
        /\ \A k \in 1 .. Len(r.ModalStack) - 1 : m'.ModalStack[k] = r.ModalStack[k]
        /\ Len(r.ModalStack) \in Nat /\ Len(r.ModalStack) > 0
        /\ then = None =>
             /\ Len(m'.ModalStack) = Len(r.ModalStack) - 1 /\ Settled(m')
             /\ m'.RefreshedFrame = m'.CurrentFrame /\ m'.CurrentFrame # None
        /\ then # None =>
             /\ Len(m'.ModalStack) = Len(r.ModalStack)
             /\ m'.ModalStack[Len(r.ModalStack)] = then
             /\ Starts(m') /\ m'.ActivatedFrame # None
    <2>1. f = LastOf(r.ModalStack) /\ r.CurrentFrame \in {f, None} /\ r.ModalStack # <<>>
          /\ then \notin InSeq(r.FrameList) \cup InSeq(r.ModalStack)
      BY <1>1, <1>3
    <2>2. PoppedThen(r, f, then, m')
      <3> HIDE DEF f, then
      <3> QED
        BY <1>1, <1>2, <1>3, <2>1, PopThenIs
    <2> QED
      BY <2>2 DEF PoppedThen
  <1>5. m'.InsertedFrame = None /\ m'.ExecutedFrame = None
    BY <1>4 DEF Settled, Starts, NothingAsked
  <1>6. SameLoops(calls, calls') /\ Thens' = {}
    BY <1>2, PassCalls
  <1>7. BackIsListed'
    BY <1>3, <1>4 DEF BackIsListed, InList
  <1>8. FramesInv'
    <2>1. \A g \in Frames : kind[g] = "window" /\ (InList(m, g) \/ g = m.InsertedFrame) =>
             InList(m', g)
      BY <1>3, <1>4, FramesAssumption DEF InList, Closes
    <2>2. ~InList(m', f) /\ ~InStack(m', f)
      <3>1. f \in InSeq(m.ModalStack)
        BY <1>1, LastIs, FieldTypes, Grounds
      <3>2. then # f
        BY <1>1, <3>1
      <3> QED
        BY <1>1, <1>3, <1>4, <3>2 DEF InList, InStack
    <2>3. InSeq(m'.ModalStack) \subseteq InSeq(m.ModalStack) \cup ({then} \ {None})
      BY <1>3, <1>4
    <2> QED
      BY <1>3, <1>4, <1>5, <1>6, <1>7, <2>1, <2>2, <2>3, PassFrames
  <1>9. /\ ModalFrames' /\ Callers'
        /\ \A j : LevelsAre(calls, j) => LevelsAre(calls', j)
    <2>1. \/ Len(m'.ModalStack) = Len(m.ModalStack) - 1
          \/ /\ Len(m'.ModalStack) = Len(m.ModalStack)
             /\ kind[m'.ModalStack[Len(m.ModalStack)]] = "editor"
      BY <1>1, <1>3, <1>4
    <2>2. Below(m', 0) = Below(m, 0)
      BY <1>3, <1>4
    <2>3. \A k \in 1 .. Len(m.ModalStack) - 1 : m'.ModalStack[k] = m.ModalStack[k]
      BY <1>3, <1>4
    <2> QED
      BY <1>1, <1>5, <1>6, <2>1, <2>2, <2>3, LoopsPop
  <1>10. \/ LevelsAre(calls', Len(m'.ModalStack))
         \/ LevelsAre(calls', Len(m'.ModalStack) + 1) /\ Settled(m')
    <2>1. LevelsAre(calls', n)
      BY <1>1, <1>9
    <2>2. then = None => Len(m'.ModalStack) + 1 = n /\ Settled(m')
      BY <1>3, <1>4
    <2>3. then # None => Len(m'.ModalStack) = n
      BY <1>3, <1>4
    <2> QED
      BY <2>1, <2>2, <2>3
  <1>11. m'.ActivatedFrame = None => Drawn'
    BY <1>4 DEF Drawn
  <1>12. Settled(m') \/ Switches(m') \/ Starts(m')
    BY <1>4
  <1> QED
    BY <1>2, <1>8, <1>9, <1>10, <1>11, <1>12, PassDone

-----------------------------------------------------------------------------
(* Commit() puts a window in the place of another one.                      *)
Replaced(f, w, stack) ==
    /\ f \in Frames /\ f # Panels /\ InList(m, f) /\ kind[f] = "window"
    /\ w \in Frames /\ w \notin Known(m)
    /\ calls' = Append(stack, DestroyCall(f, FALSE, None))
    /\ InSeq(m'.FrameList) = (InSeq(m.FrameList) \ {f}) \cup {w}
    /\ m'.FrameList # <<>> /\ m'.FrameList[1] = Panels
    /\ m'.ModalStack = <<>>
    /\ NothingAsked(m') /\ m'.DeactivatedFrame = None
    /\ m'.ActivatedFrame = w
    /\ m'.CurrentFrame = IF m.CurrentFrame = f THEN None ELSE m.CurrentFrame
    /\ BackIsListed'

LEMMA ReplacedIn ==
  ASSUME IInv, DInv, Top.at = "commit", Opens(m), m.DeletedFrame # None,
         NEW stack,
         UpdateCommit(m.DeletedFrame, m.InsertedFrame, m.ExecutedFrame, stack)
  PROVE  Replaced(m.DeletedFrame, m.InsertedFrame, stack)
  <1> DEFINE f == m.DeletedFrame
             w == m.InsertedFrame
             list == [m.FrameList EXCEPT ![IndexOf(m.FrameList, f)] = w]
             m1 == [m EXCEPT !.DeletedFrame = None, !.InsertedFrame = None,
                             !.ExecutedFrame = None]
             m0 == [m1 EXCEPT !.FrameList = list]
             m2 == ActivateFrame(m0, w)
             m3 == [m2 EXCEPT !.FrameToBack =
                        [@ EXCEPT ![m2.ActivatedFrame] = m.CurrentFrame]]
             r == Unlink(m3, f)
  <1>1. /\ Sound(m) /\ m \in Fields /\ Places /\ BackIsListed
        /\ m.FrameList # <<>> /\ m.FrameList[1] = Panels
    BY Grounds, OnMain
  <1>2. /\ m.FrameList \in Seq(Frames) /\ m.ModalStack = <<>> /\ m.FramePos \in Nat
        /\ Distinct(m.FrameList) /\ m.CurrentFrame \in FrameOrNone
        /\ (m.FramePos = 0 \/ m.FramePos < Len(m.FrameList))
        /\ m.FrameToBack \in [Frames -> FrameOrNone]
    BY <1>1, FieldTypes DEF Sound, Opens
  <1>3. f \in InSeq(m.FrameList) /\ f \in Frames /\ f # Panels /\ f # None
        /\ kind[f] = "window" /\ Panels \in InSeq(m.FrameList)
    <2>1. f \in InSeq(m.FrameList) /\ f # Panels
      BY DEF Opens, InList
    <2>2. 1 \in DOMAIN m.FrameList
      BY <1>1, <1>2, SeqFacts
    <2> QED
      BY <1>1, <1>2, <2>1, <2>2, SeqFacts DEF Places, InSeq
  <1>4. w \in Frames /\ w # None /\ w \notin Known(m)
    <2>1. w # None /\ w \in FrameOrNone
      BY <1>1, FieldTypes DEF Opens
    <2>2. w \in Pending
      BY <2>1 DEF Pending
    <2> QED
      BY <2>1, <2>2 DEF FrameOrNone, IInv, PendingIsUnknown
  <1>5. w \notin InSeq(m.FrameList)
    BY <1>4 DEF Known
  <1>6. m.CurrentFrame \in InSeq(m.FrameList)
    BY <1>1, HomeIs DEF Opens
  <1>7. /\ list \in Seq(Frames) /\ Len(list) = Len(m.FrameList) /\ Distinct(list)
        /\ InSeq(list) = (InSeq(m.FrameList) \ {f}) \cup {w}
        /\ list[1] = Panels /\ list # <<>>
    <2>1. /\ list \in Seq(Frames) /\ Len(list) = Len(m.FrameList) /\ Distinct(list)
      <3> HIDE DEF f, w
      <3> QED
        BY <1>2, <1>3, <1>4, <1>5, ReplacedIs
    <2>2. /\ InSeq(list) = (InSeq(m.FrameList) \ {f}) \cup {w}
          /\ m.FrameList[1] # f => list[1] = m.FrameList[1]
      BY <1>2, <1>3, <1>4, <1>5, ReplacedKeeps
    <2>3. list # <<>>
      <3>1. w \in InSeq(list)
        BY <2>2
      <3> HIDE DEF list
      <3> QED
        BY <3>1 DEF InSeq
    <2> QED
      BY <1>1, <1>3, <2>1, <2>2, <2>3
  <1>8. DeleteCommit(m3, f, None, stack)
    <2>1. m0 = [m1 EXCEPT !.FrameList[IndexOf(m.FrameList, f)] = w]
      BY <1>1 DEF Fields
    <2>2. m3 = [m2 EXCEPT !.FrameToBack[m2.ActivatedFrame] = m.CurrentFrame]
      OBVIOUS
    <2>3. m.ExecutedFrame = None /\ InList(m, f)
      BY <1>3 DEF Opens, InList
    <2> QED
      BY <2>1, <2>2, <2>3 DEF UpdateCommit
  <1> HIDE DEF list
  <1>9. m0 \in Fields
    BY <1>1, <1>7, FieldTypes DEF Fields
  <1>10. /\ m0.FrameList = list /\ m0.ModalStack = <<>>
         /\ m0.FramePos = m.FramePos /\ m0.CurrentFrame = m.CurrentFrame
         /\ m0.ActivatedFrame = None /\ NothingAsked(m0)
         /\ m0.DeactivatedFrame = None /\ m0.FrameToBack = m.FrameToBack
    BY <1>1, <1>2, <1>7 DEF Fields, NothingAsked, Opens, NoSwitch
  <1> HIDE DEF m0
  <1>11. /\ m2 \in Fields /\ m2.FrameList = list /\ m2.ModalStack = <<>>
         /\ m2.FramePos = m.FramePos /\ m2.CurrentFrame = m.CurrentFrame
         /\ m2.ActivatedFrame = w /\ NothingAsked(m2)
         /\ m2.DeactivatedFrame = None /\ m2.FrameToBack = m.FrameToBack
    <2>1. /\ SameLists(m0, m2) /\ SameAsked(m0, m2)
          /\ m2.FramePos = m0.FramePos /\ m2.FrameToBack = m0.FrameToBack
          /\ m2.CurrentFrame = m0.CurrentFrame
          /\ m2.DeactivatedFrame = m0.DeactivatedFrame
          /\ m0.ActivatedFrame = None /\ w # None /\ InList(m0, w) =>
                m2.ActivatedFrame = w
      BY <1>9, ActivateFrameIs
    <2>2. InList(m0, w)
      BY <1>7, <1>10 DEF InList
    <2>3. m2 \in Fields
      BY <1>4, <1>9, FieldTypes DEF ActivateFrame, Fields
    <2> HIDE DEF m2
    <2> QED
      BY <1>4, <1>10, <2>1, <2>2, <2>3 DEF SameLists, SameAsked, NothingAsked
  <1> HIDE DEF m2
  <1>12. /\ m3 \in Fields /\ m3.FrameList = list /\ m3.ModalStack = <<>>
         /\ m3.FramePos = m.FramePos /\ m3.CurrentFrame = m.CurrentFrame
         /\ m3.ActivatedFrame = w /\ NothingAsked(m3)
         /\ m3.DeactivatedFrame = None
         /\ m3.FrameToBack = [m.FrameToBack EXCEPT ![w] = m.CurrentFrame]
    BY <1>2, <1>4, <1>11, FieldTypes DEF Fields, NothingAsked
  <1> HIDE DEF m3
  <1>13. Sound(m3) /\ ~InList(m3, f)
    <2>1. InSeq(<<>>) = {} /\ Distinct(<<>>)
      BY DEF InSeq, Distinct
    <2>2. f # w
      BY <1>3, <1>5
    <2> QED
      BY <1>2, <1>7, <1>12, <2>1, <2>2 DEF Sound, InList
  <1>14. /\ m' = [r EXCEPT !.CurrentFrame = IF @ = f THEN None ELSE @]
         /\ calls' = Append(stack, DestroyCall(f, FALSE, None))
    <2>1. InList(m3, f) = FALSE
      BY <1>13 DEF InList
    <2> QED
      BY <1>3, <1>8, <2>1 DEF DeleteCommit, DynamicallyBorn, DestroyCall
  <1>15. /\ r \in Fields /\ r.FrameList = list /\ r.ModalStack = <<>>
         /\ NothingAsked(r) /\ r.DeactivatedFrame = None
         /\ r.CurrentFrame = m.CurrentFrame /\ r.ActivatedFrame = w
         /\ r.FrameToBack = Backs(m3, f)
    <2>1. /\ r.FrameList = Without(m3.FrameList, f) /\ r.ModalStack = m3.ModalStack
          /\ r.InsertedFrame = m3.InsertedFrame /\ r.DeletedFrame = None
          /\ r.ExecutedFrame = m3.ExecutedFrame
          /\ r.DeactivatedFrame = m3.DeactivatedFrame
          /\ r.CurrentFrame = m3.CurrentFrame
          /\ r.FrameToBack = Backs(m3, f)
          /\ ~InList(m3, f) => r.ActivatedFrame = m3.ActivatedFrame
      BY <1>3, <1>13, UnlinkIs
    <2>2. Without(m3.FrameList, f) = m3.FrameList
      BY <1>13 DEF Without, InList
    <2>3. r \in Fields
      BY <1>13, UnlinkKeeps DEF Keeps, Sound
    <2> HIDE DEF r
    <2> QED
      BY <1>12, <1>13, <2>1, <2>2, <2>3 DEF NothingAsked
  <1> HIDE DEF r
  <1>16. /\ m'.FrameList = list /\ m'.ModalStack = <<>>
         /\ NothingAsked(m') /\ m'.DeactivatedFrame = None
         /\ m'.CurrentFrame = IF m.CurrentFrame = f THEN None ELSE m.CurrentFrame
         /\ m'.ActivatedFrame = w /\ m'.FrameToBack = Backs(m3, f)
    BY <1>14, <1>15 DEF Fields, NothingAsked
  <1>17. BackIsListed'
    <2>1. ASSUME NEW g \in InSeq(m3.FrameList) \ {f}
          PROVE  \/ InList(m3, m3.FrameToBack[g])
                 \/ m3.FrameToBack[g] = f
                 \/ g = Panels /\ m3.FrameToBack[g] = None
      <3>1. g \in Frames
        BY <1>7, <1>12, SeqFacts
      <3>2. CASE g = w
        <4>1. m3.FrameToBack[g] = m.CurrentFrame
          BY <1>2, <1>12, <3>1, <3>2
        <4> QED
          BY <1>6, <1>7, <1>12, <4>1 DEF InList
      <3>3. CASE g # w
        <4>1. m3.FrameToBack[g] = m.FrameToBack[g] /\ g \in InSeq(m.FrameList)
          BY <1>2, <1>7, <1>12, <3>1, <3>3
        <4>2. InList(m, m.FrameToBack[g]) \/ (g = Panels /\ m.FrameToBack[g] = None)
          BY <1>1, <4>1 DEF BackIsListed
        <4> QED
          BY <1>7, <1>12, <4>1, <4>2 DEF InList
      <3> QED
        BY <3>2, <3>3
    <2>2. Panels \in InSeq(m3.FrameList)
      BY <1>3, <1>7, <1>12
    <2>3. \A g \in InSeq(m3.FrameList) \ {f} :
            \/ Backs(m3, f)[g] \in InSeq(m3.FrameList) \ {f}
            \/ g = Panels /\ Backs(m3, f)[g] = None
      <3> HIDE DEF f
      <3> QED
        BY <1>3, <1>12, <2>1, <2>2, BacksAre
    <2>4. f \notin InSeq(m3.FrameList)
      BY <1>13 DEF InList
    <2> QED
      BY <1>12, <1>16, <2>3, <2>4 DEF BackIsListed, InList
  <1> QED
    BY <1>3, <1>4, <1>7, <1>14, <1>16, <1>17 DEF InList, Replaced

LEMMA ReplaceD ==
  ASSUME IInv, DInv, IInv', Top.at = "commit", Opens(m), m.DeletedFrame # None,
         UpdateCommit(m.DeletedFrame, m.InsertedFrame, m.ExecutedFrame,
                      IF Top.count = 1 THEN Rest ELSE calls),
         kind' = kind, closing' = closing
  PROVE  DInv'
  <1> DEFINE f == m.DeletedFrame
             w == m.InsertedFrame
             stack == IF Top.count = 1 THEN Rest ELSE calls
  <1>1. /\ f \in Frames /\ f # Panels /\ InList(m, f) /\ kind[f] = "window"
        /\ w \in Frames /\ w \notin Known(m)
        /\ calls' = Append(stack, DestroyCall(f, FALSE, None))
        /\ InSeq(m'.FrameList) = (InSeq(m.FrameList) \ {f}) \cup {w}
        /\ m'.FrameList # <<>> /\ m'.FrameList[1] = Panels
        /\ m'.ModalStack = <<>>
        /\ NothingAsked(m') /\ m'.DeactivatedFrame = None
        /\ m'.ActivatedFrame = w
        /\ m'.CurrentFrame = IF m.CurrentFrame = f THEN None ELSE m.CurrentFrame
        /\ BackIsListed'
    <2>1. Replaced(f, w, stack)
      BY ReplacedIn
    <2> QED
      BY <2>1 DEF Replaced
  <1>2. /\ m.ModalStack = <<>> /\ Modals(calls) = {} /\ LevelsAre(calls, Len(m.ModalStack))
    <2>1. ~Settled(m) /\ ~Executes(m) /\ m.ModalStack = <<>>
      BY DEF Opens, Settled, Executes, NothingAsked
    <2> QED
      BY <2>1, Depths
  <1>3. m.CurrentFrame \in InSeq(m.FrameList)
    BY Grounds, OnMain, HomeIs DEF Opens
  <1>4. Called(f, FALSE, None)
    <2>1. stack = IF Top.count = 1 THEN Rest ELSE calls
      OBVIOUS
    <2>2. None \in FrameOrNone
      BY DEF FrameOrNone
    <2> HIDE DEF stack, f
    <2> QED
      BY <1>1, <2>1, <2>2, DestroyCalled
  <1> HIDE DEF stack
  <1>5. SameLoops(calls, calls') /\ UnderDeletion' = {f} /\ Thens' = {} /\ Top'.then = None
    BY <1>4 DEF Called
  <1>6. f # w /\ w # m.CurrentFrame /\ w # None
    BY <1>1, <1>3, FramesAssumption DEF Known, InList
  <1>7. FramesInv'
    <2>1. \A g \in Frames : kind[g] = "window" /\ (InList(m, g) \/ g = m.InsertedFrame) =>
             InList(m', g) \/ g \in UnderDeletion'
      BY <1>1, <1>5 DEF InList
    <2>2. InSeq(m'.ModalStack) = InSeq(m.ModalStack)
      BY <1>1, <1>2
    <2>3. m'.InsertedFrame = None /\ m'.ExecutedFrame = None
      BY <1>1 DEF NothingAsked
    <2>4. InSeq(m'.FrameList) \subseteq InSeq(m.FrameList) \cup ({w} \ {None})
      BY <1>1, <1>6
    <2> QED
      BY <1>1, <1>5, <2>1, <2>2, <2>3, <2>4, PassFrames
  <1>8. /\ ModalFrames' /\ Callers'
        /\ \A n : LevelsAre(calls, n) => LevelsAre(calls', n)
    BY <1>1, <1>2, <1>5, LoopsStay
  <1>9. WindowDies'
    <2>1. Switches(m')
      BY <1>1, <1>3, <1>6 DEF Switches, InList
    <2> QED
      BY <1>1, <1>5, <1>6, <2>1 DEF WindowDies
  <1>10. ~InList(m', f) /\ LevelsAre(calls', Len(m'.ModalStack))
         /\ kind'[f] \in {"panels", "window", "editor"}
    BY <1>1, <1>2, <1>6, <1>8 DEF InList
  <1> QED
    BY <1>4, <1>7, <1>8, <1>9, <1>10, DestroyDone

LEMMA DeleteD ==
  ASSUME IInv, DInv, IInv', Top.at = "commit",
         CommitDelete(IF Top.count = 1 THEN Rest ELSE calls),
         kind' = kind, closing' = closing
  PROVE  DInv'
  <1> DEFINE stack == IF Top.count = 1 THEN Rest ELSE calls
  <1>1. /\ m.DeletedFrame # None
        /\ Requested =>
             UpdateCommit(m.DeletedFrame, m.InsertedFrame, m.ExecutedFrame, stack)
        /\ ~Requested => DeleteCommit(m, m.DeletedFrame, None, stack)
    BY DEF CommitDelete
  <1> HIDE DEF stack
  <1>2. Opens(m) \/ Closes(m)
    BY <1>1, CommitPlan
       DEF Plans, Settled, Switches, Starts, Executes, NothingAsked
  <1>3. CASE Opens(m)
    BY <1>1, <1>3, ReplaceD DEF Requested, Opens, stack
  <1>4. CASE Closes(m)
    <2>1. PICK mm : Taken(mm) /\ DeleteCommit(mm, m.DeletedFrame, m.ExecutedFrame, stack)
      <3>1. Sound(m) /\ m \in Fields
        BY Grounds
      <3>2. CASE m.ExecutedFrame = None
        <4>1. ~Requested
          BY <1>4, <3>2 DEF Requested, Closes
        <4>2. Taken(m)
          BY <1>4, <3>1, <3>2 DEF Taken, SameLists, Closes
        <4> QED
          BY <1>1, <3>2, <4>1, <4>2
      <3>3. CASE m.ExecutedFrame # None
        <4> DEFINE m1 == [m EXCEPT !.DeletedFrame = None, !.InsertedFrame = None,
                                   !.ExecutedFrame = None]
        <4>1. DeleteCommit(m1, m.DeletedFrame, m.ExecutedFrame, stack)
          BY <1>1, <3>3 DEF Requested, UpdateCommit
        <4>2. m1 \in Fields
          BY <3>1, FieldTypes DEF Fields
        <4>3. /\ m1.FrameList = m.FrameList /\ m1.ModalStack = m.ModalStack
              /\ m1.FramePos = m.FramePos /\ m1.CurrentFrame = m.CurrentFrame
              /\ m1.ActivatedFrame = m.ActivatedFrame /\ m1.DeletedFrame = None
              /\ m1.InsertedFrame = None /\ m1.ExecutedFrame = None
              /\ m1.DeactivatedFrame = m.DeactivatedFrame
              /\ m1.FrameToBack = m.FrameToBack
          BY <3>1 DEF Fields
        <4> HIDE DEF m1
        <4>4. Sound(m1)
          BY <3>1, <4>2, <4>3 DEF Sound
        <4>5. Taken(m1)
          BY <1>4, <4>3, <4>4 DEF Taken, SameLists, Closes, NoSwitch
        <4> QED
          BY <4>1, <4>5
      <3> QED
        BY <3>2, <3>3
    <2>2. kind[m.DeletedFrame] \in {"window", "editor"} \cup {"dialog", "viewer"}
      <3>1. m.ModalStack = <<>> \/ m.ModalStack # <<>>
        OBVIOUS
      <3> QED
        BY <1>4, <3>1, ClosesIs DEF ModalKinds
    <2>3. CASE kind[m.DeletedFrame] \in {"window", "editor"}
      BY <1>4, <2>1, <2>3, BornClosedD DEF stack
    <2>4. CASE kind[m.DeletedFrame] \in {"dialog", "viewer"}
      BY <1>4, <2>1, <2>4, ModalClosedD DEF stack
    <2> QED
      BY <2>2, <2>3, <2>4
  <1> QED
    BY <1>2, <1>3, <1>4

LEMMA CommitD ==
  ASSUME IInv, DInv, IInv', Commit
  PROVE  DInv'
  <1> DEFINE stack == IF Top.count = 1 THEN Rest ELSE calls
  <1>1. /\ Top.at = "commit" /\ kind' = kind /\ closing' = closing
        /\ \/ CommitDelete(stack) \/ CommitExecute(stack) \/ CommitInsert(stack)
           \/ CommitActivate(stack) \/ CommitRefresh(stack)
           \/ Slots = {None} /\ calls' = Rest /\ UNCHANGED <<m, shown>>
    BY DEF Commit
  <1> HIDE DEF stack
  <1>2. CASE CommitDelete(stack)
    BY <1>1, <1>2, DeleteD DEF stack
  <1>3. CASE CommitExecute(stack)
    BY <1>1, <1>3, ExecuteD DEF stack
  <1>4. CASE CommitInsert(stack)
    BY <1>1, <1>4, InsertD DEF stack
  <1>5. CASE CommitActivate(stack)
    <2>1. /\ m.DeletedFrame = None /\ ~Requested /\ calls' = stack /\ shown' = shown
          /\ \/ /\ m.ActivatedFrame # None
                /\ m' = ActivateCommit(IF m.DeactivatedFrame = None THEN m
                        ELSE DeactivateCommit(m, m.DeactivatedFrame, m.ActivatedFrame),
                        m.ActivatedFrame)
             \/ /\ m.ActivatedFrame = None /\ m.DeactivatedFrame # None
                /\ m' = [m EXCEPT !.DeactivatedFrame = None]
      BY <1>5 DEF CommitActivate
    <2> QED
      BY <1>1, <2>1, ActivateD, DeactivateD DEF stack
  <1>6. CASE CommitRefresh(stack)
    BY <1>1, <1>6, RefreshD DEF stack
  <1>7. CASE Slots = {None} /\ calls' = Rest /\ UNCHANGED <<m, shown>>
    BY <1>1, <1>7, LastPassD
  <1> QED
    BY <1>1, <1>2, <1>3, <1>4, <1>5, <1>6, <1>7

-----------------------------------------------------------------------------
(* The loops: nothing but the call stack changes.                           *)
LEMMA QuietD ==
  ASSUME IInv, DInv, IInv', UNCHANGED <<m, kind, closing>>,
         Shape(calls'), Nested(calls'), SameLoops(calls, calls'),
         calls[1].at = "main", calls'[1].at = "main",
         Top.at # "destroy", Top'.at # "destroy",
         Top'.at = "handler" /\ Top'.ops = 0 =>
            LevelsAre(calls, Len(m.ModalStack)),
         PlanFits'
  PROVE  DInv'
  <1>1. /\ CallsTyped /\ CallsTyped' /\ Shape(calls) /\ LoopsFit
        /\ Places /\ BackIsListed /\ ClosingLeaves
    BY Grounds, InvGives DEF CallsTyped, IInv, TypeOK
  <1>2. UnderDeletion = {} /\ Thens = {} /\ UnderDeletion' = {} /\ Thens' = {}
    BY <1>1, UnderIs, UnderIsNext
  <1>3. Places'
    BY <1>1, <1>2 DEF Places, InList
  <1>4. BackIsListed'
    BY <1>1 DEF BackIsListed, InList
  <1>5. ClosingLeaves'
    <2>1. Pending' = Pending
      BY <1>2 DEF Pending, ToStack
    <2> QED
      BY <1>1, <1>2, <2>1 DEF ClosingLeaves, InList, InStack
  <1>6. /\ ModalFrames' /\ Callers'
        /\ \A n : LevelsAre(calls, n) => LevelsAre(calls', n)
    <2>1. m'.ModalStack = m.ModalStack /\ Below(m', 0) = Below(m, 0)
          /\ m'.ExecutedFrame = m.ExecutedFrame
      OBVIOUS
    <2> QED
      BY <2>1, LoopsStay
  <1>7. LoopsFit'
    <2>1. Executes(m)' <=> Executes(m)
      BY DEF Executes, NoSwitch, AtHome, Below
    <2>2. Settled(m)' <=> Settled(m)
      BY DEF Settled, NothingAsked, NoSwitch, AtHome, Below
    <2>3. m'.ModalStack = m.ModalStack
      OBVIOUS
    <2>4. CASE Executes(m)
      BY <1>1, <1>6, <2>1, <2>3, <2>4 DEF LoopsFit
    <2>5. CASE ~Executes(m) /\ LevelsAre(calls, Len(m.ModalStack))
      BY <1>1, <1>6, <2>1, <2>3, <2>5 DEF LoopsFit
    <2>6. CASE ~Executes(m) /\ ~LevelsAre(calls, Len(m.ModalStack))
      BY <1>1, <1>6, <2>1, <2>2, <2>3, <2>6 DEF LoopsFit
    <2> QED
      BY <2>4, <2>5, <2>6
  <1> QED
    BY <1>3, <1>4, <1>5, <1>6, <1>7 DEF DInv, FramesInv, LoopsInv

(* The one call left at the exit.                                           *)
LEMMA EndD ==
  ASSUME IInv, DInv, IInv', UNCHANGED <<m, kind, closing, endLoop>>,
         Top.at # "destroy", Ends,
         NEW at \in {"closeall", "exited"}, calls' = <<[at |-> at]>>
  PROVE  DInv'
  <1>1. /\ CallsTyped /\ CallsTyped' /\ Shape(calls)
        /\ Places /\ BackIsListed /\ ClosingLeaves
    BY Grounds, InvGives DEF CallsTyped, IInv, TypeOK
  <1>2. /\ Len(calls') = 1 /\ DOMAIN calls' = {1} /\ calls'[1].at = at
        /\ Top'.at = at
    BY DEF Top
  <1>3. Shape(calls') /\ Nested(calls') /\ Modals(calls') = {}
    BY <1>2 DEF Shape, Nested, Modals
  <1>4. UnderDeletion = {} /\ Thens = {} /\ UnderDeletion' = {} /\ Thens' = {}
    BY <1>1, <1>2, <1>3, UnderIs, UnderIsNext
  <1>5. Places'
    BY <1>1, <1>2, <1>4 DEF Places, InList
  <1>6. BackIsListed'
    BY <1>1 DEF BackIsListed, InList
  <1>7. ClosingLeaves'
    <2>1. Pending' = Pending
      BY <1>4 DEF Pending, ToStack
    <2> QED
      BY <1>1, <1>4, <2>1 DEF ClosingLeaves, InList, InStack
  <1>8. ModalFrames' /\ Callers'
    BY <1>3 DEF ModalFrames, Callers
  <1>9. LoopsFit'
    <2>1. ~Executes(m)' /\ Len(m'.ModalStack) = 0
      BY DEF Executes, Ends, NothingAsked
    <2>2. {calls'[k].level : k \in Modals(calls')} = {} /\ 0 .. 0 - 1 = {}
      BY <1>3
    <2> QED
      BY <2>1, <2>2 DEF LoopsFit, LevelsAre
  <1>10. PlanFits'
    <2>1. Ends'
      BY DEF Ends, NothingAsked, InList
    <2> QED
      BY <1>2, <2>1 DEF PlanFits, IsLoop
  <1> QED
    BY <1>3, <1>5, <1>6, <1>7, <1>8, <1>9, <1>10 DEF DInv, FramesInv, LoopsInv

(* The topmost loop knows how deep the stack is.                            *)
LEMMA TopLoop ==
  ASSUME IInv, DInv, IsLoop(Top)
  PROVE  LET n == Len(m.ModalStack)
         IN  /\ ~Executes(m)
             /\ Top.at # "modal" => /\ Modals(calls) = {} /\ m.ModalStack = <<>>
                                    /\ LevelsAre(calls, n)
             /\ Top.at = "modal" =>
                  /\ Len(calls) \in Modals(calls)
                  /\ \A k \in Modals(calls) :
                        k # Len(calls) => k < Len(calls) /\ calls[k].level < Top.level
                  /\ LoopGoesOn(Top) => LevelsAre(calls, n)
                  /\ ~LoopGoesOn(Top) => /\ Top.level = n /\ Settled(m)
                                         /\ LevelsAre(calls, n + 1)
  <1> DEFINE n == Len(m.ModalStack)
             a == Len(calls)
  <1>1. /\ CallsTyped /\ calls \in Seq(CallTypes) /\ calls # <<>>
        /\ a \in Nat /\ a > 0 /\ DOMAIN calls = 1 .. a /\ Top = calls[a]
        /\ Shape(calls) /\ Nested(calls) /\ LoopsFit /\ PlanFits /\ Top \in CallTypes
    BY Grounds, TopIs DEF CallsTyped
  <1>2. n \in Nat /\ (n = 0 => m.ModalStack = <<>>)
    <2>1. m.ModalStack \in Seq(Frames)
      BY Grounds, FieldTypes
    <2> QED
      BY <2>1, SeqFacts
  <1>3. Plans(m) /\ ~Executes(m)
    <2>1. Top.at \in {"main", "modal", "nonmodal"}
      BY DEF IsLoop
    <2>2. Top.phase = "run" \/ Top.phase = "commit"
      BY <1>1, <2>1, CallKinds DEF Phases
    <2>3. Plans(m)
      BY <1>1, <2>2 DEF PlanFits, Plans
    <2>4. ~Executes(m)
      BY <2>3 DEF Plans, Executes, Settled, Opens, Closes, Switches, Starts, NothingAsked
    <2> QED
      BY <2>3, <2>4
  <1>4. LevelsAre(calls, n) \/ (LevelsAre(calls, n + 1) /\ Settled(m))
    BY <1>1, <1>3 DEF LoopsFit
  <1> HIDE DEF n, a
  <1>5. ASSUME Top.at # "modal" PROVE Modals(calls) = {}
    <2>1. CASE Top.at = "main"
      <3>1. a = 1
        BY <1>1, <2>1, BottomOf DEF a
      <3>2. DOMAIN calls = {1}
        BY <1>1, <3>1
      <3> QED
        BY <1>1, <2>1, <3>1, <3>2 DEF Modals
    <2>2. CASE Top.at = "nonmodal"
      <3>1. a \in DOMAIN calls /\ \A k \in DOMAIN calls : ~(a < k)
        BY <1>1
      <3>2. \A k \in Modals(calls) : a < k /\ k \in DOMAIN calls
        BY <1>1, <2>2, <3>1 DEF Nested, Modals
      <3> QED
        BY <3>1, <3>2
    <2> QED
      BY <1>5, <2>1, <2>2 DEF IsLoop
  <1>6. ASSUME Top.at # "modal" PROVE LevelsAre(calls, n) /\ m.ModalStack = <<>>
    <2>1. {calls[k].level : k \in Modals(calls)} = {}
      BY <1>5, <1>6
    <2>2. 0 .. n - 1 = {} \/ 0 .. (n + 1) - 1 = {}
      BY <1>4, <2>1 DEF LevelsAre
    <2>3. 0 \in 0 .. (n + 1) - 1
      BY <1>2
    <2>4. n = 0
      <3>1. n # 0 => 0 \in 0 .. n - 1
        BY <1>2
      <3> QED
        BY <2>2, <2>3, <3>1
    <2>5. 0 .. n - 1 = {}
      BY <2>2, <2>3
    <2> QED
      BY <1>2, <2>1, <2>4, <2>5 DEF LevelsAre
  <1>7. ASSUME Top.at = "modal"
        PROVE  /\ a \in Modals(calls) /\ Top.level \in Nat
               /\ \A k \in Modals(calls) :
                     /\ calls[k].level \in Nat
                     /\ k # a => k < a /\ calls[k].level < Top.level
    <2>1. a \in Modals(calls)
      BY <1>1, <1>7 DEF Modals
    <2>2. Top.level \in Nat
      BY <1>1, <1>7, CallKinds
    <2>3. ASSUME NEW k \in Modals(calls), k # a
          PROVE  k < a /\ calls[k].level < Top.level
      <3>1. k \in 1 .. a
        BY <1>1 DEF Modals
      <3>2. k < a
        BY <1>1, <2>3, <3>1
      <3> QED
        BY <1>1, <2>1, <3>2 DEF Nested
    <2>4. ASSUME NEW k \in Modals(calls) PROVE calls[k].level \in Nat
      BY <1>1, ModalIs DEF CallsTyped, MainIsAtTheBottom
    <2> QED
      BY <2>1, <2>2, <2>3, <2>4
  <1>8. ASSUME Top.at = "modal", NEW j \in Nat, LevelsAre(calls, j)
        PROVE  j > 0 /\ Top.level = j - 1
    <2>1. Top.level \in {calls[k].level : k \in Modals(calls)}
      BY <1>1, <1>7, <1>8
    <2>2. Top.level \in 0 .. j - 1
      BY <1>8, <2>1 DEF LevelsAre
    <2>3. j > 0 /\ j - 1 \in 0 .. j - 1
      BY <1>8, <2>2
    <2>4. j - 1 \in {calls[k].level : k \in Modals(calls)}
      BY <1>8, <2>3 DEF LevelsAre
    <2>5. PICK k \in Modals(calls) : calls[k].level = j - 1
      BY <2>4
    <2>6. k = a \/ j - 1 < Top.level
      BY <1>7, <1>8, <2>5
    <2>7. ~(j - 1 < Top.level)
      BY <1>8, <2>2
    <2> QED
      BY <1>1, <2>3, <2>5, <2>6, <2>7
  <1>9. ASSUME Top.at = "modal", LoopGoesOn(Top) PROVE LevelsAre(calls, n)
    <2>1. n > Top.level
      BY <1>9 DEF LoopGoesOn, n
    <2>2. SUFFICES ASSUME LevelsAre(calls, n + 1) PROVE FALSE
      BY <1>4
    <2>3. n + 1 \in Nat
      BY <1>2
    <2>4. Top.level = (n + 1) - 1
      BY <1>8, <1>9, <2>2, <2>3
    <2> QED
      BY <1>2, <2>1, <2>4
  <1>10. ASSUME Top.at = "modal", ~LoopGoesOn(Top)
         PROVE  Top.level = n /\ Settled(m) /\ LevelsAre(calls, n + 1)
    <2>1. ~(n > Top.level)
      BY <1>10 DEF LoopGoesOn, n
    <2>2. ~LevelsAre(calls, n)
      <3>1. SUFFICES ASSUME LevelsAre(calls, n) PROVE FALSE
        OBVIOUS
      <3>2. Top.level = n - 1
        BY <1>2, <1>8, <1>10, <3>1
      <3> QED
        BY <1>2, <2>1, <3>2
    <2>3. n + 1 \in Nat
      BY <1>2
    <2>4. Top.level = (n + 1) - 1
      BY <1>4, <1>8, <1>10, <2>2, <2>3
    <2> QED
      BY <1>2, <1>4, <2>2, <2>4
  <1> QED
    BY <1>3, <1>5, <1>6, <1>7, <1>9, <1>10 DEF n, a

(* What is asked depends on the manager's fields alone.                     *)
LEMMA SamePlans ==
  ASSUME UNCHANGED <<m, endLoop, shown>>
  PROVE  /\ Plans(m)' <=> Plans(m)
         /\ Settled(m)' <=> Settled(m)
         /\ Executes(m)' <=> Executes(m)
         /\ Ends' <=> Ends
         /\ Drawn' <=> Drawn
  <1>1. m' = m
    OBVIOUS
  <1>2. Settled(m)' <=> Settled(m)
    BY <1>1
  <1>3. Executes(m)' <=> Executes(m)
    BY <1>1
  <1>4. Plans(m)' <=> Plans(m)
    BY <1>1
  <1>5. Ends' <=> Ends
    BY DEF Ends, NothingAsked, InList
  <1>6. Drawn' <=> Drawn
    BY DEF Drawn
  <1> QED
    BY <1>2, <1>3, <1>4, <1>5, <1>6

LEMMA LoopCommitD ==
  ASSUME IInv, DInv, IInv', LoopCommit
  PROVE  DInv'
  <1> DEFINE c == [Top EXCEPT !.phase = "run"]
             more == <<CommitCall(0)>>
  <1>0. /\ CallsTyped /\ Top \in CallTypes /\ Rest \in Seq(CallTypes)
        /\ Shape(calls) /\ Nested(calls) /\ PlanFits
        /\ Len(calls) > 1 => Follows(calls[Len(calls) - 1], Top)
    <2>1. /\ CallsTyped /\ Shape(calls) /\ Nested(calls) /\ PlanFits
      BY Grounds
    <2>2. /\ Len(calls) \in DOMAIN calls /\ Top = calls[Len(calls)]
          /\ Top \in CallTypes /\ Rest \in Seq(CallTypes)
      BY <2>1, TopIs
    <2> QED
      BY <2>1, <2>2 DEF Shape
  <1>1. /\ Top.at \in {"main", "modal", "nonmodal"} /\ Top.phase = "commit"
        /\ UNCHANGED <<m, kind, endLoop, shown, closing>>
    BY DEF LoopCommit, IsLoop
  <1>2. c \in CallTypes /\ c.at = Top.at /\ Alike(Top, c) /\ c.phase = "run"
    BY <1>0, <1>1, CallKinds DEF CallTypes, Phases, Alike
  <1>3. /\ more \in Seq(CallTypes) /\ Len(more) = 1 /\ more[1] = CommitCall(0)
        /\ CommitCall(0).at = "commit" /\ CommitCall(0).count = 0
    BY CommitCallIs DEF CommitCall
  <1>4. calls' = Rest \o <<c>> \o more
    <2>1. calls' = Rest \o <<c, CommitCall(0)>>
      BY DEF LoopCommit
    <2>2. <<c, CommitCall(0)>> = <<c>> \o more
      OBVIOUS
    <2>3. Rest \o (<<c>> \o more) = (Rest \o <<c>>) \o more
      <3>1. Rest \in Seq(CallTypes) /\ <<c>> \in Seq(CallTypes)
        BY <1>0, <1>2
      <3> HIDE DEF Rest, c, more
      <3> QED
        BY <1>3, <3>1
    <2> QED
      BY <2>1, <2>2, <2>3
  <1>5. calls[1].at = "main"
    BY <1>1, OnMain
  <1> HIDE DEF c, more
  <1>6. Len(calls) > 1 => Follows(calls[Len(calls) - 1], c)
    <2>1. ASSUME Len(calls) > 1 PROVE Follows(calls[Len(calls) - 1], c)
      BY <1>0, <1>1, <1>2, <2>1 DEF Follows
    <2> QED
      BY <2>1
  <1>7. Follows(c, more[1])
    BY <1>1, <1>2, <1>3 DEF Follows, IsLoop
  <1>8. \A i \in 1 .. Len(more) : more[i].at = "commit"
    BY <1>3
  <1>9. /\ CallsTyped' /\ Shape(calls') /\ calls'[1].at = "main"
        /\ Top' = CommitCall(0) /\ SameLoops(calls, calls') /\ Nested(calls')
    <2>1. Len(more) <= 2 /\ Len(more) # 2 /\ Len(more) # 0
      BY <1>3
    <2>2. \A i \in 1 .. Len(more) : more[i].at # "modal" /\ more[i].at # "nonmodal"
      BY <1>8
    <2> QED
      BY <1>0, <1>2, <1>3, <1>4, <1>5, <1>6, <1>7, <2>1, <2>2, GoShape
  <1>10. PlanFits'
    <2>1. Plans(m) /\ (m.ActivatedFrame = None => Drawn)
      BY <1>0, <1>1 DEF PlanFits, IsLoop
    <2>2. Plans(m)' /\ (m'.ActivatedFrame = None => Drawn')
      BY <1>1, <2>1, SamePlans
    <2> QED
      BY <1>3, <1>9, <2>2 DEF PlanFits, IsLoop
  <1> QED
    BY <1>1, <1>3, <1>5, <1>9, <1>10, QuietD

LEMMA ProcessMainLoopD ==
  ASSUME IInv, DInv, IInv', ProcessMainLoop
  PROVE  DInv'
  <1> DEFINE c == [Top EXCEPT !.phase = "commit"]
             handler == [at |-> "handler", frame |-> m.CurrentFrame, ops |-> 0,
                         began |-> FALSE]
             more == <<handler>>
  <1>0. /\ CallsTyped /\ Top \in CallTypes /\ Sound(m)
        /\ Shape(calls) /\ Nested(calls) /\ PlanFits
        /\ Len(calls) > 1 => Follows(calls[Len(calls) - 1], Top)
    <2>1. /\ CallsTyped /\ Shape(calls) /\ Nested(calls) /\ PlanFits /\ Sound(m)
      BY Grounds
    <2>2. /\ Len(calls) \in DOMAIN calls /\ Top = calls[Len(calls)]
          /\ Top \in CallTypes
      BY <2>1, TopIs
    <2> QED
      BY <2>1, <2>2 DEF Shape
  <1>1. /\ Top.at \in {"main", "modal", "nonmodal"} /\ Top.phase = "run" /\ IsLoop(Top)
        /\ LoopGoesOn(Top) /\ UNCHANGED <<m, kind, endLoop, shown, closing>>
    BY DEF ProcessMainLoop, IsLoop
  <1>2. c \in CallTypes /\ c.at = Top.at /\ Alike(Top, c) /\ c.phase = "commit"
    BY <1>0, <1>1, CallKinds DEF CallTypes, Phases, Alike
  <1>3. Settled(m) /\ m.RefreshedFrame = None /\ Drawn
    <2>1. Settled(m) /\ m.RefreshedFrame = None
      BY <1>0, <1>1 DEF PlanFits
    <2>2. m.ActivatedFrame = None
      BY <2>1 DEF Settled, NoSwitch
    <2> QED
      BY <1>0, <1>1, <2>1, <2>2 DEF PlanFits
  <1>4. calls[1].at = "main" /\ m.FrameList # <<>>
    BY <1>1, OnMain
  <1>5. m.CurrentFrame # None /\ m.CurrentFrame \in Frames
    BY <1>0, <1>3, <1>4, HomeIs DEF Settled
  <1>6. /\ more \in Seq(CallTypes) /\ Len(more) = 1 /\ more[1] = handler
        /\ handler.at = "handler" /\ handler.ops = 0 /\ handler.frame = m.CurrentFrame
    <2>1. handler \in CallTypes
      BY <1>5 DEF CallTypes
    <2> QED
      BY <2>1
  <1>7. calls' = Rest \o <<c>> \o more
    BY <1>5 DEF ProcessMainLoop
  <1> HIDE DEF c, more, handler
  <1>8. Len(calls) > 1 => Follows(calls[Len(calls) - 1], c)
    <2>1. ASSUME Len(calls) > 1 PROVE Follows(calls[Len(calls) - 1], c)
      BY <1>0, <1>1, <1>2, <2>1 DEF Follows
    <2> QED
      BY <2>1
  <1>9. Follows(c, more[1])
    BY <1>1, <1>2, <1>6 DEF Follows, IsLoop
  <1>10. /\ CallsTyped' /\ Shape(calls') /\ calls'[1].at = "main"
         /\ Top' = handler /\ SameLoops(calls, calls') /\ Nested(calls')
    <2>1. Len(more) <= 2 /\ Len(more) # 2 /\ Len(more) # 0
      BY <1>6
    <2>2. \A i \in 1 .. Len(more) : more[i].at # "modal" /\ more[i].at # "nonmodal"
      BY <1>6
    <2> QED
      BY <1>0, <1>2, <1>4, <1>6, <1>7, <1>8, <1>9, <2>1, <2>2, GoShape
  <1>11. PlanFits'
    <2>1. Settled(m)' /\ Drawn' /\ m' = m
      BY <1>1, <1>3, SamePlans
    <2> QED
      BY <1>3, <1>6, <1>10, <2>1 DEF PlanFits, IsLoop
  <1>12. LevelsAre(calls, Len(m.ModalStack))
    BY <1>1, TopLoop
  <1>13. Top.at # "destroy" /\ Top'.at # "destroy"
    BY <1>1, <1>6, <1>10
  <1> QED
    BY <1>1, <1>4, <1>10, <1>11, <1>12, <1>13, QuietD

(* A handler returns, or a loop that has no frame of its own to give up.    *)
LEMMA ReturnsD ==
  ASSUME IInv, DInv, IInv', UNCHANGED <<m, kind, closing, endLoop, shown>>,
         Top.at \in {"handler", "nonmodal"}, Plans(m),
         m.ActivatedFrame = None => Drawn, calls' = Rest
  PROVE  DInv'
  <1>1. CallsTyped /\ Shape(calls) /\ Nested(calls)
    BY Grounds
  <1>2. calls[1].at = "main"
    BY OnMain
  <1>3. /\ Len(calls) > 1 /\ CallsTyped' /\ Shape(calls') /\ calls'[1] = calls[1]
        /\ Follows(Top', Top) /\ SameLoops(calls, calls') /\ Nested(calls')
    <2>1. Top.at \notin {"main", "closeall", "exited"} /\ Top.at # "modal"
      OBVIOUS
    <2> QED
      BY <1>1, <2>1, PopShape
  <1>4. \/ IsLoop(Top') /\ Top'.phase = "commit"
        \/ Top'.at = "handler" /\ Top'.ops = 1
    BY <1>3 DEF Follows
  <1>5. PlanFits'
    <2>1. Plans(m)' /\ (m'.ActivatedFrame = None => Drawn')
      BY SamePlans
    <2> QED
      BY <1>4, <2>1 DEF PlanFits, IsLoop
  <1>6. Top'.at # "destroy" /\ ~(Top'.at = "handler" /\ Top'.ops = 0)
    BY <1>4 DEF IsLoop
  <1> QED
    BY <1>2, <1>3, <1>5, <1>6, QuietD

LEMMA HandlerReturnsD ==
  ASSUME IInv, DInv, IInv', HandlerReturns
  PROVE  DInv'
  <1>1. /\ Top.at = "handler" /\ calls' = Rest
        /\ UNCHANGED <<m, kind, endLoop, shown, closing>>
    BY DEF HandlerReturns
  <1>2. Plans(m) /\ (m.ActivatedFrame = None => Drawn)
    <2>1. PlanFits
      BY Grounds
    <2> QED
      BY <1>1, <2>1 DEF PlanFits, Plans
  <1> QED
    BY <1>1, <1>2, ReturnsD

LEMMA LeaveMainD ==
  ASSUME IInv, DInv, IInv', LeaveLoop, Top.at = "main"
  PROVE  DInv'
  <1>1. /\ IsLoop(Top) /\ Top.phase = "run" /\ endLoop
        /\ UNCHANGED <<m, kind, closing, endLoop>>
        /\ calls' = <<[at |-> "closeall"]>>
    BY DEF LeaveLoop, LoopGoesOn
  <1>2. Settled(m)
    BY <1>1, Grounds DEF PlanFits
  <1>3. m.ModalStack = <<>>
    BY <1>1, TopLoop
  <1>4. m.CurrentFrame # None => InList(m, m.CurrentFrame)
    <2>1. Sound(m) /\ m.FrameList # <<>>
      BY Grounds, OnMain
    <2> QED
      BY <1>2, <1>3, <2>1, HomeIs DEF Settled, InList
  <1>5. Ends
    BY <1>1, <1>2, <1>3, <1>4 DEF Ends, Settled, NoSwitch
  <1> QED
    BY <1>1, <1>5, EndD

(* The frame given to ExecuteModal() goes with the loop.                    *)
LEMMA LeaveModalD ==
  ASSUME IInv, DInv, IInv', LeaveLoop, Top.at = "modal"
  PROVE  /\ DInv'
         /\ m.CurrentFrame = calls[Len(calls) - 1].frame
  <1> DEFINE n == Len(m.ModalStack)
             a == Len(calls)
             f == Top.frame
             M == Modals(calls)
  <1>1. /\ IsLoop(Top) /\ ~LoopGoesOn(Top) /\ UNCHANGED <<m, endLoop, shown>>
        /\ kind' = [kind EXCEPT ![f] = "none"] /\ closing' = closing \ {f}
        /\ calls' = Rest
    BY DEF LeaveLoop
  <1>2. /\ CallsTyped /\ calls \in Seq(CallTypes) /\ calls # <<>>
        /\ calls[1].at \in {"main", "closeall", "exited"}
        /\ Shape(calls) /\ Nested(calls) /\ PlanFits /\ ModalFrames /\ Callers
        /\ Places /\ BackIsListed /\ ClosingLeaves
        /\ a \in Nat /\ Top = calls[a] /\ m.ModalStack \in Seq(Frames)
        /\ kind \in [Frames -> Kinds]
    BY Grounds, InvGives, TopIs, FieldTypes DEF CallsTyped, MainIsAtTheBottom
  <1>3. /\ a \in M /\ Top.level = n /\ Settled(m) /\ LevelsAre(calls, n + 1)
        /\ \A k \in M : k # a => k < a /\ calls[k].level < Top.level
    BY <1>1, TopLoop
  <1>4. /\ a > 1 /\ CallsTyped' /\ Shape(calls') /\ calls'[1] = calls[1]
        /\ Len(calls') = a - 1 /\ \A k \in 1 .. a - 1 : calls'[k] = calls[k]
        /\ Top' = calls[a - 1] /\ Follows(Top', Top)
    <2>1. Top.at \notin {"main", "closeall", "exited"}
      OBVIOUS
    <2> QED
      BY <1>1, <1>2, <2>1, PopShape
  <1>5. calls[1].at = "main" /\ UnderDeletion = {} /\ Thens = {} /\ m.FrameList # <<>>
    BY OnMain
  <1>6. Top'.at = "handler" /\ Top'.ops = 0 /\ Top'.began
    BY <1>4 DEF Follows
  <1>7. UnderDeletion' = {} /\ Thens' = {}
    BY <1>4, <1>6, UnderIsNext
  <1>8. NothingAsked(m) /\ NoSwitch(m) /\ AtHome(m)
    BY <1>3 DEF Settled
  <1>9. \A k \in M : /\ k \in 1 .. a /\ k > 1 /\ calls[k].frame \in Frames
                     /\ calls[k].level \in Nat
    BY <1>2, ModalIs
  <1>10. m.CurrentFrame = calls[a - 1].frame
    <2>1. calls[a - 1].frame = Below(m, n)
      BY <1>2, <1>3 DEF Callers
    <2> QED
      BY <1>8, <2>1 DEF AtHome
  <1>11. n \in Nat /\ DOMAIN m.ModalStack = 1 .. n
    BY <1>2, SeqFacts
  <1>12. f \in Frames /\ kind[f] \in {"dialog", "viewer"} /\ ~InList(m, f) /\ ~InStack(m, f)
    <2>1. f \in Frames /\ kind[f] \in {"dialog", "viewer"}
      BY <1>2, <1>3, <1>9 DEF ModalFrames
    <2>2. ~InList(m, f)
      BY <1>2, <2>1 DEF Places, InList
    <2>3. ASSUME NEW i \in DOMAIN m.ModalStack, m.ModalStack[i] = f PROVE FALSE
      <3>1. i = n + 1
        BY <1>2, <1>3, <2>3 DEF ModalFrames
      <3> QED
        BY <1>11, <2>3, <3>1
    <2>4. ~InStack(m, f)
      BY <2>3 DEF InStack, InSeq
    <2> QED
      BY <2>1, <2>2, <2>4
  <1>13. /\ \A g : g # f => kind'[g] = kind[g]
         /\ kind'[f] = "none"
    BY <1>1, <1>2, <1>12
  <1>14. Places'
    <2>1. m'.FrameList # <<>> /\ m'.FrameList[1] = Panels
      BY <1>1, <1>2, <1>5 DEF Places
    <2>2. m'.InsertedFrame = None /\ m'.ExecutedFrame = None
      BY <1>1, <1>8 DEF NothingAsked
    <2>3. \A g \in InSeq(m'.FrameList) :
             kind'[g] = IF g = Panels THEN "panels" ELSE "window"
      BY <1>1, <1>2, <1>12, <1>13 DEF Places, InList
    <2>4. \A g \in InSeq(m'.ModalStack) : kind'[g] \in ModalKinds
      BY <1>1, <1>2, <1>12, <1>13 DEF Places, InStack
    <2>5. ASSUME NEW g \in Frames, kind'[g] = "window" PROVE InList(m', g)
      <3>1. kind[g] = "window"
        BY <1>13, <2>5
      <3>2. m.InsertedFrame = None /\ g # None
        BY <1>8, FramesAssumption DEF NothingAsked
      <3> QED
        BY <1>1, <1>2, <1>5, <3>1, <3>2 DEF Places
    <2> QED
      BY <2>1, <2>2, <2>3, <2>4, <2>5 DEF Places
  <1>15. BackIsListed'
    BY <1>1, <1>2 DEF BackIsListed, InList
  <1>16. ClosingLeaves'
    <2>1. Pending' = {}
      BY <1>1, <1>7, <1>8 DEF Pending, ToStack, NothingAsked
    <2>2. ASSUME NEW g \in closing'
          PROVE  /\ kind'[g] # "none"
                 /\ \/ g = m'.DeletedFrame \/ g \in UnderDeletion'
                    \/ ~InList(m', g) /\ ~InStack(m', g)
      <3>1. g \in closing /\ g # f
        BY <1>1, <2>2
      <3>2. /\ kind[g] # "none"
            /\ g = m.DeletedFrame \/ (~InList(m, g) /\ ~InStack(m, g))
        BY <1>2, <1>5, <3>1 DEF ClosingLeaves
      <3>3. g = m'.DeletedFrame \/ (~InList(m', g) /\ ~InStack(m', g))
        BY <1>1, <3>2 DEF InList, InStack
      <3> QED
        BY <1>13, <3>1, <3>2, <3>3
    <2> QED
      BY <2>1, <2>2 DEF ClosingLeaves
  <1> HIDE DEF n, a, f, M
  <1>17. /\ Modals(calls') = M \ {a}
         /\ \A k \in M \ {a} : /\ calls'[k] = calls[k]
                               /\ calls'[k - 1] = calls[k - 1]
    <2>1. DOMAIN calls' = 1 .. a - 1
      BY <1>4, LenProperties DEF CallsTyped
    <2>2. DOMAIN calls = 1 .. a
      BY <1>2, LenProperties DEF a
    <2>3. ASSUME NEW k \in M \ {a}
          PROVE  /\ k \in 1 .. a - 1 /\ calls'[k] = calls[k]
                 /\ calls'[k - 1] = calls[k - 1]
      <3>1. k \in 1 .. a - 1 /\ k - 1 \in 1 .. a - 1
        BY <1>2, <1>9, <2>3
      <3> QED
        BY <1>4, <3>1
    <2>4. Modals(calls') = {k \in 1 .. a - 1 : calls[k].at = "modal"}
      BY <1>4, <2>1 DEF Modals
    <2>5. M = {k \in 1 .. a : calls[k].at = "modal"}
      BY <2>2 DEF Modals, M
    <2>6. 1 .. a - 1 = (1 .. a) \ {a}
      BY <1>2
    <2> QED
      BY <2>3, <2>4, <2>5, <2>6
  <1>18. LevelsAre(calls', n)
    <2>1. {calls[k].level : k \in M} = 0 .. (n + 1) - 1
      BY <1>3 DEF LevelsAre, M
    <2>2. {calls'[k].level : k \in Modals(calls')} = {calls[k].level : k \in M \ {a}}
      BY <1>17
    <2>3. ASSUME NEW j \in 0 .. n - 1 PROVE j \in {calls[k].level : k \in M \ {a}}
      <3>1. j \in 0 .. (n + 1) - 1 /\ j # n
        BY <1>11, <2>3
      <3>2. PICK k \in M : calls[k].level = j
        BY <2>1, <3>1
      <3>3. k # a
        BY <1>2, <1>3, <3>1, <3>2
      <3> QED
        BY <3>2, <3>3
    <2>4. ASSUME NEW k \in M \ {a} PROVE calls[k].level \in 0 .. n - 1
      <3>1. calls[k].level \in Nat /\ calls[k].level < n
        BY <1>3, <1>9, <2>4
      <3> QED
        BY <1>11, <3>1
    <2>5. {calls[k].level : k \in M \ {a}} = 0 .. n - 1
      BY <2>3, <2>4
    <2> QED
      BY <2>2, <2>5 DEF LevelsAre
  <1>19. LoopsFit'
    <2>1. ~Executes(m)' /\ Len(m'.ModalStack) = n
      BY <1>1, <1>8 DEF Executes, NothingAsked, n
    <2> QED
      BY <1>18, <2>1 DEF LoopsFit
  <1>20. Nested(calls')
    <2>1. ASSUME NEW j \in DOMAIN calls', NEW k \in Modals(calls'),
                 calls'[j].at = "nonmodal"
          PROVE  j < k
      <3>1. j \in 1 .. a - 1
        BY <1>4, LenProperties DEF CallsTyped
      <3>2. j \in DOMAIN calls /\ calls'[j] = calls[j]
        <4>1. DOMAIN calls = 1 .. a
          BY <1>2, LenProperties DEF a
        <4> QED
          BY <1>2, <1>4, <3>1, <4>1
      <3>3. k \in M
        BY <1>17
      <3> QED
        BY <1>2, <2>1, <3>2, <3>3 DEF Nested, M
    <2>2. ASSUME NEW j \in Modals(calls'), NEW k \in Modals(calls'), j < k
          PROVE  calls'[j].level < calls'[k].level
      BY <1>2, <1>17, <2>2 DEF Nested, M
    <2> QED
      BY <2>1, <2>2 DEF Nested
  <1>21. ModalFrames'
    <2>1. ASSUME NEW k \in M \ {a}
          PROVE  /\ kind'[calls'[k].frame] \in {"dialog", "viewer"}
                 /\ m'.ExecutedFrame # calls'[k].frame
      <3>1. calls[k].frame # f /\ kind[calls[k].frame] \in {"dialog", "viewer"}
        BY <1>2, <1>3 DEF ModalFrames, M, f
      <3>2. m'.ExecutedFrame = None /\ calls[k].frame # None
        BY <1>1, <1>8, <1>9, FramesAssumption DEF NothingAsked
      <3> QED
        BY <1>13, <1>17, <3>1, <3>2
    <2>2. \A j, k \in M \ {a} : calls'[j].frame = calls'[k].frame => j = k
      BY <1>2, <1>17 DEF ModalFrames, M
    <2>3. \A k \in M \ {a}, i \in DOMAIN m'.ModalStack :
             m'.ModalStack[i] = calls'[k].frame => i = calls'[k].level + 1
      BY <1>1, <1>2, <1>17 DEF ModalFrames, M
    <2> QED
      BY <1>17, <2>1, <2>2, <2>3 DEF ModalFrames
  <1>22. Callers'
    <2>1. \A k \in M \ {a} : calls'[k - 1].frame = Below(m', calls'[k].level)
      BY <1>1, <1>2, <1>17 DEF Callers, M
    <2> QED
      BY <1>17, <2>1 DEF Callers
  <1>23. PlanFits'
    <2>1. Settled(m)' /\ m'.ActivatedFrame = None /\ Drawn'
      <3>1. Settled(m)'
        BY <1>1, <1>3, SamePlans
      <3>2. m.ActivatedFrame = None
        BY <1>8 DEF NoSwitch
      <3>3. Drawn
        BY <1>2, <3>2 DEF PlanFits
      <3> QED
        BY <1>1, <3>1, <3>2, <3>3, SamePlans
    <2>2. Top'.frame = m'.CurrentFrame
      BY <1>1, <1>4, <1>10
    <2> QED
      BY <1>6, <2>1, <2>2 DEF PlanFits, IsLoop
  <1>24. DInv'
    BY <1>4, <1>14, <1>15, <1>16, <1>19, <1>20, <1>21, <1>22, <1>23
       DEF DInv, FramesInv, LoopsInv
  <1> QED
    BY <1>10, <1>24 DEF a

LEMMA LeaveLoopD ==
  ASSUME IInv, DInv, IInv', LeaveLoop
  PROVE  DInv'
  <1>1. CASE Top.at = "main"
    BY <1>1, LeaveMainD
  <1>2. CASE Top.at = "modal"
    BY <1>2, LeaveModalD
  <1>3. CASE Top.at = "nonmodal"
    <2>1. /\ Top.phase = "run" /\ calls' = Rest /\ IsLoop(Top)
          /\ UNCHANGED <<m, kind, closing, endLoop, shown>>
      BY <1>3 DEF LeaveLoop
    <2>2. Plans(m) /\ (m.ActivatedFrame = None => Drawn)
      <3>1. PlanFits
        BY Grounds
      <3> QED
        BY <1>3, <2>1, <3>1 DEF PlanFits, Plans
    <2> QED
      BY <1>3, <2>1, <2>2, ReturnsD
  <1> QED
    BY <1>1, <1>2, <1>3 DEF LeaveLoop, IsLoop

-----------------------------------------------------------------------------
(* Destructors end, and the frames that are left are deleted at the exit.   *)
LEMMA NoModalsAtExit ==
  ASSUME IInv, DInv, calls[1].at # "main"
  PROVE  Modals(calls) = {}
  <1>1. /\ calls \in Seq(CallTypes) /\ calls[1].at \in {"main", "closeall", "exited"}
        /\ Shape(calls)
    BY Grounds DEF CallsTyped, MainIsAtTheBottom
  <1>2. ASSUME NEW k \in Modals(calls) PROVE FALSE
    <2>1. k \in DOMAIN calls /\ k > 1 /\ calls[k].at = "modal"
      BY <1>1, Grounds, ModalIs DEF CallsTyped
    <2> QED
      BY <1>1, <2>1 DEF Shape
  <1> QED
    BY <1>2

LEMMA DestroyedFrames ==
  ASSUME IInv, DInv, IInv', Top.at = "destroy", NEW f, f = Top.frame, ~InList(m, f),
         f \in Frames, kind' = [kind EXCEPT ![f] = "none"], closing' = closing \ {f},
         calls'[1] = calls[1], UnderDeletion' = {}, Thens' = {},
         m'.FrameList = m.FrameList,
         InSeq(m'.ModalStack) = (InSeq(m.ModalStack) \ {f}) \cup ({Top.then} \ {None}),
         \A g \in Frames : g # f => m'.FrameToBack[g] = m.FrameToBack[g],
         NothingAsked(m), NothingAsked(m'),
         Top.then # None => kind[Top.then] = "editor" /\ Top.then # f
  PROVE  FramesInv'
  <1>1. /\ CallsTyped /\ Shape(calls) /\ Places /\ BackIsListed /\ ClosingLeaves
        /\ kind \in [Frames -> Kinds] /\ m.FrameList \in Seq(Frames)
        /\ Top.then \in FrameOrNone /\ closing \subseteq Frames
    <2>1. CallsTyped /\ Top \in CallTypes
      BY Grounds, TopIs
    <2>2. Top.then \in FrameOrNone
      BY <2>1, CallKinds
    <2> QED
      BY <2>1, <2>2, Grounds, InvGives, FieldTypes
  <1>2. UnderDeletion = {f} /\ Thens = {Top.then} \ {None}
    BY <1>1, UnderIs
  <1>3. (\A g : g # f => kind'[g] = kind[g]) /\ kind'[f] = "none"
    BY <1>1
  <1>4. InSeq(m.FrameList) \subseteq Frames
    BY <1>1, SeqFacts
  <1>5. /\ m.InsertedFrame = None /\ m.ExecutedFrame = None
        /\ m'.InsertedFrame = None /\ m'.ExecutedFrame = None
        /\ m.DeletedFrame = None /\ m'.DeletedFrame = None
    BY DEF NothingAsked
  <1>6. Places'
    <2>1. /\ calls'[1].at = "main" => m'.FrameList # <<>>
          /\ m'.FrameList # <<>> => m'.FrameList[1] = Panels
      BY <1>1 DEF Places
    <2>2. \A g \in InSeq(m'.FrameList) :
             kind'[g] = IF g = Panels THEN "panels" ELSE "window"
      BY <1>1, <1>3 DEF Places, InList
    <2>3. \A g \in InSeq(m'.ModalStack) : kind'[g] \in ModalKinds
      BY <1>1, <1>3 DEF Places, ModalKinds
    <2>4. ASSUME NEW g \in Frames, kind'[g] = "window" PROVE InList(m', g)
      <3>1. kind[g] = "window" /\ g # f /\ g # None
        BY <1>3, <2>4, FramesAssumption
      <3>2. InList(m, g)
        BY <1>1, <1>2, <1>5, <3>1 DEF Places
      <3> QED
        BY <3>2 DEF InList
    <2> QED
      BY <1>5, <2>1, <2>2, <2>3, <2>4 DEF Places
  <1>7. BackIsListed'
    <2>1. ASSUME NEW g \in InSeq(m'.FrameList)
          PROVE  InList(m', m'.FrameToBack[g]) \/ (g = Panels /\ m'.FrameToBack[g] = None)
      <3>1. g \in InSeq(m.FrameList) /\ m'.FrameToBack[g] = m.FrameToBack[g]
        BY <1>4, <2>1 DEF InList
      <3> QED
        BY <1>1, <3>1 DEF BackIsListed, InList
    <2> QED
      BY <2>1 DEF BackIsListed
  <1>8. ClosingLeaves'
    <2>1. Pending' = {}
      BY <1>5 DEF Pending, ToStack
    <2>2. ASSUME NEW g \in closing'
          PROVE  kind'[g] # "none" /\ ~InList(m', g) /\ ~InStack(m', g)
      <3>1. g \in closing /\ g # f /\ g # None
        BY <1>1, <2>2, FramesAssumption
      <3>2. kind[g] # "none" /\ ~InList(m, g) /\ ~InStack(m, g)
        BY <1>1, <1>2, <1>5, <3>1 DEF ClosingLeaves
      <3>3. g \notin {Top.then} \ {None}
        <4>1. {Top.then} \ {None} \subseteq Pending
          BY <1>2 DEF Pending, ToStack
        <4> QED
          BY <1>1, <3>1, <4>1 DEF ClosingLeaves
      <3> QED
        BY <1>3, <3>1, <3>2, <3>3 DEF InList, InStack
    <2> QED
      BY <2>1, <2>2 DEF ClosingLeaves
  <1> QED
    BY <1>6, <1>7, <1>8 DEF FramesInv

(* The close event of the frame is over, and it is gone.                    *)
Gone(f) ==
    LET m0 == [m EXCEPT !.FrameToBack = [@ EXCEPT ![f] = None]]
    IN  /\ f \in Frames /\ Top.then \in FrameOrNone
        /\ m' = ThenExecute(Pop(m0, f, Top.listed), Top.then)
        /\ Sound(m0) /\ m0.FrameToBack = [m.FrameToBack EXCEPT ![f] = None]
        /\ m0.FrameList = m.FrameList /\ m0.ModalStack = m.ModalStack
        /\ m0.FramePos = m.FramePos
        /\ m0.CurrentFrame = m.CurrentFrame /\ m0.ActivatedFrame = m.ActivatedFrame
        /\ m0.RefreshedFrame = m.RefreshedFrame
        /\ m0.DeactivatedFrame = m.DeactivatedFrame /\ SameAsked(m, m0)

LEMMA GoneIs ==
  ASSUME IInv, Destroyed
  PROVE  Gone(Top.frame)
  <1> DEFINE f == Top.frame
             m0 == [m EXCEPT !.FrameToBack = [@ EXCEPT ![f] = None]]
  <1>1. /\ Sound(m) /\ m \in Fields /\ CallsTyped /\ Top.at = "destroy"
    BY InvGives DEF Sound, Destroyed
  <1>2. f \in Frames /\ Top.then \in FrameOrNone
    BY <1>1, TopIs, CallKinds
  <1>3. m0 = [m EXCEPT !.FrameToBack[Top.frame] = None]
    BY <1>1 DEF Fields
  <1>4. m' = ThenExecute(Pop(m0, f, Top.listed), Top.then)
    BY <1>3 DEF Destroyed
  <1>5. m0 \in Fields
    BY <1>1, <1>2, FieldTypes DEF Fields, FrameOrNone
  <1>6. /\ m0.FrameList = m.FrameList /\ m0.ModalStack = m.ModalStack
        /\ m0.FramePos = m.FramePos /\ m0.CurrentFrame = m.CurrentFrame
        /\ m0.ActivatedFrame = m.ActivatedFrame
        /\ m0.RefreshedFrame = m.RefreshedFrame
        /\ m0.DeletedFrame = m.DeletedFrame
        /\ m0.InsertedFrame = m.InsertedFrame
        /\ m0.ExecutedFrame = m.ExecutedFrame
        /\ m0.DeactivatedFrame = m.DeactivatedFrame
        /\ m0.FrameToBack = [m.FrameToBack EXCEPT ![f] = None]
    BY <1>1 DEF Fields
  <1>7. Sound(m0)
    <2> HIDE DEF m0
    <2> QED
      BY <1>1, <1>5, <1>6 DEF Sound
  <1> QED
    BY <1>2, <1>4, <1>6, <1>7 DEF Gone, SameAsked

LEMMA DestroyReturns ==
  ASSUME IInv, DInv, IInv', Destroyed
  PROVE  /\ Shape(calls') /\ Nested(calls') /\ SameLoops(calls, calls')
         /\ calls'[1] = calls[1] /\ UnderDeletion' = {} /\ Thens' = {}
         /\ calls[1].at = "main" =>
              \/ Top'.at = "commit"
              \/ Top'.at = "handler" /\ Top'.ops = 1 /\ Top'.began
         /\ calls[1].at # "main" => Top'.at = "closeall"
  <1>1. CallsTyped /\ Shape(calls) /\ Nested(calls) /\ Top.at = "destroy" /\ calls' = Rest
    BY Grounds DEF Destroyed
  <1>2. /\ CallsTyped' /\ Shape(calls') /\ calls'[1] = calls[1]
        /\ Follows(Top', Top) /\ SameLoops(calls, calls') /\ Nested(calls')
    BY <1>1, PopShape
  <1>3. \/ Top'.at \in {"commit", "closeall"}
        \/ Top'.at = "handler" /\ Top'.ops = 1 /\ Top'.began
    BY <1>1, <1>2 DEF Follows, IsLoop
  <1>4. UnderDeletion' = {} /\ Thens' = {}
    BY <1>2, <1>3, UnderIsNext
  <1>5. /\ Top'.at \in {"main", "modal", "nonmodal", "commit", "handler"}
              /\ calls'[1].at \in {"main", "closeall", "exited"} => calls'[1].at = "main"
        /\ Top'.at \in {"closeall", "exited", "main"} => Len(calls') = 1
    <2>1. calls' \in Seq(CallTypes) /\ calls' # <<>> /\ Top' = calls'[Len(calls')]
      BY <1>2 DEF CallsTyped, Top
    <2> QED
      BY <1>2, <2>1, BottomOf
  <1>6. calls[1].at \in {"main", "closeall", "exited"}
    BY <1>1 DEF CallsTyped, MainIsAtTheBottom
  <1>7. calls[1].at = "main" => Top'.at # "closeall"
    BY <1>2, <1>5 DEF Top
  <1> QED
    BY <1>2, <1>3, <1>4, <1>5, <1>6, <1>7

(* A window, or a frame deleted at the exit.                                *)
LEMMA PlainGoneD ==
  ASSUME IInv, DInv, IInv', Destroyed,
         IF calls[1].at = "main" THEN WindowDies ELSE Ends /\ Top.then = None
  PROVE  DInv'
  <1> DEFINE f == Top.frame
             m0 == [m EXCEPT !.FrameToBack = [@ EXCEPT ![f] = None]]
  <1>1. /\ Top.at = "destroy" /\ kind' = [kind EXCEPT ![f] = "none"]
        /\ closing' = closing \ {f} /\ UNCHANGED <<endLoop, shown>>
    BY DEF Destroyed
  <1>2. Gone(f)
    BY GoneIs
  <1>3. /\ CallsTyped /\ Places /\ PlanFits /\ ~InList(m, f)
        /\ f \in Frames /\ kind \in [Frames -> Kinds]
        /\ kind[f] \in {"panels", "window", "editor"}
    BY <1>1, <1>2, Grounds, InvGives DEF PlanFits, Gone
  <1>4. /\ NothingAsked(m) /\ m.ModalStack = <<>> /\ Top.then = None
    BY DEF WindowDies, Switches, Ends
  <1>5. m' = m0
    <2>1. m0.ModalStack = <<>>
      BY <1>2, <1>4 DEF Gone
    <2>2. ~InStack(m0, f)
      BY <2>1, SeqFacts DEF InStack, InSeq
    <2>3. Pop(m0, f, Top.listed) = m0
      BY <2>2 DEF Pop
    <2>4. m' = ThenExecute(Pop(m0, f, Top.listed), None)
      BY <1>2, <1>4 DEF Gone
    <2> QED
      BY <2>3, <2>4 DEF ThenExecute
  <1>6. /\ Shape(calls') /\ Nested(calls') /\ SameLoops(calls, calls')
        /\ calls'[1] = calls[1] /\ UnderDeletion' = {} /\ Thens' = {}
        /\ calls[1].at = "main" =>
              \/ Top'.at = "commit"
              \/ Top'.at = "handler" /\ Top'.ops = 1 /\ Top'.began
        /\ calls[1].at # "main" => Top'.at = "closeall"
    BY DestroyReturns
  <1>7. /\ m'.FrameList = m.FrameList /\ m'.ModalStack = <<>> /\ m'.FramePos = m.FramePos
        /\ m'.FrameToBack = [m.FrameToBack EXCEPT ![f] = None]
        /\ m'.CurrentFrame = m.CurrentFrame /\ m'.ActivatedFrame = m.ActivatedFrame
        /\ m'.DeactivatedFrame = m.DeactivatedFrame /\ NothingAsked(m')
    BY <1>2, <1>4, <1>5 DEF Gone, SameAsked, NothingAsked
  <1> HIDE DEF m0, f
  <1>8. FramesInv'
    <2>1. \A g \in Frames : g # f => m'.FrameToBack[g] = m.FrameToBack[g]
      <3>1. m.FrameToBack \in [Frames -> FrameOrNone]
        BY Grounds, FieldTypes
      <3> QED
        BY <1>7, <3>1
    <2>2. InSeq(m'.ModalStack) = (InSeq(m.ModalStack) \ {f}) \cup ({Top.then} \ {None})
      BY <1>4, <1>7 DEF InSeq
    <2>3. /\ Top.at = "destroy" /\ f = Top.frame /\ ~InList(m, f) /\ f \in Frames
          /\ kind' = [kind EXCEPT ![f] = "none"] /\ closing' = closing \ {f}
          /\ calls'[1] = calls[1] /\ UnderDeletion' = {} /\ Thens' = {}
          /\ m'.FrameList = m.FrameList /\ NothingAsked(m) /\ NothingAsked(m')
      BY <1>1, <1>3, <1>4, <1>6, <1>7 DEF f
    <2>4. Top.then # None => kind[Top.then] = "editor" /\ Top.then # f
      BY <1>4
    <2> QED
      BY <2>1, <2>2, <2>3, <2>4, DestroyedFrames
  <1>9. Modals(calls) = {}
    <2>1. CASE calls[1].at = "main"
      <3>1. ~Settled(m) /\ ~Executes(m)
        BY <1>4, <2>1 DEF WindowDies, Settled, NoSwitch, Executes, NothingAsked
      <3> QED
        BY <1>4, <3>1, Depths
    <2>2. CASE calls[1].at # "main"
      BY <2>2, NoModalsAtExit
    <2> QED
      BY <2>1, <2>2
  <1>10. ModalFrames' /\ Callers'
    <2>1. m'.ModalStack = m.ModalStack
      BY <1>4, <1>7
    <2> QED
      BY <1>6, <1>9, <2>1, LoopsStay
  <1>11. LoopsFit'
    <2>1. Modals(calls') = {} /\ Len(m'.ModalStack) = 0 /\ ~Executes(m)'
      BY <1>6, <1>7, <1>9 DEF SameLoops, Executes, NothingAsked
    <2>2. {calls'[k].level : k \in Modals(calls')} = {} /\ 0 .. 0 - 1 = {}
      BY <2>1
    <2> QED
      BY <2>1, <2>2 DEF LoopsFit, LevelsAre
  <1>12. PlanFits'
    <2>1. CASE calls[1].at = "main"
      <3>1. Switches(m') /\ m'.ActivatedFrame # None
        <4>1. Switches(m) /\ m.ActivatedFrame # None
          BY <2>1 DEF WindowDies
        <4>2. AtHome(m') <=> AtHome(m)
          BY <1>4, <1>7 DEF AtHome, Below
        <4> QED
          BY <1>7, <4>1, <4>2 DEF Switches, InList
      <3>2. Plans(m)'
        BY <3>1 DEF Plans
      <3> QED
        BY <1>6, <2>1, <3>1, <3>2 DEF PlanFits, IsLoop
    <2>2. CASE calls[1].at # "main"
      <3>1. Ends'
        BY <1>1, <1>7, <2>2 DEF Ends, InList, NothingAsked
      <3> QED
        BY <1>6, <2>2, <3>1 DEF PlanFits, IsLoop
    <2> QED
      BY <2>1, <2>2
  <1> QED
    BY <1>6, <1>8, <1>10, <1>11, <1>12 DEF DInv, LoopsInv

(* An editor on top of the stack, and another one perhaps in its place.     *)
LEMMA EditorGoneD ==
  ASSUME IInv, DInv, IInv', Destroyed, calls[1].at = "main", EditorDies
  PROVE  DInv'
  <1> DEFINE f == Top.frame
             then == Top.then
             n == Len(m.ModalStack)
             m0 == [m EXCEPT !.FrameToBack = [@ EXCEPT ![f] = None]]
  <1>1. /\ Top.at = "destroy" /\ kind' = [kind EXCEPT ![f] = "none"]
        /\ closing' = closing \ {f} /\ UNCHANGED <<endLoop, shown>>
    BY DEF Destroyed
  <1>2. Gone(f)
    BY GoneIs
  <1>3. /\ CallsTyped /\ Shape(calls) /\ Places /\ PlanFits /\ ModalFrames /\ ~InList(m, f)
        /\ f \in Frames /\ then \in FrameOrNone /\ kind \in [Frames -> Kinds]
        /\ kind[f] \in {"panels", "window", "editor"}
        /\ m.FrameList # <<>> /\ m.ModalStack \in Seq(Frames) /\ Sound(m)
    <2>1. m \in Fields /\ CallsTyped /\ Shape(calls) /\ Places /\ PlanFits /\ ModalFrames
          /\ Sound(m)
      BY Grounds
    <2>2. f \in Frames /\ then \in FrameOrNone
      BY <1>2 DEF Gone
    <2>3. m.FrameList # <<>>
      BY <2>1 DEF Places
    <2>4. ~InList(m, f) /\ kind[f] \in {"panels", "window", "editor"}
      BY <1>1, <2>1 DEF PlanFits
    <2> QED
      BY <2>1, <2>2, <2>3, <2>4, InvGives, FieldTypes
  <1>4. /\ NothingAsked(m) /\ NoSwitch(m) /\ m.CurrentFrame = None
        /\ m.ModalStack # <<>> /\ f = LastOf(m.ModalStack)
        /\ then # None => kind[then] = "editor"
    BY DEF EditorDies
  <1>5. Top.listed = FALSE
    <2>1. Top.listed \in BOOLEAN /\ ~Top.listed
      BY <1>1, <1>3, TopIs, CallKinds DEF EditorDies
    <2> QED
      BY <2>1
  <1>6. then \notin InSeq(m.FrameList) \cup InSeq(m.ModalStack)
    <2>1. CASE then = None
      <3>1. InSeq(m.FrameList) \subseteq Frames /\ InSeq(m.ModalStack) \subseteq Frames
        BY <1>3, SeqFacts, FieldTypes DEF Sound
      <3> QED
        BY <2>1, <3>1, FramesAssumption
    <2>2. CASE then # None
      <3>1. then \in Thens
        BY <1>1, <1>3, <2>2, UnderIs
      <3> QED
        BY <3>1 DEF IInv, PendingIsUnknown, Pending, ToStack, Known
    <2> QED
      BY <2>1, <2>2
  <1>7. PoppedThen(m0, f, then, m')
    <2>1. m' = ThenExecute(Pop(m0, f, FALSE), then)
      BY <1>2, <1>5 DEF Gone
    <2>2. /\ Sound(m0) /\ m0.FrameList # <<>> /\ m0.ModalStack # <<>>
          /\ f = LastOf(m0.ModalStack) /\ m0.CurrentFrame \in {f, None}
          /\ NothingAsked(m0) /\ m0.DeactivatedFrame = None
          /\ then \notin InSeq(m0.FrameList) \cup InSeq(m0.ModalStack)
      BY <1>2, <1>3, <1>4, <1>6 DEF Gone, SameAsked, NothingAsked, NoSwitch
    <2> HIDE DEF m0, f, then
    <2>3. PoppedThen(m0, f, then, ThenExecute(Pop(m0, f, FALSE), then))
      BY <1>3, <2>2, PopThenIs
    <2> QED
      BY <2>1, <2>3
  <1>8. /\ Shape(calls') /\ Nested(calls') /\ SameLoops(calls, calls')
        /\ calls'[1] = calls[1] /\ UnderDeletion' = {} /\ Thens' = {}
        /\ \/ Top'.at = "commit"
           \/ Top'.at = "handler" /\ Top'.ops = 1 /\ Top'.began
    BY DestroyReturns
  <1>9. /\ m0.FrameList = m.FrameList /\ m0.ModalStack = m.ModalStack
        /\ m0.FramePos = m.FramePos
        /\ m0.FrameToBack = [m.FrameToBack EXCEPT ![f] = None]
    BY <1>2 DEF Gone
  <1> HIDE DEF m0, f, then, n
  <1>10. /\ m'.FrameList = m.FrameList
         /\ m'.FrameToBack = [m.FrameToBack EXCEPT ![f] = None]
         /\ Below(m', 0) = Below(m, 0)
         /\ InSeq(m'.ModalStack) = (InSeq(m.ModalStack) \ {f}) \cup ({then} \ {None})
         /\ n \in Nat /\ n > 0
         /\ \A k \in 1 .. n - 1 : m'.ModalStack[k] = m.ModalStack[k]
         /\ then = None =>
              /\ Len(m'.ModalStack) = n - 1 /\ Settled(m')
              /\ m'.RefreshedFrame = m'.CurrentFrame /\ m'.CurrentFrame # None
         /\ then # None =>
              /\ Len(m'.ModalStack) = n /\ m'.ModalStack[n] = then
              /\ Starts(m') /\ m'.ActivatedFrame # None
    BY <1>7, <1>9 DEF PoppedThen, Below, n
  <1>11. NothingAsked(m')
    BY <1>10 DEF Settled, Starts
  <1>12. FramesInv'
    <2>1. \A g \in Frames : g # f => m'.FrameToBack[g] = m.FrameToBack[g]
      <3>1. m.FrameToBack \in [Frames -> FrameOrNone]
        BY Grounds, FieldTypes
      <3> QED
        BY <1>10, <3>1
    <2>2. then # None => then # f
      BY <1>4, <1>6, <1>3, LastIs
    <2>3. /\ Top.at = "destroy" /\ f = Top.frame /\ ~InList(m, f) /\ f \in Frames
          /\ kind' = [kind EXCEPT ![f] = "none"] /\ closing' = closing \ {f}
          /\ calls'[1] = calls[1] /\ UnderDeletion' = {} /\ Thens' = {}
          /\ m'.FrameList = m.FrameList /\ NothingAsked(m) /\ NothingAsked(m')
      BY <1>1, <1>3, <1>4, <1>8, <1>10, <1>11 DEF f
    <2>4. Top.then # None => kind[Top.then] = "editor" /\ Top.then # f
      BY <1>4, <2>2 DEF then
    <2>5. InSeq(m'.ModalStack) = (InSeq(m.ModalStack) \ {f}) \cup ({Top.then} \ {None})
      BY <1>10 DEF then
    <2> QED
      BY <2>1, <2>3, <2>4, <2>5, DestroyedFrames
  <1>13. LevelsAre(calls, n)
    <2>1. m.CurrentFrame = None => ~Settled(m)
      BY <1>3, HomeIs DEF Settled
    <2>2. ~Executes(m)
      BY <1>4 DEF Executes, NothingAsked
    <2> QED
      BY <1>4, <2>1, <2>2, Depths DEF n
  <1>14. /\ ModalFrames' /\ Callers'
         /\ \A j : LevelsAre(calls, j) => LevelsAre(calls', j)
    <2>1. ASSUME NEW k \in Modals(calls)
          PROVE  kind'[calls[k].frame] = kind[calls[k].frame]
      <3>1. kind[calls[k].frame] \in {"dialog", "viewer"}
        BY <1>3 DEF ModalFrames
      <3>2. calls[k].frame # f
        BY <1>3, <3>1
      <3> QED
        BY <1>1, <1>3, <3>2 DEF f
    <2>2. m'.ExecutedFrame = None
      BY <1>11 DEF NothingAsked
    <2>3. \/ Len(m'.ModalStack) = Len(m.ModalStack) - 1
          \/ /\ Len(m'.ModalStack) = Len(m.ModalStack)
             /\ kind[m'.ModalStack[Len(m.ModalStack)]] = "editor"
      BY <1>4, <1>10 DEF n
    <2>4. /\ LevelsAre(calls, Len(m.ModalStack))
          /\ \A k \in 1 .. Len(m.ModalStack) - 1 : m'.ModalStack[k] = m.ModalStack[k]
      BY <1>10, <1>13 DEF n
    <2> QED
      BY <1>8, <1>10, <2>1, <2>2, <2>3, <2>4, LoopsPop
  <1>15. LoopsFit'
    <2>1. ~Executes(m)'
      BY <1>11 DEF Executes, NothingAsked
    <2>2. LevelsAre(calls', n)
      BY <1>13, <1>14
    <2>3. CASE then = None
      <3>1. Len(m'.ModalStack) + 1 = n
        BY <1>10, <2>3
      <3>2. Settled(m)' /\ (Top'.at = "handler" => Top'.ops # 0)
        BY <1>8, <1>10, <2>3
      <3> QED
        BY <2>1, <2>2, <3>1, <3>2 DEF LoopsFit
    <2>4. CASE then # None
      <3>1. Len(m'.ModalStack) = n
        BY <1>10, <2>4
      <3> QED
        BY <2>1, <2>2, <3>1 DEF LoopsFit
    <2> QED
      BY <2>3, <2>4
  <1>16. PlanFits'
    <2>1. Plans(m)'
      BY <1>10 DEF Plans
    <2>2. m'.ActivatedFrame = None => Drawn'
      BY <1>10 DEF Drawn
    <2> QED
      BY <1>8, <2>1, <2>2 DEF PlanFits, IsLoop
  <1> QED
    BY <1>8, <1>12, <1>14, <1>15, <1>16 DEF DInv, LoopsInv

LEMMA DestroyedD ==
  ASSUME IInv, DInv, IInv', Destroyed
  PROVE  DInv'
  <1>1. IF calls[1].at = "main" THEN WindowDies \/ EditorDies
        ELSE Ends /\ Top.then = None
    <2>1. Top.at = "destroy" /\ PlanFits
      BY Grounds DEF Destroyed
    <2> QED
      BY <2>1 DEF PlanFits
  <1> QED
    BY <1>1, PlainGoneD, EditorGoneD

(* What is left of the list without its last frame.                         *)
LEMMA LastUnlinked ==
  ASSUME IInv, DInv, m.FrameList # <<>>, m.FrameList[1] = Panels, NothingAsked(m),
         NEW f, f = LastOf(m.FrameList)
  PROVE  LET r == Unlink(m, f)
         IN  /\ r \in Fields /\ InList(m, f)
             /\ InSeq(r.FrameList) = InSeq(m.FrameList) \ {f}
             /\ r.FrameList # <<>> => r.FrameList[1] = Panels
             /\ r.ModalStack = m.ModalStack /\ NothingAsked(r)
             /\ r.DeactivatedFrame = m.DeactivatedFrame
             /\ r.CurrentFrame = m.CurrentFrame
             /\ \A g \in InSeq(r.FrameList) :
                   InList(r, r.FrameToBack[g]) \/ (g = Panels /\ r.FrameToBack[g] = None)
  <1> DEFINE s == m.FrameList
             t == Without(s, f)
             r == Unlink(m, f)
  <1>1. /\ Sound(m) /\ m \in Fields /\ s \in Seq(Frames) /\ Distinct(s)
        /\ BackIsListed /\ s # <<>>
    BY Grounds, FieldTypes DEF Sound
  <1>2. /\ f \in InSeq(s) /\ f \in Frames /\ f = s[Len(s)]
        /\ Len(s) \in Nat /\ Len(s) > 0 /\ Len(s) \in DOMAIN s
    BY <1>1, LastIs
  <1>3. /\ r.FrameList = t /\ r.ModalStack = m.ModalStack
        /\ r.InsertedFrame = m.InsertedFrame /\ r.DeletedFrame = None
        /\ r.ExecutedFrame = m.ExecutedFrame
        /\ r.DeactivatedFrame = m.DeactivatedFrame
        /\ r.CurrentFrame = m.CurrentFrame
        /\ r.FrameToBack = Backs(m, f)
    BY <1>1, <1>2, UnlinkIs
  <1>4. r \in Fields
    BY <1>1, UnlinkKeeps DEF Keeps, Sound
  <1>5. /\ InSeq(t) = InSeq(s) \ {f}
        /\ s[1] # f => t # <<>> /\ t[1] = s[1]
        /\ Len(t) = Len(s) - 1
    BY <1>1, <1>2, OthersStay DEF LastOf
  <1> HIDE DEF r, t
  <1>6. s[1] = f => t = <<>>
    <2>1. ASSUME s[1] = f PROVE t = <<>>
      <3>1. 1 \in DOMAIN s
        BY <1>1, SeqFacts
      <3>2. Len(s) = 1
        BY <1>1, <1>2, <2>1, <3>1 DEF Distinct
      <3>3. InSeq(s) = {f}
        BY <1>1, <2>1, <3>2, SeqFacts DEF InSeq
      <3>4. InSeq(t) = {}
        BY <1>5, <3>3
      <3>5. t \in Seq(Frames)
        BY <1>3, <1>4, FieldTypes
      <3> QED
        BY <3>4, <3>5, LastIs
    <2> QED
      BY <2>1
  <1>7. ASSUME NEW g \in InSeq(t)
        PROVE  \/ Backs(m, f)[g] \in InSeq(t)
               \/ g = Panels /\ Backs(m, f)[g] = None
    <2>1. s[1] # f
      BY <1>6, <1>7, SeqFacts DEF InSeq
    <2>2. f # Panels /\ Panels \in InSeq(s)
      BY <1>1, <2>1, SeqFacts DEF InSeq
    <2>3. \A h \in InSeq(s) \ {f} :
             \/ InList(m, m.FrameToBack[h])
             \/ m.FrameToBack[h] = f
             \/ h = Panels /\ m.FrameToBack[h] = None
      BY <1>1 DEF BackIsListed
    <2>4. \A h \in InSeq(s) \ {f} :
             \/ Backs(m, f)[h] \in InSeq(s) \ {f}
             \/ h = Panels /\ Backs(m, f)[h] = None
      BY <1>1, <1>2, <2>2, <2>3, BacksAre
    <2> QED
      BY <1>5, <1>7, <2>4
  <1>8. NothingAsked(r)
    BY <1>3 DEF NothingAsked
  <1>9. r.FrameList # <<>> => r.FrameList[1] = Panels
    BY <1>3, <1>5, <1>6
  <1> QED
    BY <1>2, <1>3, <1>4, <1>5, <1>7, <1>8, <1>9 DEF InList, r

LEMMA CloseLastD ==
  ASSUME IInv, DInv, IInv', CloseAll, Ends, m.FrameList # <<>>
  PROVE  DInv'
  <1> DEFINE f == LastOf(m.FrameList)
             r == Unlink(m, f)
             c == DestroyCall(f, TRUE, None)
  <1>1. /\ Top.at = "closeall" /\ UNCHANGED <<kind, endLoop, closing>>
        /\ DeleteCommit(m, f, None, calls)
    BY DEF CloseAll, Ends
  <1>2. /\ CallsTyped /\ Shape(calls) /\ Nested(calls) /\ Places /\ ClosingLeaves
        /\ m.FrameList[1] = Panels /\ m.FrameList \in Seq(Frames)
        /\ closing \subseteq Frames
    BY Grounds, FieldTypes, InvGives DEF Places
  <1>3. /\ NothingAsked(m) /\ m.ModalStack = <<>> /\ m.DeactivatedFrame = None /\ endLoop
        /\ m.CurrentFrame # None => InList(m, m.CurrentFrame)
    BY DEF Ends
  <1>4. f \in Frames /\ f \in InSeq(m.FrameList)
    BY <1>2, LastIs
  <1>5. /\ r \in Fields /\ InList(m, f)
        /\ InSeq(r.FrameList) = InSeq(m.FrameList) \ {f}
        /\ r.FrameList # <<>> => r.FrameList[1] = Panels
        /\ r.ModalStack = m.ModalStack /\ NothingAsked(r)
        /\ r.DeactivatedFrame = m.DeactivatedFrame
        /\ r.CurrentFrame = m.CurrentFrame
        /\ \A g \in InSeq(r.FrameList) :
              InList(r, r.FrameToBack[g]) \/ (g = Panels /\ r.FrameToBack[g] = None)
    BY <1>2, <1>3, LastUnlinked
  <1>6. kind[f] \in {"panels", "window"}
    BY <1>2, <1>4 DEF Places
  <1>7. /\ m' = [r EXCEPT !.CurrentFrame = IF @ = f THEN None ELSE @]
        /\ calls' = Append(calls, c)
    <2>1. InList(m, f) = TRUE
      BY <1>5
    <2> QED
      BY <1>1, <1>6, <2>1 DEF DeleteCommit, DynamicallyBorn, DestroyCall
  <1>8. c \in CallTypes /\ c.at = "destroy" /\ c.frame = f /\ c.then = None
    BY <1>4 DEF CallTypes, DestroyCall, FrameOrNone
  <1> HIDE DEF r, c, f
  <1>9. /\ CallsTyped' /\ Shape(calls') /\ calls'[1] = calls[1] /\ Top' = c
        /\ SameLoops(calls, calls') /\ Nested(calls')
    <2>1. calls # Rest
      <3>1. Len(Rest) # Len(calls)
        BY <1>2, TopIs
      <3> QED
        BY <3>1
    <2> QED
      BY <1>1, <1>2, <1>7, <1>8, <2>1, DestroyShape
  <1>10. UnderDeletion' = {f} /\ Thens' = {} /\ UnderDeletion = {} /\ Thens = {}
    BY <1>1, <1>2, <1>8, <1>9, UnderIs, UnderIsNext
  <1>11. calls[1].at = "closeall"
    <2>1. Len(calls) = 1
      BY <1>1, <1>2, BottomOf DEF CallsTyped, Top
    <2> QED
      BY <1>1, <2>1 DEF Top
  <1>12. /\ m'.FrameList = r.FrameList /\ m'.ModalStack = <<>>
         /\ m'.InsertedFrame = None /\ m'.DeletedFrame = None /\ m'.ExecutedFrame = None
         /\ m'.DeactivatedFrame = None /\ m'.FrameToBack = r.FrameToBack
         /\ m'.CurrentFrame = IF m.CurrentFrame = f THEN None ELSE m.CurrentFrame
    BY <1>3, <1>5, <1>7 DEF Fields, NothingAsked
  <1>13. Places'
    <2>1. calls'[1].at # "main"
      BY <1>9, <1>11
    <2>2. \A g \in InSeq(m'.FrameList) :
             kind'[g] = IF g = Panels THEN "panels" ELSE "window"
      BY <1>1, <1>2, <1>5, <1>12 DEF Places
    <2>3. InSeq(m'.ModalStack) = {}
      BY <1>12 DEF InSeq
    <2>4. ASSUME NEW g \in Frames, kind'[g] = "window"
          PROVE  InList(m', g) \/ g \in UnderDeletion'
      <3>1. InList(m, g)
        <4>1. m.InsertedFrame = None /\ g # None
          BY <1>3, FramesAssumption DEF NothingAsked
        <4> QED
          BY <1>1, <1>2, <1>10, <2>4, <4>1 DEF Places
      <3> QED
        BY <1>5, <1>10, <1>12, <3>1 DEF InList
    <2> QED
      BY <1>5, <1>12, <2>1, <2>2, <2>3, <2>4 DEF Places
  <1>14. BackIsListed'
    BY <1>5, <1>12 DEF BackIsListed, InList
  <1>15. ClosingLeaves'
    <2>1. Pending' = {}
      BY <1>10, <1>12 DEF Pending, ToStack
    <2>2. ASSUME NEW g \in closing'
          PROVE  kind'[g] # "none" /\ ~InList(m', g) /\ ~InStack(m', g)
      <3>1. g \in closing /\ g # None
        BY <1>1, <1>2, <2>2, FramesAssumption
      <3>2. kind[g] # "none" /\ ~InList(m, g)
        BY <1>2, <1>3, <1>10, <3>1 DEF ClosingLeaves, NothingAsked
      <3>3. InSeq(m'.ModalStack) = {}
        BY <1>12 DEF InSeq
      <3>4. kind'[g] # "none" /\ ~InList(m', g)
        BY <1>1, <1>5, <1>12, <3>2 DEF InList
      <3> QED
        BY <3>3, <3>4 DEF InStack
    <2> QED
      BY <2>1, <2>2 DEF ClosingLeaves
  <1>16. Modals(calls) = {}
    BY <1>11, NoModalsAtExit
  <1>17. ModalFrames' /\ Callers'
    <2>1. m'.ModalStack = m.ModalStack
      BY <1>3, <1>12
    <2> QED
      BY <1>9, <1>16, <2>1, LoopsStay
  <1>18. LoopsFit'
    <2>1. Modals(calls') = {} /\ Len(m'.ModalStack) = 0 /\ ~Executes(m)'
      BY <1>9, <1>12, <1>16 DEF SameLoops, Executes
    <2>2. {calls'[k].level : k \in Modals(calls')} = {} /\ 0 .. 0 - 1 = {}
      BY <2>1
    <2> QED
      BY <2>1, <2>2 DEF LoopsFit, LevelsAre
  <1>19. PlanFits'
    <2>1. Ends'
      BY <1>1, <1>3, <1>5, <1>12 DEF Ends, NothingAsked, InList
    <2>2. ~InList(m', f) /\ kind'[f] \in {"panels", "window", "editor"}
      BY <1>1, <1>5, <1>6, <1>12 DEF InList
    <2> QED
      BY <1>8, <1>9, <1>11, <2>1, <2>2 DEF PlanFits, IsLoop
  <1> QED
    BY <1>9, <1>13, <1>14, <1>15, <1>17, <1>18, <1>19 DEF DInv, FramesInv, LoopsInv

LEMMA CloseAllD ==
  ASSUME IInv, DInv, IInv', CloseAll
  PROVE  DInv'
  <1>1. Top.at = "closeall" /\ UNCHANGED <<kind, endLoop, shown, closing>>
    BY DEF CloseAll
  <1>2. Ends
    BY <1>1, Grounds DEF PlanFits
  <1>3. CASE m.FrameList # <<>>
    BY <1>2, <1>3, CloseLastD
  <1>4. CASE m.FrameList = <<>>
    <2>1. calls' = <<[at |-> "exited"]>> /\ m' = m
      BY <1>2, <1>4 DEF CloseAll, Ends
    <2> QED
      BY <1>1, <1>2, <2>1, EndD
  <1> QED
    BY <1>3, <1>4

-----------------------------------------------------------------------------
(* Handlers: one request of the current frame, when nothing is asked yet.   *)
Asks ==
    /\ Top.at = "handler" /\ Top.ops = 0 /\ Top.frame = m.CurrentFrame
    /\ Settled(m) /\ Drawn /\ calls[1].at = "main" /\ ~endLoop
    /\ m.CurrentFrame \in Frames /\ m.CurrentFrame # None
    /\ InList(m, m.CurrentFrame) \/ InStack(m, m.CurrentFrame)
    /\ m.ModalStack = <<>> => InList(m, m.CurrentFrame)
    /\ m.ModalStack # <<>> => InStack(m, m.CurrentFrame)
    /\ m.FrameList # <<>> /\ m.FrameList[1] = Panels
    /\ InList(m, Panels) /\ kind[Panels] = "panels"
    /\ UnderDeletion = {} /\ Thens = {}
    /\ LevelsAre(calls, Len(m.ModalStack))
    /\ kind[m.CurrentFrame] \in {"panels", "window"} =>
          m.ModalStack = <<>> /\ Modals(calls) = {}

LEMMA RunningAsks ==
  ASSUME IInv, DInv, Disciplined, Running
  PROVE  Asks
  <1>1. HandlerOps = 1 /\ PluginUse = {}
    BY DEF Disciplined
  <1>2. Top.at = "handler" /\ Top.ops < HandlerOps /\ ~endLoop
    BY <1>1 DEF Running
  <1>3. Top.ops = 0
    <2>1. Top.ops \in Nat
      BY RunningIs
    <2> QED
      BY <1>1, <1>2, <2>1
  <1>4. Settled(m) /\ Top.frame = m.CurrentFrame
    BY <1>2, <1>3, Grounds DEF PlanFits
  <1>5. Drawn
    <2>1. m.ActivatedFrame = None
      BY <1>4 DEF Settled, NoSwitch
    <2> QED
      BY <1>2, <2>1, Grounds DEF PlanFits
  <1>6. /\ calls[1].at = "main" /\ m.FrameList # <<>> /\ m.FrameList[1] = Panels
        /\ UnderDeletion = {} /\ Thens = {}
    BY <1>2, OnMain
  <1>7. /\ Sound(m) /\ m.FrameList \in Seq(Frames) /\ m.ModalStack \in Seq(Frames)
        /\ Places /\ LoopsFit
    BY Grounds, FieldTypes
  <1>8. /\ m.CurrentFrame \in Frames /\ m.CurrentFrame # None
        /\ m.ModalStack = <<>> => InList(m, m.CurrentFrame)
        /\ m.ModalStack # <<>> => InStack(m, m.CurrentFrame)
    BY <1>4, <1>6, <1>7, HomeIs DEF Settled, InList, InStack
  <1>9. InList(m, Panels) /\ kind[Panels] = "panels"
    <2>1. Panels \in InSeq(m.FrameList)
      BY <1>6, <1>7, SeqFacts DEF InSeq
    <2> QED
      BY <1>7, <2>1 DEF Places, InList
  <1>10. LevelsAre(calls, Len(m.ModalStack))
    <2>1. ~Executes(m)
      BY <1>4 DEF Settled, NothingAsked, Executes
    <2> QED
      BY <1>2, <1>3, <1>7, <2>1 DEF LoopsFit
  <1>11. ASSUME kind[m.CurrentFrame] \in {"panels", "window"}
         PROVE  m.ModalStack = <<>> /\ Modals(calls) = {}
    <2>1. m.ModalStack = <<>>
      BY <1>7, <1>8, <1>11 DEF Places, InStack, ModalKinds
    <2>2. 0 .. Len(m.ModalStack) - 1 = {}
      BY <2>1
    <2>3. {calls[k].level : k \in Modals(calls)} = {}
      BY <1>10, <2>2 DEF LevelsAre
    <2> QED
      BY <2>1, <2>3
  <1> QED
    BY <1>2, <1>3, <1>4, <1>5, <1>6, <1>8, <1>9, <1>10, <1>11 DEF Asks

LEMMA GoesShape ==
  ASSUME IInv, DInv, Asks, NEW ops \in {0, 1}, NEW more \in Seq(CallTypes),
         Len(more) <= 2, Goes(ops, more),
         Len(more) >= 1 => \A c : c.at = "handler" /\ c.ops = ops /\ c.began =>
                                     Follows(c, more[1]),
         Len(more) = 2 => Follows(more[1], more[2]),
         \A i \in 1 .. Len(more) : more[i].at = "nonmodal" => Modals(calls) = {}
  PROVE  /\ CallsTyped' /\ Shape(calls') /\ calls'[1].at = "main"
         /\ Len(more) = 0 => /\ Top'.at = "handler" /\ Top'.ops = ops
                             /\ Top'.frame = Top.frame
         /\ Len(more) # 0 => Top' = more[Len(more)]
         /\ (\A i \in 1 .. Len(more) : more[i].at # "modal") =>
                SameLoops(calls, calls') /\ Nested(calls')
  <1> DEFINE c == [Top EXCEPT !.ops = ops, !.began = TRUE]
  <1>1. /\ CallsTyped /\ Shape(calls) /\ Nested(calls) /\ calls[1].at = "main"
        /\ Top.at = "handler" /\ Top.ops = 0 /\ Top \in CallTypes
        /\ Len(calls) > 1 => Follows(calls[Len(calls) - 1], Top)
    <2>1. CallsTyped /\ Shape(calls) /\ Nested(calls)
      BY Grounds
    <2>2. Len(calls) \in DOMAIN calls /\ Top = calls[Len(calls)] /\ Top \in CallTypes
      BY <2>1, TopIs
    <2> QED
      BY <2>1, <2>2 DEF Shape, Asks
  <1>2. /\ c \in CallTypes /\ Alike(Top, c) /\ c.at = "handler" /\ c.ops = ops
        /\ c.began /\ c.frame = Top.frame
    <2>1. Top \in [at : {"handler"}, frame : Frames, ops : Nat, began : BOOLEAN]
      BY <1>1, CallKinds
    <2>2. ops \in Nat
      OBVIOUS
    <2>3. /\ c \in [at : {"handler"}, frame : Frames, ops : Nat, began : BOOLEAN]
          /\ c.at = "handler" /\ c.ops = ops /\ c.began = TRUE /\ c.frame = Top.frame
      BY <2>1, <2>2
    <2>4. c \in CallTypes
      BY <2>3 DEF CallTypes
    <2> QED
      BY <1>1, <2>3, <2>4 DEF Alike
  <1>3. calls' = Rest \o <<c>> \o more
    BY DEF Goes
  <1> HIDE DEF c
  <1>4. Len(calls) > 1 => Follows(calls[Len(calls) - 1], c)
    <2>1. ASSUME Len(calls) > 1 PROVE Follows(calls[Len(calls) - 1], c)
      BY <1>1, <1>2, <2>1 DEF Follows
    <2> QED
      BY <2>1
  <1>5. Len(more) >= 1 => Follows(c, more[1])
    BY <1>2
  <1>6. /\ CallsTyped' /\ Shape(calls') /\ calls'[1].at = "main"
        /\ Top' = IF Len(more) = 0 THEN c ELSE more[Len(more)]
        /\ (\A i \in 1 .. Len(more) : more[i].at # "modal") =>
               SameLoops(calls, calls') /\ Nested(calls')
    BY <1>1, <1>2, <1>3, <1>4, <1>5, GoShape
  <1> QED
    BY <1>2, <1>6

(* The handler asks for one thing, and perhaps has it carried out at once.  *)
Carry == {<<>>, <<CommitCall(0)>>, <<CommitCall(1)>>}
Asked(more) ==
    /\ Shape(calls') /\ Nested(calls') /\ SameLoops(calls, calls')
    /\ calls'[1].at = "main"
    /\ \/ Top'.at = "handler" /\ Top'.ops = 1
       \/ Top'.at = "commit"
    /\ UnderDeletion' = {} /\ Thens' = {}

LEMMA AskedIs ==
  ASSUME IInv, DInv, Asks, NEW more \in Carry, Goes(1, more)
  PROVE  Asked(more)
  <1>1. \A count \in {0, 1} : /\ CommitCall(count) \in CallTypes
                              /\ CommitCall(count).at = "commit"
    BY CommitCallIs
  <1>2. /\ more \in Seq(CallTypes) /\ (Len(more) = 0 \/ Len(more) = 1)
        /\ \A i \in 1 .. Len(more) : more[i].at = "commit"
    <2>1. CASE more = <<>>
      BY <2>1
    <2>2. ASSUME NEW count \in {0, 1}, more = <<CommitCall(count)>>
          PROVE  /\ more \in Seq(CallTypes) /\ Len(more) = 1
                 /\ \A i \in 1 .. Len(more) : more[i].at = "commit"
      <3> DEFINE c == CommitCall(count)
      <3>1. c \in CallTypes /\ c.at = "commit" /\ more = <<c>>
        BY <1>1, <2>2
      <3> HIDE DEF c
      <3> QED
        BY <3>1
    <2> QED
      BY <2>1, <2>2 DEF Carry
  <1>3. Len(more) >= 1 => \A c : c.at = "handler" /\ c.ops = 1 /\ c.began =>
                                    Follows(c, more[1])
    <2>1. ASSUME Len(more) >= 1 PROVE more[1].at = "commit"
      BY <1>2, <2>1
    <2> QED
      BY <2>1 DEF Follows
  <1>4. Len(more) <= 2 /\ Len(more) # 2
    <2> DEFINE l == Len(more)
    <2>1. l = 0 \/ l = 1
      BY <1>2
    <2> HIDE DEF l
    <2>2. l <= 2 /\ l # 2
      BY <2>1
    <2> QED
      BY <2>2 DEF l
  <1>5. \A i \in 1 .. Len(more) : more[i].at # "nonmodal" /\ more[i].at # "modal"
    BY <1>2
  <1>6. /\ CallsTyped' /\ Shape(calls') /\ calls'[1].at = "main"
        /\ Len(more) = 0 => Top'.at = "handler" /\ Top'.ops = 1
        /\ Len(more) # 0 => Top' = more[Len(more)]
        /\ SameLoops(calls, calls') /\ Nested(calls')
    <2> DEFINE ops == 1
    <2>1. ops \in {0, 1} /\ Goes(ops, more)
      OBVIOUS
    <2>2. Len(more) >= 1 => \A c : c.at = "handler" /\ c.ops = ops /\ c.began =>
                                     Follows(c, more[1])
      BY <1>3
    <2>3. ops = 1
      OBVIOUS
    <2> HIDE DEF ops
    <2> QED
      BY <1>2, <1>4, <1>5, <2>1, <2>2, <2>3, GoesShape
  <1>7. \/ Top'.at = "handler" /\ Top'.ops = 1
        \/ Top'.at = "commit"
    <2>1. Len(more) # 0 => 1 \in 1 .. Len(more) /\ Len(more) = 1
      BY <1>2
    <2> QED
      BY <1>2, <1>6, <2>1
  <1>8. UnderDeletion' = {} /\ Thens' = {}
    BY <1>6, <1>7, UnderIsNext
  <1> QED
    BY <1>6, <1>7, <1>8 DEF Asked

(* The frame made for the request, and the one it is to delete.             *)
Makes(w) ==
    \/ /\ kind' = kind
       /\ m'.InsertedFrame = None /\ m'.ExecutedFrame = None
    \/ /\ Fresh(w) /\ kind' = [kind EXCEPT ![w] = "window"]
       /\ m'.InsertedFrame = w /\ m'.ExecutedFrame = None
    \/ /\ Fresh(w) /\ kind' = [kind EXCEPT ![w] = "editor"]
       /\ m'.InsertedFrame = None /\ m'.ExecutedFrame = w /\ m'.DeletedFrame # None
ToClose ==
    \/ closing' = closing
    \/ /\ closing' = closing \cup {m'.DeletedFrame}
       /\ InList(m, m'.DeletedFrame) \/ InStack(m, m'.DeletedFrame)

LEMMA AskedFrames ==
  ASSUME IInv, DInv, IInv', Asks, NEW w \in Frames, Makes(w), ToClose,
         calls'[1].at = "main", UnderDeletion' = {}, Thens' = {},
         SameLists(m, m'), m'.FrameToBack = m.FrameToBack
  PROVE  FramesInv'
  <1>1. /\ Places /\ BackIsListed /\ ClosingLeaves /\ kind \in [Frames -> Kinds]
        /\ m.FrameList \in Seq(Frames) /\ m.ModalStack \in Seq(Frames)
        /\ closing \subseteq Frames
    BY Grounds, InvGives, FieldTypes
  <1>2. /\ m.FrameList # <<>> /\ m.FrameList[1] = Panels
        /\ UnderDeletion = {} /\ Thens = {}
        /\ m.InsertedFrame = None /\ m.DeletedFrame = None /\ m.ExecutedFrame = None
    BY DEF Asks, Settled, NothingAsked
  <1>3. /\ m'.FrameList = m.FrameList /\ m'.ModalStack = m.ModalStack
        /\ InSeq(m.FrameList) \subseteq Frames /\ InSeq(m.ModalStack) \subseteq Frames
    BY <1>1, SeqFacts DEF SameLists
  <1>4. kind' # kind => /\ kind[w] = "none" /\ w # None
                        /\ ~InList(m, w) /\ ~InStack(m, w) /\ w \notin closing
    <2>1. ASSUME Fresh(w) PROVE w # None /\ ~InList(m, w) /\ ~InStack(m, w) /\ kind[w] = "none"
      BY <2>1, FreshIsNew DEF Known, InList, InStack, Fresh
    <2> QED
      BY <1>1, <2>1 DEF Makes, ClosingLeaves
  <1>5. /\ \A g \in Frames : g # w => kind'[g] = kind[g]
        /\ kind' # kind => kind'[w] \in {"window", "editor"}
    BY <1>1 DEF Makes
  <1>6. \A g \in InSeq(m.FrameList) \cup InSeq(m.ModalStack) : kind'[g] = kind[g]
    BY <1>3, <1>4, <1>5 DEF InList, InStack
  <1>7. Places'
    <2>1. \A g \in InSeq(m'.FrameList) :
             kind'[g] = IF g = Panels THEN "panels" ELSE "window"
      BY <1>1, <1>3, <1>6 DEF Places
    <2>2. \A g \in InSeq(m'.ModalStack) : kind'[g] \in ModalKinds
      BY <1>1, <1>3, <1>6 DEF Places
    <2>3. /\ m'.InsertedFrame # None => kind'[m'.InsertedFrame] = "window"
          /\ m'.ExecutedFrame # None => /\ kind'[m'.ExecutedFrame] = "editor"
                                        /\ m'.DeletedFrame # None
      BY <1>1 DEF Makes
    <2>4. ASSUME NEW g \in Frames, kind'[g] = "window"
          PROVE  InList(m', g) \/ g = m'.InsertedFrame
      <3>1. CASE kind[g] = "window"
        <4>1. g # None
          BY FramesAssumption
        <4>2. InList(m, g)
          BY <1>1, <1>2, <3>1, <4>1 DEF Places
        <4> QED
          BY <1>3, <4>2 DEF InList
      <3>2. CASE kind[g] # "window"
        BY <1>1, <2>4, <3>2 DEF Makes
      <3> QED
        BY <3>1, <3>2
    <2> QED
      BY <1>2, <1>3, <2>1, <2>2, <2>3, <2>4 DEF Places
  <1>8. BackIsListed'
    BY <1>1, <1>3 DEF BackIsListed, InList
  <1>9. ClosingLeaves'
    <2>1. Pending' \subseteq IF kind' = kind THEN {} ELSE {w}
      <3>1. Pending' = ({m'.ExecutedFrame} \ {None}) \cup ({m'.InsertedFrame} \ {None})
        BY DEF Pending, ToStack
      <3>2. \/ kind' = kind /\ m'.InsertedFrame = None /\ m'.ExecutedFrame = None
            \/ /\ kind' # kind
               /\ m'.InsertedFrame \in {None, w} /\ m'.ExecutedFrame \in {None, w}
        <4>1. ASSUME Fresh(w), NEW k \in {"window", "editor"},
                     kind' = [kind EXCEPT ![w] = k]
              PROVE  kind' # kind
          <5>1. kind[w] = "none" /\ kind'[w] = k
            BY <1>1, <4>1 DEF Fresh
          <5> QED
            BY <5>1
        <4> QED
          BY <4>1 DEF Makes
      <3> QED
        BY <3>1, <3>2
    <2>2. closing' \cap Pending' = {}
      BY <1>4, <2>1 DEF ToClose
    <2>3. ASSUME NEW g \in closing'
          PROVE  /\ kind'[g] # "none"
                 /\ g = m'.DeletedFrame \/ (~InList(m', g) /\ ~InStack(m', g))
      <3>1. CASE g \in closing
        <4>1. kind[g] # "none" /\ ~InList(m, g) /\ ~InStack(m, g)
          <5>1. g # None
            BY <1>1, <3>1, FramesAssumption
          <5> QED
            BY <1>1, <1>2, <3>1, <5>1 DEF ClosingLeaves
        <4>2. kind'[g] # "none"
          BY <1>1, <1>4, <1>5, <3>1, <4>1
        <4> QED
          BY <1>3, <4>1, <4>2 DEF InList, InStack
      <3>2. CASE g \notin closing
        <4>1. g = m'.DeletedFrame /\ g \in InSeq(m.FrameList) \cup InSeq(m.ModalStack)
          BY <2>3, <3>2 DEF ToClose, InList, InStack
        <4>2. kind[g] # "none"
          BY <1>1, <4>1 DEF Places, ModalKinds
        <4> QED
          BY <1>6, <4>1, <4>2
      <3> QED
        BY <3>1, <3>2
    <2> QED
      BY <2>2, <2>3 DEF ClosingLeaves
  <1> QED
    BY <1>7, <1>8, <1>9 DEF FramesInv

LEMMA AskD ==
  ASSUME IInv, DInv, IInv', Asks, NEW w \in Frames, Makes(w), ToClose,
         NEW more \in Carry, Goes(1, more),
         SameLists(m, m'), m'.FrameToBack = m.FrameToBack,
         Modals(calls) = {} \/ m'.FramePos = m.FramePos,
         m'.RefreshedFrame = m.RefreshedFrame, m'.CurrentFrame = m.CurrentFrame,
         shown' = shown, Plans(m')
  PROVE  DInv'
  <1>1. /\ Shape(calls') /\ Nested(calls') /\ SameLoops(calls, calls')
        /\ calls'[1].at = "main"
        /\ \/ Top'.at = "handler" /\ Top'.ops = 1
           \/ Top'.at = "commit"
        /\ UnderDeletion' = {} /\ Thens' = {}
    BY AskedIs DEF Asked
  <1>2. FramesInv'
    BY <1>1, AskedFrames
  <1>3. \A k \in Modals(calls) : /\ calls[k].frame \in Frames
                                 /\ kind[calls[k].frame] \in {"dialog", "viewer"}
    BY Grounds, ModalIs DEF CallsTyped, MainIsAtTheBottom, ModalFrames
  <1>4. kind \in [Frames -> Kinds]
    BY InvGives
  <1>5. \A k \in Modals(calls) : /\ kind'[calls[k].frame] = kind[calls[k].frame]
                                 /\ m'.ExecutedFrame # calls[k].frame
    <2>1. ASSUME NEW k \in Modals(calls), Fresh(w) PROVE calls[k].frame # w
      BY <1>3, <2>1 DEF Fresh
    <2> QED
      BY <1>3, <1>4, <2>1, FramesAssumption DEF Makes
  <1>6. /\ ModalFrames' /\ Callers'
        /\ \A n : LevelsAre(calls, n) => LevelsAre(calls', n)
    <2>1. Modals(calls) = {} \/ Below(m', 0) = Below(m, 0)
      BY DEF Below, SameLists
    <2>2. m'.ModalStack = m.ModalStack
      BY DEF SameLists
    <2> QED
      BY <1>1, <1>5, <2>1, <2>2, LoopsStay
  <1>7. ~Executes(m')
    BY DEF Plans, Executes, Settled, Opens, Closes, Switches, Starts, NothingAsked
  <1>8. LoopsFit'
    <2>1. LevelsAre(calls', Len(m'.ModalStack))
      BY <1>6 DEF Asks, SameLists
    <2> QED
      BY <1>7, <2>1 DEF LoopsFit
  <1>9. PlanFits'
    <2>1. Plans(m)' /\ Drawn'
      BY DEF Asks, Drawn
    <2> QED
      BY <1>1, <2>1 DEF PlanFits, IsLoop
  <1> QED
    BY <1>1, <1>2, <1>6, <1>8, <1>9 DEF DInv, LoopsInv

LEMMA GoesOnce ==
  ASSUME Disciplined, Asks, NEW more, Did(more) \/ Finish(more)
  PROVE  Goes(1, more)
  <1>1. HandlerOps = 1 /\ Top.ops = 0
    BY DEF Disciplined, Asks
  <1>2. Top.ops + 1 = 1
    BY <1>1
  <1> QED
    BY <1>1, <1>2 DEF Did, Finish

(* The fields a request leaves alone.                                       *)
Leaves(r) ==
    /\ SameLists(m, r) /\ r.FramePos = m.FramePos /\ r.FrameToBack = m.FrameToBack
    /\ r.CurrentFrame = m.CurrentFrame /\ r.RefreshedFrame = m.RefreshedFrame
    /\ NoSwitch(r)

LEMMA HomeStays ==
  ASSUME Asks, NEW r, Leaves(r)
  PROVE  AtHome(r)
  BY DEF Asks, Settled, AtHome, Leaves, SameLists, Below

(* One request for frames to be made, shown or deleted.                     *)
LEMMA RequestD ==
  ASSUME IInv, DInv, IInv', Asks, NEW w \in Frames, Makes(w), ToClose,
         NEW more \in Carry, Goes(1, more), Leaves(m'), shown' = shown,
         Opens(m') \/ Closes(m')
  PROVE  DInv'
  <1>1. /\ SameLists(m, m') /\ m'.FrameToBack = m.FrameToBack
        /\ m'.FramePos = m.FramePos
        /\ m'.RefreshedFrame = m.RefreshedFrame /\ m'.CurrentFrame = m.CurrentFrame
    BY DEF Leaves
  <1>2. Plans(m')
    BY DEF Plans
  <1> QED
    BY <1>1, <1>2, AskD

(* Nothing opens a window but what can lose focus.                          *)
LEMMA OpenersAre ==
  ASSUME Asks, MayOpenWindow
  PROVE  m.ModalStack = <<>> /\ Modals(calls) = {} /\ CanLoseFocus(m.CurrentFrame)
  BY DEF Asks, MayOpenWindow, CanLoseFocus

LEMMA OpenWindowD ==
  ASSUME IInv, DInv, IInv', Disciplined, NEW w \in Frames, OpenWindow(w)
  PROVE  DInv'
  <1>1. /\ Running /\ Fresh(w) /\ MayOpenWindow /\ kind' = [kind EXCEPT ![w] = "window"]
        /\ m' = InsertFrame(m, w) /\ Did(<<>>) /\ shown' = shown /\ closing' = closing
    BY DEF OpenWindow
  <1>2. Asks /\ m \in Fields
    BY <1>1, RunningAsks, Grounds
  <1>3. NothingAsked(m) /\ NoSwitch(m) /\ m.ModalStack = <<>> /\ w # None
    BY <1>1, <1>2, OpenersAre, FramesAssumption DEF Asks, Settled
  <1>4. /\ Leaves(m') /\ m'.InsertedFrame = w /\ m'.DeletedFrame = None
        /\ m'.ExecutedFrame = None
    BY <1>1, <1>2, <1>3
       DEF Fields, InsertFrame, Leaves, SameLists, NoSwitch, NothingAsked
  <1>5. AtHome(m')
    BY <1>2, <1>4, HomeStays
  <1>6. Opens(m')
    BY <1>3, <1>4, <1>5 DEF Opens, Leaves, SameLists
  <1>7. Makes(w) /\ ToClose
    BY <1>1, <1>4 DEF Makes, ToClose
  <1>8. Goes(1, <<>>) /\ <<>> \in Carry
    BY <1>1, <1>2, GoesOnce DEF Carry
  <1> QED
    BY <1>1, <1>2, <1>4, <1>6, <1>7, <1>8, RequestD

LEMMA ReloadFileD ==
  ASSUME IInv, DInv, IInv', Disciplined, NEW g \in Frames, NEW w \in Frames,
         ReloadFile(g, w)
  PROVE  DInv'
  <1>1. /\ Running /\ Fresh(w) /\ MayOpenWindow /\ InList(m, g) /\ kind[g] = "window"
        /\ kind' = [kind EXCEPT ![w] = "window"] /\ closing' = closing \cup {g}
        /\ m' = InsertFrame(DeleteFrame(m, g), w) /\ Did(<<>>) /\ shown' = shown
    BY DEF ReloadFile
  <1>2. Asks /\ m \in Fields
    BY <1>1, RunningAsks, Grounds
  <1>3. /\ NothingAsked(m) /\ NoSwitch(m) /\ m.ModalStack = <<>> /\ w # None /\ g # None
        /\ g # Panels
    <2>1. g # Panels
      BY <1>1, <1>2 DEF Asks
    <2> QED
      BY <1>1, <1>2, <2>1, OpenersAre, FramesAssumption DEF Asks, Settled
  <1>4. m' = [m EXCEPT !.DeletedFrame = g, !.InsertedFrame = w]
    BY <1>1, <1>3 DEF InsertFrame, DeleteFrame
  <1>5. /\ Leaves(m') /\ m'.InsertedFrame = w /\ m'.DeletedFrame = g
        /\ m'.ExecutedFrame = None
    BY <1>2, <1>3, <1>4 DEF Fields, Leaves, SameLists, NoSwitch, NothingAsked
  <1>6. AtHome(m')
    BY <1>2, <1>5, HomeStays
  <1>7. Opens(m')
    BY <1>1, <1>3, <1>5, <1>6 DEF Opens, Leaves, SameLists, InList
  <1>8. Makes(w) /\ ToClose
    BY <1>1, <1>5 DEF Makes, ToClose
  <1>9. Goes(1, <<>>) /\ <<>> \in Carry
    BY <1>1, <1>2, GoesOnce DEF Carry
  <1> QED
    BY <1>1, <1>2, <1>5, <1>7, <1>8, <1>9, RequestD

(* The current frame is to be deleted, with a frame in its place or not.    *)
LEMMA ClosingD ==
  ASSUME IInv, DInv, IInv', Asks, NEW w \in Frames, Makes(w),
         closing' = closing \cup {m.CurrentFrame}, kind[m.CurrentFrame] # "panels",
         NEW more \in Carry, Goes(1, more), Leaves(m'), shown' = shown,
         m'.DeletedFrame = m.CurrentFrame,
         \/ m'.InsertedFrame = None /\ (m'.ExecutedFrame # None => m.ModalStack # <<>>)
         \/ m'.InsertedFrame # None /\ m'.ExecutedFrame = None /\ m.ModalStack = <<>>
  PROVE  DInv'
  <1>1. /\ m.CurrentFrame # None /\ m.CurrentFrame # Panels
        /\ InList(m, m.CurrentFrame) \/ InStack(m, m.CurrentFrame)
        /\ m.ModalStack = <<>> => InList(m, m.CurrentFrame)
    BY DEF Asks
  <1>2. AtHome(m')
    BY HomeStays
  <1>3. /\ NoSwitch(m') /\ m'.CurrentFrame = m.CurrentFrame /\ m'.ModalStack = m.ModalStack
        /\ m'.FrameList = m.FrameList
    BY DEF Leaves, SameLists
  <1>4. CASE m'.InsertedFrame = None /\ (m'.ExecutedFrame # None => m.ModalStack # <<>>)
    <2>1. Closes(m')
      BY <1>1, <1>2, <1>3, <1>4 DEF Closes
    <2>2. ToClose
      BY <1>1 DEF ToClose
    <2> QED
      BY <2>1, <2>2, RequestD
  <1>5. CASE m'.InsertedFrame # None /\ m'.ExecutedFrame = None /\ m.ModalStack = <<>>
    <2>1. Opens(m')
      BY <1>1, <1>2, <1>3, <1>5 DEF Opens, InList
    <2>2. ToClose
      BY <1>1 DEF ToClose
    <2> QED
      BY <2>1, <2>2, RequestD
  <1> QED
    BY <1>4, <1>5

LEMMA ReplaceFrameD ==
  ASSUME IInv, DInv, IInv', Disciplined, NEW w \in Frames, ReplaceFrame(w)
  PROVE  DInv'
  <1> DEFINE f == m.CurrentFrame
  <1>1. /\ Running /\ Fresh(w) /\ kind[Top.frame] \in {"window", "viewer", "editor"}
        /\ closing' = closing \cup {Top.frame} /\ Finish(<<>>) /\ shown' = shown
    BY DEF ReplaceFrame, Keys
  <1>2. Asks /\ m \in Fields /\ Top.frame = f
    BY <1>1, RunningAsks, Grounds DEF Asks
  <1>3. NothingAsked(m) /\ NoSwitch(m) /\ w # None /\ f # None
    BY <1>2, FramesAssumption DEF Asks, Settled
  <1>4. Goes(1, <<>>) /\ <<>> \in Carry
    BY <1>1, <1>2, GoesOnce DEF Carry
  <1>5. CASE kind[f] = "window"
    <2>1. /\ kind' = [kind EXCEPT ![w] = "window"]
          /\ m' = DeleteFrame(InsertFrame(m, w), f)
      BY <1>2, <1>5 DEF ReplaceFrame
    <2>2. m' = [m EXCEPT !.InsertedFrame = w, !.DeletedFrame = f]
      BY <1>3, <2>1 DEF DeleteFrame, InsertFrame
    <2>3. /\ Leaves(m') /\ m'.InsertedFrame = w /\ m'.DeletedFrame = f
          /\ m'.ExecutedFrame = None
      BY <1>2, <1>3, <2>2 DEF Fields, Leaves, SameLists, NoSwitch, NothingAsked
    <2>4. m.ModalStack = <<>>
      BY <1>2, <1>5 DEF Asks
    <2>5. Makes(w)
      BY <1>1, <2>1, <2>3 DEF Makes
    <2>6. kind[f] # "panels" /\ closing' = closing \cup {f}
      BY <1>1, <1>2, <1>5
    <2> QED
      BY <1>1, <1>2, <1>3, <1>4, <2>3, <2>4, <2>5, <2>6, ClosingD
  <1>6. CASE kind[f] # "window"
    <2>1. /\ kind' = [kind EXCEPT ![w] = "editor"]
          /\ m' = DeleteFrame(ExecuteFrame(m, w), f)
          /\ kind[f] \in {"viewer", "editor"}
      BY <1>1, <1>2, <1>6 DEF ReplaceFrame
    <2>2. m' = [m EXCEPT !.ExecutedFrame = w, !.DeletedFrame = f]
      BY <1>3, <2>1 DEF DeleteFrame, ExecuteFrame
    <2>3. /\ Leaves(m') /\ m'.InsertedFrame = None /\ m'.DeletedFrame = f
          /\ m'.ExecutedFrame = w
      BY <1>2, <1>3, <2>2 DEF Fields, Leaves, SameLists, NoSwitch, NothingAsked
    <2>4. m.ModalStack # <<>>
      <3>1. Places
        BY Grounds
      <3> QED
        BY <1>2, <2>1, <3>1 DEF Asks, Places, InList
    <2>5. Makes(w)
      BY <1>1, <1>3, <2>1, <2>3 DEF Makes
    <2>6. kind[f] # "panels" /\ closing' = closing \cup {f}
      BY <1>1, <1>2, <2>1
    <2> QED
      BY <1>1, <1>2, <1>3, <1>4, <2>3, <2>4, <2>5, <2>6, ClosingD
  <1> QED
    BY <1>5, <1>6

LEMMA DeleteCurrentD ==
  ASSUME IInv, DInv, IInv', Asks, UNCHANGED <<kind, shown>>,
         m' = [m EXCEPT !.DeletedFrame = m.CurrentFrame],
         closing' = closing \cup {m.CurrentFrame}, kind[m.CurrentFrame] # "panels",
         NEW more \in Carry, Goes(1, more)
  PROVE  DInv'
  <1>1. m \in Fields /\ NothingAsked(m) /\ NoSwitch(m)
    BY Grounds DEF Asks, Settled
  <1>2. /\ Leaves(m') /\ m'.InsertedFrame = None /\ m'.ExecutedFrame = None
        /\ m'.DeletedFrame = m.CurrentFrame
    BY <1>1 DEF Fields, Leaves, SameLists, NoSwitch, NothingAsked
  <1> DEFINE w == Panels
  <1>3. w \in Frames /\ Makes(w)
    BY <1>2, FramesAssumption DEF Makes
  <1> HIDE DEF w
  <1> QED
    BY <1>2, <1>3, ClosingD

LEMMA CloseFrameD ==
  ASSUME IInv, DInv, IInv', Disciplined, CloseFrame
  PROVE  DInv'
  <1>1. /\ Running /\ kind[Top.frame] # "panels" /\ UNCHANGED <<kind, shown>>
        /\ closing' = closing \cup {Top.frame}
        /\ \/ m' = DeleteFrame(m, Top.frame) /\ Finish(<<CommitCall(1)>>)
           \/ m' = DeleteFrame(m, None) /\ Finish(<<>>)
    BY DEF CloseFrame, Keys
  <1>2. Asks
    BY <1>1, RunningAsks
  <1>3. Top.frame = m.CurrentFrame /\ m.CurrentFrame # None
    BY <1>2 DEF Asks
  <1>4. m' = [m EXCEPT !.DeletedFrame = m.CurrentFrame]
    BY <1>1, <1>3 DEF DeleteFrame
  <1>5. \E more \in Carry : Goes(1, more)
    BY <1>1, <1>2, GoesOnce DEF Carry
  <1> QED
    BY <1>1, <1>2, <1>3, <1>4, <1>5, DeleteCurrentD

LEMMA QuitViewerD ==
  ASSUME IInv, DInv, IInv', Disciplined, NEW g \in Frames, QuitViewer(g)
  PROVE  DInv'
  <1>1. /\ Running /\ kind[g] = "window" /\ UNCHANGED <<kind, shown>>
        /\ closing' = closing \cup {g} /\ m' = DeleteFrame(m, g)
        /\ Did(<<CommitCall(0)>>)
        /\ g = m.CurrentFrame
    BY DEF QuitViewer, Disciplined
  <1>2. Asks
    BY <1>1, RunningAsks
  <1>3. m' = [m EXCEPT !.DeletedFrame = m.CurrentFrame] /\ m.CurrentFrame # None
    BY <1>1, <1>2, FramesAssumption DEF DeleteFrame
  <1>4. <<CommitCall(0)>> \in Carry /\ Goes(1, <<CommitCall(0)>>)
    BY <1>1, <1>2, GoesOnce DEF Carry
  <1>5. kind[m.CurrentFrame] # "panels" /\ closing' = closing \cup {m.CurrentFrame}
    BY <1>1
  <1>6. \E more \in Carry : Goes(1, more)
    BY <1>4
  <1> QED
    BY <1>1, <1>2, <1>3, <1>5, <1>6, DeleteCurrentD

(* The handler asks for nothing that concerns a frame.                      *)
LEMMA AskNothingD ==
  ASSUME IInv, DInv, IInv', Asks, UNCHANGED <<m, kind, shown, closing>>,
         NEW more \in Carry, Goes(1, more)
  PROVE  DInv'
  <1>1. Plans(m') /\ m'.InsertedFrame = None /\ m'.ExecutedFrame = None
    BY DEF Asks, Plans, Settled, NothingAsked
  <1>2. SameLists(m, m') /\ ToClose
    BY DEF SameLists, ToClose
  <1> DEFINE w == Panels
  <1>3. w \in Frames /\ Makes(w)
    BY <1>1, FramesAssumption DEF Makes
  <1> HIDE DEF w
  <1> QED
    BY <1>1, <1>2, <1>3, AskD

LEMMA PluginCommitD ==
  ASSUME IInv, DInv, IInv', Disciplined, PluginCommit
  PROVE  DInv'
  <1>1. Running /\ Did(<<CommitCall(0)>>) /\ UNCHANGED <<m, kind, shown, closing>>
    BY DEF PluginCommit
  <1>2. Asks
    BY <1>1, RunningAsks
  <1>3. \E more \in Carry : Goes(1, more)
    BY <1>1, <1>2, GoesOnce DEF Carry
  <1> QED
    BY <1>1, <1>2, <1>3, AskNothingD

LEMMA ExitMainLoopD ==
  ASSUME IInv, DInv, IInv', Disciplined, ExitMainLoop
  PROVE  DInv'
  <1>1. Running /\ Finish(<<>>) /\ UNCHANGED <<m, kind, shown, closing>>
    BY DEF ExitMainLoop, Keys
  <1>2. Asks
    BY <1>1, RunningAsks
  <1>3. \E more \in Carry : Goes(1, more)
    BY <1>1, <1>2, GoesOnce DEF Carry
  <1> QED
    BY <1>1, <1>2, <1>3, AskNothingD

(* A switch between the frames of the list.                                 *)
LEMMA SwitchesD ==
  ASSUME IInv, DInv, IInv', Asks, UNCHANGED <<kind, shown, closing>>,
         m.ModalStack = <<>>, Modals(calls) = {},
         NEW act \in FrameOrNone, act # None => InList(m, act),
         NEW pos \in Nat,
         \/ pos = m.FramePos
         \/ act = m.FrameList[pos + 1],
         NEW deact \in {None, m.CurrentFrame},
         m' = [m EXCEPT !.ActivatedFrame = act, !.FramePos = pos,
                        !.DeactivatedFrame = deact],
         Goes(1, <<>>)
  PROVE  DInv'
  <1>1. /\ m \in Fields /\ NothingAsked(m) /\ NoSwitch(m) /\ AtHome(m)
        /\ InList(m, m.CurrentFrame) /\ m.FrameList # <<>>
    BY Grounds DEF Asks, Settled
  <1>2. /\ m'.FrameList = m.FrameList /\ m'.ModalStack = m.ModalStack
        /\ m'.FrameToBack = m.FrameToBack /\ m'.CurrentFrame = m.CurrentFrame
        /\ m'.RefreshedFrame = m.RefreshedFrame
        /\ m'.ActivatedFrame = act /\ m'.DeactivatedFrame = deact /\ m'.FramePos = pos
        /\ m'.InsertedFrame = None /\ m'.DeletedFrame = None /\ m'.ExecutedFrame = None
    BY <1>1 DEF Fields, NothingAsked
  <1>3. act \in {None, m.CurrentFrame} => AtHome(m')
    <2>1. m.CurrentFrame = m.FrameList[m.FramePos + 1]
      BY <1>1 DEF AtHome, Below
    <2>2. Below(m', Len(m'.ModalStack)) = m.FrameList[pos + 1]
      BY <1>2 DEF Below
    <2>3. CASE pos = m.FramePos
      BY <1>2, <2>1, <2>2, <2>3 DEF AtHome
    <2>4. CASE act = m.FrameList[pos + 1] /\ act = m.CurrentFrame
      BY <1>2, <2>2, <2>4 DEF AtHome
    <2>5. CASE act = None /\ act = m.FrameList[pos + 1] /\ pos # m.FramePos
      <3>1. Sound(m')
        BY InvGives DEF IInv, TypeOK, NoFrameTwice, Sound, Distinct
      <3>2. pos + 1 \in DOMAIN m'.FrameList /\ m'.FrameList \in Seq(Frames)
        BY <1>1, <1>2, <3>1, PosIs, FieldTypes DEF Sound
      <3>3. m'.FrameList[pos + 1] \in Frames
        BY <3>2, SeqFacts
      <3> QED
        BY <1>2, <2>5, <3>3, FramesAssumption
    <2> QED
      BY <2>3, <2>4, <2>5
  <1>4. Plans(m')
    <2>1. Switches(m')
      BY <1>1, <1>2, <1>3 DEF Switches, NothingAsked, InList
    <2> QED
      BY <2>1 DEF Plans
  <1> DEFINE w == Panels
             more == <<>>
  <1>5. w \in Frames /\ Makes(w) /\ ToClose /\ more \in Carry /\ Goes(1, more)
    BY <1>2, FramesAssumption DEF Makes, ToClose, Carry
  <1> HIDE DEF w, more
  <1>6. SameLists(m, m')
    BY <1>2 DEF SameLists
  <1> QED
    BY <1>2, <1>4, <1>5, <1>6, AskD

LEMMA SwitchToOpenFileD ==
  ASSUME IInv, DInv, IInv', Disciplined, NEW g \in Frames, SwitchToOpenFile(g)
  PROVE  DInv'
  <1>1. /\ Running /\ MayOpenWindow /\ InList(m, g) /\ m' = ActivateFrame(m, g)
        /\ Did(<<>>) /\ UNCHANGED <<kind, shown, closing>>
    BY DEF SwitchToOpenFile
  <1>2. Asks /\ m \in Fields /\ Goes(1, <<>>)
    BY <1>1, RunningAsks, Grounds, GoesOnce
  <1>3. m.ModalStack = <<>> /\ Modals(calls) = {}
    BY <1>1, <1>2, OpenersAre
  <1>4. g # None /\ m.ActivatedFrame = None /\ m.DeactivatedFrame = None
    BY <1>2, FramesAssumption DEF Asks, Settled, NoSwitch
  <1>5. m' = [m EXCEPT !.ActivatedFrame = g]
    BY <1>1, <1>4 DEF ActivateFrame
  <1> DEFINE act == g
             pos == m.FramePos
             deact == m.DeactivatedFrame
  <1>6. m' = [m EXCEPT !.ActivatedFrame = act, !.FramePos = pos,
                       !.DeactivatedFrame = deact]
    BY <1>2, <1>5 DEF Fields
  <1>7. /\ act \in FrameOrNone /\ InList(m, act) /\ pos \in Nat
        /\ pos = m.FramePos /\ deact \in {None, m.CurrentFrame}
    BY <1>1, <1>2, <1>4, FieldTypes DEF FrameOrNone
  <1> HIDE DEF act, pos, deact
  <1> QED
    BY <1>1, <1>2, <1>3, <1>6, <1>7, SwitchesD, Zenon

LEMMA SwitchFrameD ==
  ASSUME IInv, DInv, IInv', Disciplined, NEW direction \in {-1, 1},
         SwitchFrame(direction)
  PROVE  DInv'
  <1> DEFINE n == Len(m.FrameList)
             pos == (m.FramePos + direction + n) % n
             m1 == [m EXCEPT !.FramePos = pos]
             act == m.FrameList[pos + 1]
             deact == m.CurrentFrame
  <1>1. /\ Running /\ CanLoseFocus(m.CurrentFrame)
        /\ m' = DeactivateFrame(m, m.CurrentFrame, direction)
        /\ Finish(<<>>) /\ UNCHANGED <<kind, shown, closing>>
    BY DEF SwitchFrame, Keys
  <1>2. Asks /\ m \in Fields /\ Sound(m) /\ Goes(1, <<>>)
    BY <1>1, RunningAsks, Grounds, GoesOnce
  <1>3. m.ModalStack = <<>> /\ Modals(calls) = {}
    BY <1>1, <1>2 DEF Asks, CanLoseFocus
  <1>4. /\ m.FrameList \in Seq(Frames) /\ m.FrameList # <<>> /\ n \in Nat /\ n # 0
        /\ DOMAIN m.FrameList = 1 .. n /\ m.FramePos \in Nat
        /\ m.FramePos = 0 \/ m.FramePos < n
        /\ m.ActivatedFrame = None
    BY <1>2, FieldTypes, SeqFacts DEF Asks, Settled, NoSwitch, Sound
  <1>5. pos \in Nat /\ pos < n
    <2>1. direction \in {-1, 0, 1}
      OBVIOUS
    <2> QED
      BY <1>4, <2>1, Around
  <1>6. direction # 0
    OBVIOUS
  <1>7. m' = [m EXCEPT !.ActivatedFrame = act, !.FramePos = pos,
                       !.DeactivatedFrame = deact]
    <2>1. m' = [ActivateIndex(m1, pos) EXCEPT !.DeactivatedFrame = deact]
      BY <1>1, <1>4, <1>6 DEF DeactivateFrame
    <2> HIDE DEF n, pos, deact
    <2>2. /\ m1.ActivatedFrame = None /\ m1.FrameList = m.FrameList
      BY <1>2, <1>4 DEF Fields
    <2>3. pos < Len(m.FrameList)
      BY <1>5 DEF n
    <2>4. ActivateIndex(m1, pos) = [m1 EXCEPT !.ActivatedFrame = act]
      BY <2>2, <2>3 DEF ActivateIndex
    <2> QED
      BY <1>2, <2>1, <2>4 DEF Fields
  <1> HIDE DEF pos, n
  <1>8. act \in Frames /\ act \in InSeq(m.FrameList)
    <2>1. pos + 1 \in DOMAIN m.FrameList
      BY <1>4, <1>5
    <2> QED
      BY <1>4, <2>1, SeqFacts DEF InSeq
  <1>9. act \in FrameOrNone /\ InList(m, act) /\ deact \in {None, m.CurrentFrame}
        /\ act = m.FrameList[pos + 1]
    BY <1>8 DEF FrameOrNone, InList
  <1> HIDE DEF act, deact
  <1> QED
    BY <1>1, <1>2, <1>3, <1>5, <1>7, <1>9, SwitchesD, Zenon

LEMMA ChooseD ==
  ASSUME IInv, DInv, IInv', Asks, UNCHANGED <<kind, shown, closing>>,
         CanLoseFocus(m.CurrentFrame), Goes(1, <<>>),
         NEW index \in Nat, NEW f \in {None, m.CurrentFrame},
         m' = DeactivateFrame(ActivateIndex(m, index), f, 0)
  PROVE  DInv'
  <1> DEFINE a == ActivateIndex(m, index)
             act == IF index < Len(m.FrameList) THEN m.FrameList[index + 1] ELSE None
             pos == m.FramePos
  <1>1. m.ModalStack = <<>> /\ Modals(calls) = {} /\ m.ActivatedFrame = None
    BY DEF Asks, Settled, NoSwitch, CanLoseFocus
  <1>2. /\ m \in Fields /\ m.FrameList \in Seq(Frames) /\ pos \in Nat
        /\ Len(m.FrameList) \in Nat /\ DOMAIN m.FrameList = 1 .. Len(m.FrameList)
    BY Grounds, FieldTypes, SeqFacts
  <1>3. a = [m EXCEPT !.ActivatedFrame = act]
    <2>1. CASE index < Len(m.FrameList)
      BY <1>1, <2>1 DEF ActivateIndex
    <2>2. CASE ~(index < Len(m.FrameList))
      <3>1. a = m
        BY <2>2 DEF ActivateIndex
      <3>2. act = m.ActivatedFrame
        BY <1>1, <2>2
      <3> HIDE DEF a, act
      <3> QED
        BY <1>2, <3>1, <3>2 DEF Fields
    <2> QED
      BY <2>1, <2>2
  <1>4. m' = [a EXCEPT !.DeactivatedFrame = f]
    BY DEF DeactivateFrame
  <1>5. m' = [m EXCEPT !.ActivatedFrame = act, !.FramePos = pos, !.DeactivatedFrame = f]
    <2> HIDE DEF a, act
    <2> QED
      BY <1>2, <1>3, <1>4 DEF Fields
  <1>6. act \in FrameOrNone /\ (act # None => InList(m, act)) /\ pos = m.FramePos
    <2>1. ASSUME index < Len(m.FrameList)
          PROVE  act \in Frames /\ act \in InSeq(m.FrameList)
      <3>1. index + 1 \in DOMAIN m.FrameList
        BY <1>2, <2>1
      <3> QED
        BY <1>2, <2>1, <3>1, SeqFacts DEF InSeq
    <2> QED
      BY <2>1 DEF FrameOrNone, InList
  <1> HIDE DEF a, act, pos
  <1> QED
    BY <1>1, <1>2, <1>5, <1>6, SwitchesD, Zenon

LEMMA FrameMenuD ==
  ASSUME IInv, DInv, IInv', Disciplined, NEW index \in Nat, FrameMenu(index)
  PROVE  DInv'
  <1> DEFINE f == IF ActivateIndex(m, index).ActivatedFrame = m.CurrentFrame
                  THEN None ELSE m.CurrentFrame
  <1>1. /\ Running /\ CanLoseFocus(m.CurrentFrame)
        /\ m' = DeactivateFrame(ActivateIndex(m, index), f, 0)
        /\ Finish(<<>>) /\ UNCHANGED <<kind, shown, closing>>
    BY DEF FrameMenu, Keys
  <1>2. Asks /\ Goes(1, <<>>) /\ f \in {None, m.CurrentFrame}
    BY <1>1, RunningAsks, GoesOnce
  <1> HIDE DEF f
  <1> QED
    BY <1>1, <1>2, ChooseD

LEMMA SetCurrentWindowD ==
  ASSUME IInv, DInv, IInv', Disciplined, NEW index \in Nat, SetCurrentWindow(index)
  PROVE  DInv'
  <1>1. /\ Running /\ CanLoseFocus(m.CurrentFrame)
        /\ m' = DeactivateFrame(ActivateIndex(m, index), m.CurrentFrame, 0)
        /\ Did(<<>>) /\ UNCHANGED <<kind, shown, closing>>
    BY DEF SetCurrentWindow
  <1>2. Asks /\ Goes(1, <<>>)
    BY <1>1, RunningAsks, GoesOnce
  <1> QED
    BY <1>1, <1>2, ChooseD

-----------------------------------------------------------------------------
(* A window is opened at once, with a loop of its own.                      *)
LEMMA ExecuteNonModalD ==
  ASSUME IInv, DInv, IInv', Disciplined, NEW w \in Frames, ExecuteNonModal(w)
  PROVE  DInv'
  <1> DEFINE loop == [at |-> "nonmodal", phase |-> "run", frame |-> w]
             more == <<loop, CommitCall(0)>>
             m1 == [m EXCEPT !.ExecutedFrame = None]
  <1>1. /\ Running /\ Fresh(w) /\ MayOpenWindow /\ kind' = [kind EXCEPT ![w] = "window"]
        /\ m' = InsertCommit(m1, w) /\ Did(more)
        /\ shown' = shown /\ closing' = closing
    BY DEF ExecuteNonModal
  <1>2. Asks /\ m \in Fields /\ Sound(m) /\ Goes(1, more)
    BY <1>1, RunningAsks, Grounds, GoesOnce
  <1>3. /\ m.ModalStack = <<>> /\ Modals(calls) = {} /\ NothingAsked(m) /\ NoSwitch(m)
        /\ InList(m, m.CurrentFrame) /\ m.CurrentFrame # None
        /\ m.FrameList # <<>> /\ m.FrameList[1] = Panels /\ kind[Panels] = "panels"
        /\ UnderDeletion = {} /\ Thens = {}
    BY <1>1, <1>2, OpenersAre DEF Asks, Settled
  <1>4. /\ w # None /\ w \notin InSeq(m.FrameList) /\ kind[w] = "none" /\ w # Panels
    BY <1>1, <1>3, FreshIsNew DEF Known, Fresh
  <1>5. m1 = m
    <2>1. m.ExecutedFrame = None
      BY <1>3 DEF NothingAsked
    <2> QED
      BY <1>2, <2>1 DEF Fields
  <1> HIDE DEF m1
  <1>6. /\ m'.FrameList # <<>> /\ m'.FrameList[1] = m.FrameList[1]
        /\ InSeq(m'.FrameList) = InSeq(m.FrameList) \cup {w}
        /\ m'.FrameToBack = [m.FrameToBack EXCEPT ![w] = m.CurrentFrame]
        /\ m'.ModalStack = m.ModalStack
        /\ Switches(m') /\ m'.ActivatedFrame # None
    <2>1. m' = InsertCommit(m, w)
      BY <1>1, <1>5
    <2>2. m.DeletedFrame = None /\ m.ExecutedFrame = None
      BY <1>3 DEF NothingAsked
    <2> DEFINE r == InsertCommit(m, w)
    <2>3. /\ r.FrameList # <<>> /\ r.FrameList[1] = m.FrameList[1]
          /\ InSeq(r.FrameList) = InSeq(m.FrameList) \cup {w}
          /\ r.FrameToBack = [m.FrameToBack EXCEPT ![w] = m.CurrentFrame]
          /\ r.ModalStack = m.ModalStack
          /\ Switches(r) /\ r.ActivatedFrame # None
      BY <1>2, <1>3, <1>4, <2>2, InsertCommitIs
    <2> HIDE DEF r
    <2>4. m' = r
      BY <2>1 DEF r
    <2> QED
      BY <2>3, <2>4
  <1>7. loop \in CallTypes /\ loop.at = "nonmodal" /\ loop.phase = "run"
    BY DEF CallTypes, Phases
  <1> HIDE DEF loop
  <1>8. /\ more \in Seq(CallTypes) /\ Len(more) = 2 /\ more[1] = loop
        /\ more[2] = CommitCall(0) /\ CommitCall(0).at = "commit"
        /\ CommitCall(0).count = 0
    <2>1. CommitCall(0) \in CallTypes /\ CommitCall(0).at = "commit"
          /\ CommitCall(0).count = 0
      BY CommitCallIs DEF CommitCall
    <2> QED
      BY <1>7, <2>1
  <1> HIDE DEF more
  <1>9. /\ CallsTyped' /\ Shape(calls') /\ calls'[1].at = "main" /\ Top'.at = "commit"
        /\ SameLoops(calls, calls') /\ Nested(calls')
    <2>1. /\ \A c : c.at = "handler" /\ c.ops = 1 /\ c.began => Follows(c, more[1])
          /\ Follows(more[1], more[2])
      BY <1>7, <1>8 DEF Follows, IsLoop
    <2>2. \A i \in 1 .. Len(more) : more[i].at # "modal"
      <3>1. \A i \in 1 .. 2 : i = 1 \/ i = 2
        OBVIOUS
      <3> QED
        BY <1>7, <1>8, <3>1
    <2> DEFINE ops == 1
    <2>3. ops \in {0, 1} /\ Goes(ops, more) /\ ops = 1
      BY <1>2
    <2>4. \A c : c.at = "handler" /\ c.ops = ops /\ c.began => Follows(c, more[1])
      BY <2>1
    <2>5. Len(more) <= 2 /\ Len(more) # 0
      BY <1>8
    <2> HIDE DEF ops
    <2>6. /\ CallsTyped' /\ Shape(calls') /\ calls'[1].at = "main"
          /\ Len(more) # 0 => Top' = more[Len(more)]
          /\ SameLoops(calls, calls') /\ Nested(calls')
      BY <1>2, <1>3, <1>8, <2>1, <2>2, <2>3, <2>4, <2>5, GoesShape
    <2> QED
      BY <1>8, <2>6
  <1>10. UnderDeletion' = {} /\ Thens' = {}
    BY <1>9, UnderIsNext
  <1>11. /\ Places /\ BackIsListed /\ ClosingLeaves /\ kind \in [Frames -> Kinds]
         /\ closing \subseteq Frames /\ m.FrameToBack \in [Frames -> FrameOrNone]
         /\ InSeq(m.FrameList) \subseteq Frames
    <2>1. m.FrameList \in Seq(Frames) /\ m.FrameToBack \in [Frames -> FrameOrNone]
      BY <1>2, FieldTypes
    <2> QED
      BY <2>1, Grounds, InvGives, SeqFacts
  <1>12. /\ m.InsertedFrame = None /\ m.DeletedFrame = None /\ m.ExecutedFrame = None
         /\ m'.InsertedFrame = None /\ m'.DeletedFrame = None /\ m'.ExecutedFrame = None
    BY <1>3, <1>6 DEF NothingAsked, Switches
  <1>13. kind'[w] = "window" /\ \A g : g # w => kind'[g] = kind[g]
    BY <1>1, <1>11
  <1>14. Places'
    <2>1. \A g \in InSeq(m'.FrameList) :
             kind'[g] = IF g = Panels THEN "panels" ELSE "window"
      BY <1>4, <1>6, <1>11, <1>13 DEF Places
    <2>2. InSeq(m'.ModalStack) = {}
      BY <1>3, <1>6 DEF InSeq
    <2>3. ASSUME NEW g \in Frames, kind'[g] = "window" PROVE InList(m', g)
      <3>1. CASE g = w
        BY <1>6, <3>1 DEF InList
      <3>2. CASE g # w
        <4>1. kind[g] = "window" /\ g # None
          BY <1>13, <2>3, <3>2, FramesAssumption
        <4>2. InList(m, g)
          BY <1>3, <1>11, <1>12, <4>1 DEF Places
        <4> QED
          BY <1>6, <4>2 DEF InList
      <3> QED
        BY <3>1, <3>2
    <2> QED
      BY <1>3, <1>6, <1>12, <2>1, <2>2, <2>3 DEF Places
  <1>15. BackIsListed'
    <2>1. ASSUME NEW g \in InSeq(m'.FrameList)
          PROVE  InList(m', m'.FrameToBack[g]) \/ (g = Panels /\ m'.FrameToBack[g] = None)
      <3>1. CASE g = w
        BY <1>3, <1>6, <1>11, <3>1 DEF InList
      <3>2. CASE g # w
        <4>1. g \in InSeq(m.FrameList) /\ m'.FrameToBack[g] = m.FrameToBack[g]
          BY <1>6, <1>11, <2>1, <3>2
        <4> QED
          BY <1>6, <1>11, <4>1 DEF BackIsListed, InList
      <3> QED
        BY <3>1, <3>2
    <2> QED
      BY <2>1 DEF BackIsListed
  <1>16. ClosingLeaves'
    <2>1. Pending' = {}
      BY <1>10, <1>12 DEF Pending, ToStack
    <2>2. ASSUME NEW g \in closing'
          PROVE  kind'[g] # "none" /\ ~InList(m', g) /\ ~InStack(m', g)
      <3>1. g \in closing /\ g # None
        BY <1>1, <1>11, <2>2, FramesAssumption
      <3>2. kind[g] # "none" /\ ~InList(m, g) /\ ~InStack(m, g)
        BY <1>3, <1>11, <1>12, <3>1 DEF ClosingLeaves
      <3>3. g # w
        BY <1>4, <3>2
      <3> QED
        BY <1>6, <1>13, <3>2, <3>3 DEF InList, InStack
    <2> QED
      BY <2>1, <2>2 DEF ClosingLeaves
  <1>17. ModalFrames' /\ Callers'
    BY <1>3, <1>6, <1>9, LoopsStay
  <1>18. LoopsFit'
    <2>1. Modals(calls') = {} /\ Len(m'.ModalStack) = 0 /\ ~Executes(m)'
      BY <1>3, <1>6, <1>9, <1>12 DEF SameLoops, Executes
    <2>2. {calls'[k].level : k \in Modals(calls')} = {} /\ 0 .. 0 - 1 = {}
      BY <2>1
    <2> QED
      BY <2>1, <2>2 DEF LoopsFit, LevelsAre
  <1>19. PlanFits'
    <2>1. Plans(m)'
      BY <1>6 DEF Plans
    <2> QED
      BY <1>6, <1>9, <2>1 DEF PlanFits, IsLoop
  <1> QED
    BY <1>9, <1>14, <1>15, <1>16, <1>17, <1>18, <1>19 DEF DInv, FramesInv, LoopsInv

-----------------------------------------------------------------------------
(* A modal loop: the one call that adds to the loops of the call stack.     *)
Entered(loop) ==
    LET a == Len(calls)
    IN /\ CallsTyped' /\ Shape(calls') /\ Nested(calls')
       /\ calls'[1].at = "main" /\ Top'.at = "commit"
       /\ Modals(calls') = Modals(calls) \cup {a + 1}
       /\ calls'[a + 1] = loop /\ calls'[(a + 1) - 1].frame = Top.frame
       /\ \A k \in Modals(calls) : /\ calls'[k] = calls[k] /\ k # a + 1
                                   /\ calls'[k - 1] = calls[k - 1]

LEMMA EnterModal ==
  ASSUME IInv, DInv, Asks, NEW loop \in CallTypes, loop.at = "modal",
         loop.phase = "run", loop.level = Len(m.ModalStack),
         Goes(0, <<loop, CommitCall(0)>>)
  PROVE  Entered(loop)
  <1> DEFINE a == Len(calls)
             b == Len(calls')
             c == [Top EXCEPT !.ops = 0, !.began = TRUE]
             more == <<loop, CommitCall(0)>>
  <1>1. /\ CallsTyped /\ Shape(calls) /\ Nested(calls) /\ LevelsAre(calls, Len(m.ModalStack))
        /\ Top \in CallTypes /\ Top.at = "handler" /\ Top = calls[a]
        /\ calls \in Seq(CallTypes) /\ a \in Nat /\ a > 0 /\ DOMAIN calls = 1 .. a
        /\ Len(m.ModalStack) \in Nat
    BY Grounds, TopIs, Depths DEF Asks, CallsTyped
  <1>2. c \in CallTypes /\ c.at = "handler" /\ c.frame = Top.frame
    <2>1. Top \in [at : {"handler"}, frame : Frames, ops : Nat, began : BOOLEAN]
      BY <1>1, CallKinds
    <2>2. /\ c \in [at : {"handler"}, frame : Frames, ops : Nat, began : BOOLEAN]
          /\ c.at = "handler" /\ c.frame = Top.frame
      BY <2>1
    <2>3. c \in CallTypes
      BY <2>2 DEF CallTypes
    <2> QED
      BY <2>2, <2>3
  <1>3. calls' = Rest \o <<c>> \o more
    BY DEF Goes
  <1> HIDE DEF c
  <1>4. /\ more \in Seq(CallTypes) /\ Len(more) = 2 /\ more[1] = loop
        /\ more[2] = CommitCall(0) /\ CommitCall(0).at = "commit"
        /\ CommitCall(0).count = 0
    <2>1. /\ CommitCall(0) \in CallTypes /\ CommitCall(0).at = "commit"
          /\ CommitCall(0).count = 0
      BY CommitCallIs DEF CommitCall
    <2> QED
      BY <2>1
  <1>5. Goes(0, more)
    OBVIOUS
  <1> HIDE DEF more
  <1>6. /\ calls' \in Seq(CallTypes) /\ b = a + 2
        /\ \A k \in 1 .. a - 1 : calls'[k] = calls[k]
        /\ calls'[a] = c /\ calls'[a + 1] = loop /\ calls'[a + 2] = more[2]
    <2>1. /\ calls' \in Seq(CallTypes) /\ Len(calls') = Len(calls) + Len(more)
          /\ \A k \in 1 .. Len(calls) - 1 : calls'[k] = calls[k]
          /\ calls'[Len(calls)] = c
          /\ \A i \in 1 .. Len(more) : calls'[Len(calls) + i] = more[i]
      BY <1>1, <1>2, <1>3, <1>4, GoIs, Zenon
    <2> QED
      BY <1>4, <2>1
  <1>7. /\ CallsTyped' /\ Shape(calls') /\ calls'[1].at = "main" /\ Top'.at = "commit"
    <2>1. /\ \A x : x.at = "handler" /\ x.ops = 0 /\ x.began => Follows(x, more[1])
          /\ Follows(more[1], more[2])
      BY <1>4 DEF Follows, IsLoop
    <2>2. \A i \in 1 .. Len(more) : more[i].at # "nonmodal"
      <3>1. \A i \in 1 .. 2 : i = 1 \/ i = 2
        OBVIOUS
      <3> QED
        BY <1>4, <3>1
    <2> DEFINE ops == 0
    <2>3. ops \in {0, 1} /\ Goes(ops, more) /\ ops = 0
      BY <1>5
    <2>4. \A x : x.at = "handler" /\ x.ops = ops /\ x.began => Follows(x, more[1])
      BY <2>1
    <2>5. Len(more) <= 2 /\ Len(more) # 0
      BY <1>4
    <2> HIDE DEF ops
    <2>6. /\ CallsTyped' /\ Shape(calls') /\ calls'[1].at = "main"
          /\ Len(more) # 0 => Top' = more[Len(more)]
      BY <1>4, <2>1, <2>2, <2>3, <2>4, <2>5, GoesShape
    <2> QED
      BY <1>4, <2>6
  <1> HIDE DEF a, b
  <1>8. /\ DOMAIN calls' = 1 .. a + 2
        /\ \A k \in 1 .. a + 2 : k \in 1 .. a - 1 \/ k = a \/ k = a + 1 \/ k = a + 2
        /\ \A k \in 1 .. a : k \in 1 .. a - 1 \/ k = a
        /\ 1 .. a - 1 \subseteq 1 .. a /\ 1 .. a - 1 \subseteq 1 .. a + 2
        /\ a + 1 \in 1 .. a + 2 /\ a + 1 \notin 1 .. a /\ (a + 1) - 1 = a
        /\ \A k \in 1 .. a - 1 : k < a + 1
    <2>1. DOMAIN calls' = 1 .. b
      BY <1>6, LenProperties DEF b
    <2> QED
      BY <1>1, <1>6, <2>1
  <1>9. Modals(calls) = {k \in 1 .. a - 1 : calls[k].at = "modal"}
    BY <1>1, <1>8 DEF Modals
  <1>10. Modals(calls') = Modals(calls) \cup {a + 1}
    <2>1. Modals(calls') = {k \in 1 .. a + 2 : calls'[k].at = "modal"}
      BY <1>8 DEF Modals
    <2>2. ASSUME NEW k \in 1 .. a + 2
          PROVE  calls'[k].at = "modal" <=> k \in Modals(calls) \cup {a + 1}
      <3>1. CASE k \in 1 .. a - 1
        <4>1. calls'[k] = calls[k] /\ k # a + 1
          BY <1>6, <1>8, <3>1
        <4> QED
          BY <1>9, <3>1, <4>1
      <3>2. CASE k = a
        BY <1>2, <1>6, <1>8, <1>9, <3>2, <1>1
      <3>3. CASE k = a + 1
        BY <1>6, <3>3
      <3>4. CASE k = a + 2
        <4>1. k # a + 1 /\ k \notin 1 .. a - 1
          BY <1>1, <3>4
        <4> QED
          BY <1>4, <1>6, <1>9, <3>4, <4>1
      <3> QED
        BY <1>8, <3>1, <3>2, <3>3, <3>4
    <2>3. Modals(calls) \cup {a + 1} \subseteq 1 .. a + 2
      BY <1>8, <1>9
    <2> QED
      BY <2>1, <2>2, <2>3
  <1>11. ASSUME NEW k \in Modals(calls)
         PROVE  /\ calls'[k] = calls[k] /\ k # a + 1 /\ k \in 1 .. a - 1
                /\ calls'[k - 1] = calls[k - 1]
    <2>1. k \in 1 .. a - 1
      BY <1>9
    <2>2. k > 1
      BY <1>1, ModalIs DEF CallsTyped, MainIsAtTheBottom
    <2>3. k - 1 \in 1 .. a - 1 /\ k # a + 1
      BY <1>1, <2>1, <2>2
    <2> QED
      BY <1>6, <2>1, <2>3
  <1>12. Nested(calls')
    <2>1. ASSUME NEW j \in DOMAIN calls', calls'[j].at = "nonmodal"
          PROVE  j \in 1 .. a - 1 /\ calls[j].at = "nonmodal"
      <3>1. j # a /\ j # a + 1 /\ j # a + 2
        BY <1>2, <1>4, <1>6, <2>1
      <3>2. j \in 1 .. a - 1
        BY <1>8, <3>1
      <3> QED
        BY <1>6, <2>1, <3>2
    <2>2. ASSUME NEW j \in DOMAIN calls', NEW k \in Modals(calls'),
                 calls'[j].at = "nonmodal"
          PROVE  j < k
      <3>1. j \in 1 .. a - 1 /\ calls[j].at = "nonmodal" /\ j \in DOMAIN calls
        BY <1>1, <1>8, <2>1, <2>2
      <3>2. CASE k \in Modals(calls)
        BY <1>1, <3>1, <3>2 DEF Nested
      <3>3. CASE k = a + 1
        BY <1>8, <3>1, <3>3
      <3> QED
        BY <1>10, <3>2, <3>3
    <2>3. ASSUME NEW k \in Modals(calls)
          PROVE  calls[k].level < Len(m.ModalStack)
      <3>1. calls[k].level \in {calls[i].level : i \in Modals(calls)}
        OBVIOUS
      <3>2. calls[k].level \in 0 .. Len(m.ModalStack) - 1
        BY <1>1, <3>1 DEF LevelsAre
      <3> QED
        BY <1>1, <3>2
    <2>4. ASSUME NEW j \in Modals(calls'), NEW k \in Modals(calls'), j < k
          PROVE  calls'[j].level < calls'[k].level
      <3>1. CASE j \in Modals(calls) /\ k \in Modals(calls)
        BY <1>1, <1>11, <2>4, <3>1 DEF Nested
      <3>2. CASE j \in Modals(calls) /\ k = a + 1
        BY <1>6, <1>11, <2>3, <3>2
      <3>3. CASE j = a + 1
        <4>1. k \notin Modals(calls)
          <5>1. ASSUME k \in 1 .. a - 1 PROVE FALSE
            BY <1>1, <2>4, <3>3, <5>1
          <5> QED
            BY <1>9, <5>1
        <4>2. k # a + 1
          BY <1>1, <2>4, <3>3
        <4> QED
          BY <1>10, <4>1, <4>2
      <3> QED
        BY <1>10, <3>1, <3>2, <3>3
    <2> QED
      BY <2>2, <2>4 DEF Nested
  <1>13. calls'[(a + 1) - 1].frame = Top.frame
    BY <1>2, <1>6, <1>8
  <1> QED
    BY <1>6, <1>7, <1>10, <1>11, <1>12, <1>13 DEF Entered, a

LEMMA ExecuteModalD ==
  ASSUME IInv, DInv, IInv', Disciplined, NEW d \in Frames,
         NEW k \in {"dialog", "viewer"}, ExecuteModal(d, k)
  PROVE  DInv'
  <1> DEFINE loop == [at |-> "modal", phase |-> "run", frame |-> d,
                      level |-> Len(m.ModalStack), ev |-> k = "viewer"]
             a == Len(calls)
             n == Len(m.ModalStack)
             M == Modals(calls)
  <1>1. /\ Running /\ Fresh(d) /\ kind' = [kind EXCEPT ![d] = k]
        /\ m' = ExecuteFrame(m, d) /\ Goes(Top.ops, <<loop, CommitCall(0)>>)
        /\ shown' = shown /\ closing' = closing
    BY DEF ExecuteModal
  <1>2. Asks /\ m \in Fields /\ n \in Nat
    BY <1>1, RunningAsks, Grounds, Depths
  <1>3. /\ NothingAsked(m) /\ NoSwitch(m) /\ AtHome(m) /\ Drawn
        /\ Top.ops = 0 /\ Top.frame = m.CurrentFrame
        /\ m.FrameList # <<>> /\ m.FrameList[1] = Panels
        /\ UnderDeletion = {} /\ Thens = {} /\ LevelsAre(calls, n)
    BY <1>2 DEF Asks, Settled
  <1>4. /\ Places /\ BackIsListed /\ ClosingLeaves /\ ModalFrames /\ Callers
        /\ kind \in [Frames -> Kinds] /\ closing \subseteq Frames
        /\ m.FrameList \in Seq(Frames) /\ m.ModalStack \in Seq(Frames)
        /\ DOMAIN m.ModalStack = 1 .. n
        /\ InSeq(m.FrameList) \subseteq Frames /\ InSeq(m.ModalStack) \subseteq Frames
    BY <1>2, Grounds, InvGives, FieldTypes, SeqFacts
  <1>5. /\ d # None /\ ~InList(m, d) /\ ~InStack(m, d) /\ kind[d] = "none" /\ d \notin closing
    BY <1>1, <1>4, FreshIsNew DEF Known, InList, InStack, Fresh, ClosingLeaves
  <1>6. /\ m'.FrameList = m.FrameList /\ m'.ModalStack = m.ModalStack
        /\ m'.FramePos = m.FramePos /\ m'.FrameToBack = m.FrameToBack
        /\ m'.CurrentFrame = m.CurrentFrame /\ m'.RefreshedFrame = m.RefreshedFrame
        /\ m'.InsertedFrame = None /\ m'.DeletedFrame = None /\ m'.ExecutedFrame = d
        /\ m'.ActivatedFrame = None /\ m'.DeactivatedFrame = None
    BY <1>1, <1>2, <1>3 DEF ExecuteFrame, Fields, NothingAsked, NoSwitch
  <1>7. /\ loop \in CallTypes /\ loop.at = "modal" /\ loop.phase = "run"
        /\ loop.frame = d /\ loop.level = n
    BY <1>2 DEF CallTypes, Phases
  <1>8. Goes(0, <<loop, CommitCall(0)>>)
    BY <1>1, <1>3
  <1> HIDE DEF loop
  <1>9. Entered(loop)
    BY <1>2, <1>7, <1>8, EnterModal
  <1>10. /\ CallsTyped' /\ Shape(calls') /\ Nested(calls')
         /\ calls'[1].at = "main" /\ Top'.at = "commit"
         /\ Modals(calls') = M \cup {a + 1}
         /\ calls'[a + 1] = loop /\ calls'[(a + 1) - 1].frame = Top.frame
         /\ \A j \in M : /\ calls'[j] = calls[j] /\ j # a + 1
                         /\ calls'[j - 1] = calls[j - 1]
    BY <1>9 DEF Entered
  <1>11. UnderDeletion' = {} /\ Thens' = {}
    BY <1>10, UnderIsNext
  <1> HIDE DEF a, n, M
  <1>12. kind'[d] = k /\ \A g : g # d => kind'[g] = kind[g]
    BY <1>1, <1>4
  <1>13. \A j \in M : /\ calls[j].frame \in Frames /\ calls[j].frame # d
                      /\ kind[calls[j].frame] \in {"dialog", "viewer"}
                      /\ calls[j].level \in 0 .. n - 1
    <2>1. ASSUME NEW j \in M PROVE calls[j].frame \in Frames
      BY Grounds, ModalIs DEF CallsTyped, MainIsAtTheBottom, M
    <2>2. ASSUME NEW j \in M PROVE kind[calls[j].frame] \in {"dialog", "viewer"}
      BY <1>4 DEF ModalFrames, M
    <2>3. ASSUME NEW j \in M PROVE calls[j].level \in 0 .. n - 1
      BY <1>3 DEF LevelsAre, M
    <2> QED
      BY <1>5, <2>1, <2>2, <2>3
  <1>14. Places'
    <2>1. \A g \in InSeq(m'.FrameList) :
             kind'[g] = IF g = Panels THEN "panels" ELSE "window"
      BY <1>4, <1>5, <1>6, <1>12 DEF Places, InList
    <2>2. \A g \in InSeq(m'.ModalStack) : kind'[g] \in ModalKinds
      BY <1>4, <1>5, <1>6, <1>12 DEF Places, InStack
    <2>3. ASSUME NEW g \in Frames, kind'[g] = "window" PROVE InList(m', g)
      <3>1. g # d
        BY <1>12, <2>3
      <3>2. kind[g] = "window" /\ g # None
        BY <1>12, <2>3, <3>1, FramesAssumption
      <3>3. InList(m, g)
        BY <1>3, <1>4, <3>2 DEF Places, NothingAsked
      <3> QED
        BY <1>6, <3>3 DEF InList
    <2> QED
      BY <1>3, <1>6, <1>12, <2>1, <2>2, <2>3 DEF Places
  <1>15. BackIsListed'
    BY <1>4, <1>6 DEF BackIsListed, InList
  <1>16. ClosingLeaves'
    <2>1. Pending' = {d}
      BY <1>5, <1>6, <1>11 DEF Pending, ToStack
    <2>2. ASSUME NEW g \in closing'
          PROVE  kind'[g] # "none" /\ ~InList(m', g) /\ ~InStack(m', g)
      <3>1. g \in closing /\ g # None
        BY <1>1, <1>4, <2>2, FramesAssumption
      <3>2. kind[g] # "none" /\ ~InList(m, g) /\ ~InStack(m, g)
        BY <1>3, <1>4, <3>1 DEF ClosingLeaves, NothingAsked
      <3> QED
        BY <1>5, <1>6, <1>12, <3>1, <3>2 DEF InList, InStack
    <2> QED
      BY <1>1, <1>5, <2>1, <2>2 DEF ClosingLeaves
  <1>17. Executes(m')
    <2>1. AtHome(m')
      BY <1>3, <1>6 DEF AtHome, Below
    <2> QED
      BY <1>5, <1>6, <2>1 DEF Executes, NoSwitch
  <1>18. LoopsFit'
    <2>1. {calls'[j].level : j \in Modals(calls')} = {calls[j].level : j \in M} \cup {n}
      BY <1>7, <1>10
    <2>2. {calls[j].level : j \in M} = 0 .. n - 1
      BY <1>3 DEF LevelsAre, M
    <2>3. (0 .. n - 1) \cup {n} = 0 .. (n + 1) - 1
      BY <1>2
    <2>4. LevelsAre(calls', n + 1)
      BY <2>1, <2>2, <2>3 DEF LevelsAre
    <2>5. LevelsAre(calls', Len(m'.ModalStack) + 1)
      BY <1>6, <2>4 DEF n
    <2>6. Executes(m)'
      BY <1>17
    <2> QED
      BY <2>5, <2>6 DEF LoopsFit
  <1>19. ModalFrames'
    <2>1. \A j \in Modals(calls') : kind'[calls'[j].frame] \in {"dialog", "viewer"}
      BY <1>7, <1>10, <1>12, <1>13
    <2>2. \A i, j \in Modals(calls') : calls'[i].frame = calls'[j].frame => i = j
      <3>1. \A i, j \in M : calls[i].frame = calls[j].frame => i = j
        BY <1>4 DEF ModalFrames, M
      <3> QED
        BY <1>7, <1>10, <1>13, <3>1
    <2>3. \A j \in Modals(calls'), i \in DOMAIN m'.ModalStack :
             m'.ModalStack[i] = calls'[j].frame => i = calls'[j].level + 1
      <3>1. \A j \in M, i \in DOMAIN m.ModalStack :
               m.ModalStack[i] = calls[j].frame => i = calls[j].level + 1
        BY <1>4 DEF ModalFrames, M
      <3>2. \A i \in DOMAIN m.ModalStack : m.ModalStack[i] # d
        BY <1>5 DEF InStack, InSeq
      <3> QED
        BY <1>6, <1>7, <1>10, <3>1, <3>2
    <2>4. \A j \in Modals(calls') :
             m'.ExecutedFrame = calls'[j].frame => calls'[j].level = Len(m'.ModalStack)
      BY <1>6, <1>7, <1>10, <1>13 DEF n
    <2> QED
      BY <2>1, <2>2, <2>3, <2>4 DEF ModalFrames
  <1>20. Callers'
    <2>1. ASSUME NEW j \in M
          PROVE  calls'[j - 1].frame = Below(m', calls'[j].level)
      <3>1. calls[j - 1].frame = Below(m, calls[j].level)
        BY <1>4 DEF Callers, M
      <3> QED
        BY <1>6, <1>10, <3>1 DEF Below
    <2>2. calls'[(a + 1) - 1].frame = Below(m', calls'[a + 1].level)
      <3>1. m.CurrentFrame = Below(m, n)
        BY <1>3 DEF AtHome, n
      <3> QED
        BY <1>3, <1>6, <1>7, <1>10, <3>1 DEF Below
    <2> QED
      BY <1>10, <2>1, <2>2 DEF Callers
  <1>21. PlanFits'
    <2>1. Executes(m)' /\ Drawn'
      BY <1>1, <1>3, <1>6, <1>17 DEF Drawn
    <2> QED
      BY <1>10, <2>1 DEF PlanFits, IsLoop
  <1> QED
    BY <1>10, <1>14, <1>15, <1>16, <1>18, <1>19, <1>20, <1>21 DEF DInv, FramesInv, LoopsInv

-----------------------------------------------------------------------------
(* All together.                                                            *)
LEMMA StutterD ==
  ASSUME DInv, UNCHANGED vars
  PROVE  DInv'
  <1>1. UNCHANGED <<m, kind, calls, endLoop, shown, closing>>
    BY DEF vars
  <1>2. /\ Settled(m)' = Settled(m) /\ Executes(m)' = Executes(m)
        /\ Plans(m)' = Plans(m) /\ Ends' = Ends /\ Drawn' = Drawn
        /\ Top' = Top /\ Modals(calls)' = Modals(calls)
        /\ UnderDeletion' = UnderDeletion /\ Pending' = Pending
    <2>1. Settled(m)' = Settled(m) /\ Executes(m)' = Executes(m) /\ Plans(m)' = Plans(m)
      BY <1>1
    <2>2. Ends' = Ends /\ Drawn' = Drawn /\ Top' = Top /\ Modals(calls)' = Modals(calls)
      BY <1>1 DEF Ends, Drawn, Top, Modals
    <2>3. UnderDeletion' = UnderDeletion /\ Pending' = Pending
      BY <1>1 DEF UnderDeletion, Pending, ToStack, Thens, CallsAt
    <2> QED
      BY <2>1, <2>2, <2>3
  <1>3. WindowDies' = WindowDies /\ EditorDies' = EditorDies
    BY <1>1, <1>2 DEF WindowDies, EditorDies
  <1>4. PlanFits'
    BY <1>1, <1>2, <1>3 DEF DInv, PlanFits
  <1>5. FramesInv'
    BY <1>1, <1>2 DEF DInv, FramesInv, Places, BackIsListed, ClosingLeaves
  <1>6. Shape(calls') /\ Nested(calls') /\ ModalFrames' /\ Callers'
    BY <1>1, <1>2 DEF DInv, LoopsInv, ModalFrames, Callers
  <1>7. LoopsFit'
    BY <1>1, <1>2 DEF DInv, LoopsInv, LoopsFit
  <1> QED
    BY <1>4, <1>5, <1>6, <1>7 DEF DInv, LoopsInv

LEMMA InitD ==
  ASSUME Init
  PROVE  DInv
  <1>1. /\ m.FrameList = <<Panels>> /\ m.ModalStack = <<>> /\ m.FramePos = 0
        /\ m.InsertedFrame = None /\ m.DeletedFrame = None /\ m.ExecutedFrame = None
        /\ m.ActivatedFrame = None /\ m.DeactivatedFrame = None
        /\ m.RefreshedFrame = None /\ m.CurrentFrame = Panels
        /\ m.FrameToBack = [f \in Frames |-> None]
        /\ kind = [f \in Frames |-> IF f = Panels THEN "panels" ELSE "none"]
        /\ shown = Panels /\ closing = {}
    BY DEF Init
  <1>2. calls = <<[at |-> "main", phase |-> "commit"]>>
    BY DEF Init
  <1>3. /\ DOMAIN calls = {1} /\ Len(calls) = 1 /\ calls[1].at = "main"
        /\ Top.at = "main" /\ Top.phase = "commit"
    BY <1>2 DEF Top
  <1>4. Modals(calls) = {} /\ UnderDeletion = {} /\ Thens = {}
    BY <1>3 DEF Modals, UnderDeletion, Thens, CallsAt
  <1>5. InSeq(m.FrameList) = {Panels} /\ InSeq(m.ModalStack) = {}
    <2>1. InSeq(<<Panels>>) = {Panels} /\ InSeq(<<>>) = {}
      BY DEF InSeq
    <2> QED
      BY <1>1, <2>1
  <1>6. Places
    BY <1>1, <1>5, FramesAssumption DEF Places, InList
  <1>7. BackIsListed /\ ClosingLeaves
    BY <1>1, <1>5, FramesAssumption DEF BackIsListed, ClosingLeaves
  <1>8. Settled(m)
    BY <1>1 DEF Settled, NothingAsked, NoSwitch, AtHome, Below
  <1>9. PlanFits
    BY <1>1, <1>3, <1>8 DEF PlanFits, Plans, Drawn, IsLoop
  <1>10. Shape(calls) /\ Nested(calls)
    BY <1>3, <1>4 DEF Shape, Nested
  <1>11. ModalFrames /\ Callers
    BY <1>4 DEF ModalFrames, Callers
  <1>12. LoopsFit
    <2>1. {calls[k].level : k \in Modals(calls)} = {} /\ 0 .. 0 - 1 = {}
      BY <1>4
    <2>2. Len(m.ModalStack) = 0 /\ ~Executes(m)
      BY <1>1 DEF Executes
    <2> QED
      BY <2>1, <2>2 DEF LoopsFit, LevelsAre
  <1> QED
    BY <1>6, <1>7, <1>9, <1>10, <1>11, <1>12 DEF DInv, FramesInv, LoopsInv

LEMMA NextD ==
  ASSUME IInv, DInv, Disciplined, [Next]_vars
  PROVE  DInv'
  <1>0. IInv'
    BY NextInv
  <1>1. CASE Step
    BY <1>0, <1>1, CommitD, DestroyedD, LoopCommitD, ProcessMainLoopD, LeaveLoopD,
       CloseAllD, HandlerReturnsD DEF Step
  <1>2. ASSUME NEW w \in Frames, OpenWindow(w) \/ ExecuteNonModal(w) \/ ReplaceFrame(w)
        PROVE  DInv'
    BY <1>0, <1>2, OpenWindowD, ExecuteNonModalD, ReplaceFrameD
  <1>3. ASSUME NEW d \in Frames, NEW k \in {"dialog", "viewer"}, ExecuteModal(d, k)
        PROVE  DInv'
    BY <1>0, <1>3, ExecuteModalD
  <1>4. ASSUME NEW g \in Frames, SwitchToOpenFile(g) \/ QuitViewer(g)
        PROVE  DInv'
    BY <1>0, <1>4, SwitchToOpenFileD, QuitViewerD
  <1>5. ASSUME NEW g \in Frames, NEW w \in Frames, ReloadFile(g, w)
        PROVE  DInv'
    BY <1>0, <1>5, ReloadFileD
  <1>6. CASE CloseFrame
    BY <1>0, <1>6, CloseFrameD
  <1>7. ASSUME NEW direction \in {-1, 1}, SwitchFrame(direction)
        PROVE  DInv'
    BY <1>0, <1>7, SwitchFrameD
  <1>8. ASSUME NEW index \in 0 .. Cardinality(Frames),
               FrameMenu(index) \/ SetCurrentWindow(index)
        PROVE  DInv'
    <2>1. index \in Nat
      OBVIOUS
    <2> QED
      BY <1>0, <1>8, <2>1, FrameMenuD, SetCurrentWindowD
  <1>9. CASE PluginCommit
    BY <1>0, <1>9, PluginCommitD
  <1>10. CASE ExitMainLoop
    BY <1>0, <1>10, ExitMainLoopD
  <1>11. CASE Exited \/ UNCHANGED vars
    BY <1>11, StutterD DEF Exited
  <1> QED
    BY <1>1, <1>2, <1>3, <1>4, <1>5, <1>6, <1>7, <1>8, <1>9, <1>10, <1>11 DEF Next

-----------------------------------------------------------------------------
(* What the invariant says of the program.                                  *)

(* Outside destructors and CloseAll() one thing is asked for, or nothing.   *)
LEMMA OnePlan ==
  ASSUME IInv, DInv, Top.at \notin {"destroy", "closeall", "exited"}
  PROVE  /\ Plans(m) \/ Executes(m)
         /\ m.FrameList # <<>>
  <1>1. Top \in CallTypes /\ PlanFits
    BY Grounds, TopIs
  <1>2. Top.at \in {"main", "modal", "nonmodal", "commit", "handler"}
    BY <1>1, CallKinds
  <1>3. IsLoop(Top) => Top.phase \in {"run", "commit"}
    BY <1>1, CallKinds DEF IsLoop, Phases
  <1>4. Plans(m) \/ Executes(m)
    BY <1>1, <1>2, <1>3 DEF PlanFits, Plans, IsLoop
  <1> QED
    BY <1>2, <1>4, OnMain

(* The frames the manager points to are in the list or on the stack.        *)
LEMMA SlotsAreKnown ==
  ASSUME IInv, DInv, Top.at # "exited"
  PROVE  LET here == InSeq(m.FrameList) \cup InSeq(m.ModalStack) \cup {None}
         IN  /\ m.CurrentFrame \in here /\ m.DeletedFrame \in here
             /\ m.DeactivatedFrame \in here
             /\ ~endLoop => m.ActivatedFrame \in here
  <1> DEFINE here == InSeq(m.FrameList) \cup InSeq(m.ModalStack) \cup {None}
  <1>1. PlanFits /\ Sound(m) /\ m.FrameList \in Seq(Frames) /\ m.ModalStack \in Seq(Frames)
    BY Grounds, FieldTypes
  <1>2. m.ModalStack # <<>> => LastOf(m.ModalStack) \in here
    BY <1>1, LastIs
  <1>3. m.FrameList # <<>> /\ AtHome(m) => m.CurrentFrame \in here
    BY <1>1, HomeIs
  <1>4. CASE Ends
    BY <1>4 DEF Ends, NothingAsked, InList
  <1>5. CASE Switches(m)
    BY <1>5 DEF Switches, NothingAsked, InList
  <1>6. CASE EditorDies
    BY <1>6 DEF EditorDies, NothingAsked, NoSwitch
  <1>7. CASE Top.at \notin {"destroy", "closeall", "exited"}
    <2>1. (Plans(m) \/ Executes(m)) /\ m.FrameList # <<>>
      BY <1>7, OnePlan
    <2>2. CASE Starts(m)
      BY <1>2, <2>2 DEF Starts, NothingAsked, InList, InStack
    <2>3. CASE Settled(m) \/ Opens(m) \/ Closes(m) \/ Executes(m)
      BY <1>3, <2>1, <2>3
         DEF Settled, Opens, Closes, Executes, NothingAsked, NoSwitch, InList
    <2> QED
      BY <1>5, <2>1, <2>2, <2>3 DEF Plans
  <1>8. Top.at \in {"destroy", "closeall"} => Ends \/ Switches(m) \/ EditorDies
    BY <1>1 DEF PlanFits, WindowDies
  <1> QED
    BY <1>4, <1>5, <1>6, <1>7, <1>8

LEMMA RestIs ==
  ASSUME IInv, DInv, AtRest
  PROVE  /\ Settled(m) /\ Top.frame = m.CurrentFrame /\ m.RefreshedFrame = None
         /\ Drawn /\ m.FrameList # <<>> /\ UnderDeletion = {}
  <1>1. /\ Top.at = "handler" /\ ~Top.began /\ PlanFits /\ Shape(calls)
        /\ Len(calls) > 1 /\ Len(calls) \in DOMAIN calls /\ Top = calls[Len(calls)]
    BY Grounds, TopIs DEF AtRest
  <1>2. Follows(calls[Len(calls) - 1], Top)
    BY <1>1 DEF Shape
  <1>3. Top.ops = 0
    BY <1>1, <1>2 DEF Follows
  <1>4. Settled(m) /\ Top.frame = m.CurrentFrame /\ m.RefreshedFrame = None
    BY <1>1, <1>3 DEF PlanFits
  <1>5. Drawn
    BY <1>1, <1>4 DEF PlanFits, Settled, NoSwitch
  <1> QED
    BY <1>1, <1>4, <1>5, OnMain

LEMMA DisciplinedInv ==
  ASSUME Disciplined
  PROVE  Spec => [](IInv /\ DInv)
  <1>1. Init => IInv /\ DInv
    BY InitInv, InitD
  <1>2. IInv /\ DInv /\ [Next]_vars => IInv' /\ DInv'
    BY NextInv, NextD
  <1> QED
    BY <1>1, <1>2, PTL DEF Spec

(* As long as a handler makes one request before the next Commit() and no   *)
(* plugin calls the manager from a close event or deletes a viewer that is  *)
(* not current, the manager keeps no pointer to a deleted frame: whatever   *)
(* the order in which frames are opened, replaced, deleted and switched to. *)
THEOREM NothingDangles ==
  ASSUME Disciplined
  PROVE  Spec => []NoDangling
  <1>1. ASSUME IInv, DInv, Top.at # "exited" PROVE NoDangling
    <2> DEFINE here == InSeq(m.FrameList) \cup InSeq(m.ModalStack) \cup {None}
    <2>1. Places /\ BackIsListed
      BY <1>1, Grounds
    <2>2. \A f \in here : Exists(f)
      BY <2>1 DEF Places, Exists, ModalKinds
    <2>3. \A f \in InSeq(m.FrameList) : m.FrameToBack[f] \in here
      BY <2>1 DEF BackIsListed, InList
    <2>4. Exists(m.InsertedFrame) /\ Exists(m.ExecutedFrame)
      BY <2>1 DEF Places, Exists
    <2>5. /\ m.CurrentFrame \in here /\ m.DeletedFrame \in here
          /\ m.DeactivatedFrame \in here
          /\ ~endLoop => m.ActivatedFrame \in here
      BY <1>1, SlotsAreKnown
    <2> QED
      BY <2>2, <2>3, <2>4, <2>5 DEF NoDangling
  <1>2. IInv /\ DInv => NoDangling
    BY <1>1 DEF NoDangling
  <1> QED
    BY <1>2, DisciplinedInv, PTL

(* Under the same assumption no request gets lost in Commit(): when a       *)
(* handler starts, every window opened so far and not deleted since is in   *)
(* the list, and no frame that asked to be deleted is there or on the stack. *)
THEOREM EveryRequestIsHonoured ==
  ASSUME Disciplined
  PROVE  Spec => []RequestsHonoured
  <1>1. ASSUME IInv, DInv, AtRest PROVE RequestsHonoured
    <2>1. /\ UnderDeletion = {} /\ Places /\ ClosingLeaves /\ closing \subseteq Frames
          /\ m.InsertedFrame = None /\ m.DeletedFrame = None
      BY <1>1, RestIs, Grounds, InvGives DEF Settled, NothingAsked
    <2>2. ASSUME NEW f \in Frames, kind[f] = "window" PROVE InList(m, f)
      BY <2>1, <2>2, FramesAssumption DEF Places
    <2>3. ASSUME NEW f \in closing PROVE ~InList(m, f) /\ ~InStack(m, f)
      BY <2>1, <2>3, FramesAssumption DEF ClosingLeaves
    <2> QED
      BY <2>2, <2>3 DEF RequestsHonoured
  <1>2. IInv /\ DInv => RequestsHonoured
    BY <1>1 DEF RequestsHonoured
  <1> QED
    BY <1>2, DisciplinedInv, PTL

(* The frame that gets a key is the one that was painted last.              *)
THEOREM ShownFrameGetsTheKey ==
  ASSUME Disciplined
  PROVE  Spec => []KeysGoToWhatIsShown
  <1>1. ASSUME IInv, DInv, AtRest PROVE Top.frame = shown
    BY <1>1, RestIs DEF Drawn
  <1>2. IInv /\ DInv => KeysGoToWhatIsShown
    BY <1>1 DEF KeysGoToWhatIsShown
  <1> QED
    BY <1>2, DisciplinedInv, PTL

(* And it is the topmost modal frame, or the one FramePos names.            *)
THEOREM TopModalFrameIsCurrent ==
  ASSUME Disciplined
  PROVE  Spec => []ModalFrameIsCurrent
  <1>1. ASSUME IInv, DInv, AtRest
        PROVE  m.CurrentFrame = IF m.ModalStack # <<>> THEN LastOf(m.ModalStack)
                                ELSE m.FrameList[m.FramePos + 1]
    <2>1. AtHome(m) /\ m.ModalStack \in Seq(Frames)
      BY <1>1, RestIs, Grounds, FieldTypes DEF Settled
    <2>2. Len(m.ModalStack) = 0 <=> m.ModalStack = <<>>
      BY <2>1, EmptySeq
    <2> QED
      BY <2>1, <2>2 DEF AtHome, Below, LastOf
  <1>2. IInv /\ DInv => ModalFrameIsCurrent
    BY <1>1 DEF ModalFrameIsCurrent
  <1> QED
    BY <1>2, DisciplinedInv, PTL

(* While no modal editor is being deleted, there is a current frame, or one *)
(* that will be: ModalizeFrame() does not meet a null pointer.              *)
THEOREM AFrameIsNext ==
  ASSUME Disciplined
  PROVE  Spec => []SomeFrameIsNext
  <1>1. ASSUME IInv, DInv, Top.at \notin {"exited", "closeall"}, ~endLoop,
               \A k \in DOMAIN calls : calls[k].at = "destroy" => calls[k].listed
        PROVE  m.CurrentFrame # None \/ m.ActivatedFrame # None \/ Requested
    <2>1. /\ PlanFits /\ Sound(m) /\ m.ModalStack \in Seq(Frames)
          /\ Len(calls) \in DOMAIN calls /\ Top = calls[Len(calls)]
      BY <1>1, Grounds, TopIs, FieldTypes
    <2>2. CASE Top.at = "destroy"
      <3>1. Top.listed
        BY <1>1, <2>1, <2>2
      <3> QED
        BY <1>1, <2>1, <2>2, <3>1 DEF PlanFits, WindowDies, EditorDies, Ends
    <2>3. CASE Top.at # "destroy"
      <3>1. (Plans(m) \/ Executes(m)) /\ m.FrameList # <<>>
        BY <1>1, <2>3, OnePlan
      <3>2. AtHome(m) => m.CurrentFrame # None
        BY <2>1, <3>1, HomeIs
      <3>3. m.ModalStack # <<>> => LastOf(m.ModalStack) # None
        BY <2>1, LastIs, FramesAssumption
      <3> QED
        BY <3>1, <3>2, <3>3
           DEF Plans, Settled, Opens, Closes, Switches, Starts, Executes, Requested
    <2> QED
      BY <2>2, <2>3
  <1>2. IInv /\ DInv => SomeFrameIsNext
    BY <1>1 DEF SomeFrameIsNext
  <1> QED
    BY <1>2, DisciplinedInv, PTL

(* When ExecuteModal() returns, the frame that has called it is current     *)
(* again, whatever has been shown, replaced and deleted in its loop.        *)
THEOREM CallerIsCurrentAgain ==
  ASSUME Disciplined
  PROVE  Spec => ModalReturnsToCaller
  <1> DEFINE Returns == LeaveLoop /\ Top.at = "modal"
                        /\ calls[Len(calls) - 1].at = "handler" =>
                           m.CurrentFrame = calls[Len(calls) - 1].frame
  <1>1. ASSUME IInv, DInv PROVE Returns
    <2>1. ASSUME LeaveLoop, Top.at = "modal"
          PROVE  m.CurrentFrame = calls[Len(calls) - 1].frame
      <3>1. [Next]_vars
        BY <2>1 DEF Next, Step
      <3>2. IInv'
        BY <1>1, <3>1, NextInv
      <3> QED
        BY <1>1, <2>1, <3>2, LeaveModalD
    <2> QED
      BY <2>1
  <1>2. IInv /\ DInv => [Returns]_vars
    BY <1>1
  <1> QED
    BY <1>2, DisciplinedInv, PTL DEF ModalReturnsToCaller
=============================================================================
