------------------------ MODULE CircularBufferProofs ------------------------
(***************************************************************************)
(* The circular buffer implements a bounded log, for every length, every   *)
(* set of items and every word size that holds twice the length.           *)
(***************************************************************************)
EXTENDS CircularBuffer, TLAPS

(* What the slots and the empty flag keep to, which is all that is needed. *)
Inv == TypeOK /\ (empty => head = tail)

LEMMA InvInit == Init => Inv
BY BufferAssumption DEF Init, Inv, TypeOK, Slots

LEMMA InvNext == Inv /\ [Next]_vars => Inv'
<1> SUFFICES ASSUME Inv, [Next]_vars PROVE Inv'
  OBVIOUS
<1> USE BufferAssumption DEF Inv, TypeOK, Slots
<1>0. \A i \in Slots : Incremented(i) \in Slots
  BY DEF Incremented
<1>1. ASSUME NEW item \in Items, Push(item) PROVE Inv'
  <2>1. tail' \in Slots
    BY <1>0, <1>1 DEF Push
  <2>2. head' \in Slots
    BY <1>0, <1>1 DEF Push
  <2>3. empty' = FALSE
    BY <1>1 DEF Push
  <2>4. buffer' \in [Slots -> Items]
    BY <1>1 DEF Push
  <2> QED
    BY <2>1, <2>2, <2>3, <2>4, Zenon
<1>2. CASE Pop
  <2>1. tail' \in Slots /\ head' \in Slots /\ buffer' \in [Slots -> Items]
    BY <1>0, <1>2 DEF Pop
  <2>2. empty' \in BOOLEAN /\ (empty' => empty \/ head' = tail')
    BY <1>2 DEF Pop
  <2>3. ~empty
    BY <1>2 DEF Pop, Size, Difference
  <2> QED
    BY <2>1, <2>2, <2>3
<1>3. CASE Clear
  BY <1>3 DEF Clear
<1>4. CASE UNCHANGED vars
  BY <1>4 DEF vars
<1> QED
  BY <1>1, <1>2, <1>3, <1>4 DEF Next

(* Head and tail never leave the array, and an empty buffer has them meet. *)
THEOREM SlotsInBounds == Spec => []TypeOK
<1>1. Inv => TypeOK
  BY DEF Inv
<1> QED
  BY <1>1, InvInit, InvNext, PTL DEF Spec

(* circular_buffer_size in linear arithmetic: the wrap of size_t is exact. *)
Distance ==
  IF head > tail THEN head - tail
  ELSE IF head < tail THEN head - tail + Length
  ELSE IF empty THEN 0 ELSE Length

SizeOK == Size = Distance

LEMMA SizeIsDistance == Inv => SizeOK
<1> SUFFICES ASSUME Inv PROVE Size = Distance
  BY DEF SizeOK
<1> USE BufferAssumption DEF Inv, TypeOK, Slots
<1>1. CASE head >= tail
  <2>1. Difference = head - tail
    BY <1>1 DEF Difference
  <2> QED
    BY <1>1, <2>1 DEF Size, Distance
<1>2. CASE head < tail
  <2>1. Difference = head - tail + WordSize
    BY <1>2 DEF Difference
  <2>2. (Difference + Length) % WordSize = head - tail + Length
    BY <1>2, <2>1
  <2> QED
    BY <1>2, <2>1, <2>2 DEF Size, Distance
<1> QED
  BY <1>1, <1>2

ContentsOK ==
  /\ Size \in 0 .. Length
  /\ Contents \in Seq(Items)
  /\ Len(Contents) = Size
  /\ DOMAIN Contents = 1 .. Size

LEMMA ContentsAreItems == Inv => ContentsOK
<1> SUFFICES ASSUME Inv PROVE ContentsOK
  OBVIOUS
<1> USE BufferAssumption DEF Inv, TypeOK, Slots
<1>1. Size \in 0 .. Length
  BY SizeIsDistance DEF SizeOK, Distance
<1>2. \A i \in 1 .. Size : buffer[Slot(i - 1)] \in Items
  BY <1>1 DEF Slot
<1>3. Contents \in [1 .. Size -> Items]
  BY <1>2 DEF Contents
<1> QED
  BY <1>1, <1>3 DEF ContentsOK

LEMMA Views == Inv /\ Inv' => SizeOK /\ ContentsOK /\ SizeOK' /\ ContentsOK'
BY SizeIsDistance, ContentsAreItems, PTL

(* A push into a buffer with room appends. *)
LEMMA PushAppends ==
  ASSUME Inv, Inv', NEW item \in Items, Push(item), Size < Length
  PROVE  Contents' = Append(Contents, item)
<1> USE BufferAssumption, Views DEF Inv, TypeOK, Slots
<1>1. ~(~empty /\ head = tail) /\ tail' = tail
  BY DEF Push, SizeOK, Distance
<1>2. empty' = FALSE /\ head' = Incremented(head)
  BY DEF Push
<1>3. Size' = Size + 1
  BY <1>1, <1>2 DEF Incremented, SizeOK, Distance
<1>4. Slot(Size) = head
  BY <1>1 DEF Slot, SizeOK, Distance
<1>5. ASSUME NEW i \in 1 .. Size
      PROVE  Slot(i - 1)' = Slot(i - 1) /\ Slot(i - 1) \in Slots \ {head}
  BY <1>1 DEF Slot, SizeOK, Distance
<1>6. ASSUME NEW i \in 1 .. Size PROVE Contents'[i] = Contents[i]
  BY <1>3, <1>5 DEF Contents, ContentsOK, Push
<1>7. Contents'[Size + 1] = item
  BY <1>1, <1>3, <1>4 DEF Contents, ContentsOK, Push, Slot
<1> QED
  BY <1>3, <1>6, <1>7 DEF ContentsOK

(* A push into a full buffer drops the oldest item and appends. *)
LEMMA PushDropsOldest ==
  ASSUME Inv, Inv', NEW item \in Items, Push(item), Size = Length
  PROVE  Contents' = Append(Tail(Contents), item)
<1> USE BufferAssumption, Views DEF Inv, TypeOK, Slots
<1>1. ~empty /\ head = tail
  BY DEF SizeOK, Distance
<1>2. empty' = FALSE /\ head' = Incremented(head) /\ tail' = head'
  BY <1>1 DEF Push
<1>3. Size' = Length
  BY <1>2 DEF SizeOK, Distance
<1>4. ASSUME NEW i \in 1 .. Length - 1
      PROVE  Slot(i - 1)' = Slot(i) /\ Slot(i) \in Slots \ {head}
  BY <1>1, <1>2 DEF Slot, Incremented
<1>5. Slot(Length - 1)' = head
  BY <1>1, <1>2 DEF Slot, Incremented
<1>6. Len(Tail(Contents)) = Length - 1 /\ Tail(Contents) \in Seq(Items)
  BY DEF ContentsOK
<1>7. ASSUME NEW i \in 1 .. Length - 1
      PROVE  Contents'[i] = Tail(Contents)[i]
  <2>1. Contents'[i] = buffer'[Slot(i)]
    BY <1>3, <1>4 DEF Contents
  <2>2. Contents[i + 1] = buffer[Slot(i)]
    BY DEF Contents
  <2>3. Tail(Contents)[i] = Contents[i + 1]
    BY <1>6 DEF ContentsOK
  <2> QED
    BY <1>4, <2>1, <2>2, <2>3 DEF Push
<1>8. Contents'[Length] = item
  BY <1>3, <1>5 DEF Contents, Push
<1> QED
  BY <1>3, <1>6, <1>7, <1>8 DEF ContentsOK

LEMMA PopRemovesOldest ==
  ASSUME Inv, Inv', Pop
  PROVE  Contents # << >> /\ Contents' = Tail(Contents)
<1> USE BufferAssumption, Views DEF Inv, TypeOK, Slots
<1>1. Size \in 1 .. Length /\ ~empty
  BY DEF Pop, SizeOK, Distance, ContentsOK
<1>2. tail' = Incremented(tail) /\ head' = head /\ buffer' = buffer
  BY DEF Pop
<1>3. empty' <=> tail' = head
  BY <1>1 DEF Pop
<1>4. Size' = Size - 1
  BY <1>1, <1>2, <1>3 DEF Incremented, SizeOK, Distance
<1>5. ASSUME NEW i \in 1 .. Size - 1 PROVE Slot(i - 1)' = Slot(i)
  BY <1>1, <1>2 DEF Slot, Incremented
<1>6. Len(Tail(Contents)) = Size - 1 /\ Tail(Contents) \in Seq(Items)
  BY <1>1 DEF ContentsOK
<1>7. ASSUME NEW i \in 1 .. Size - 1
      PROVE  Contents'[i] = Tail(Contents)[i]
  <2>1. Contents'[i] = buffer[Slot(i)]
    BY <1>2, <1>4, <1>5 DEF Contents
  <2>2. Contents[i + 1] = buffer[Slot(i)]
    BY <1>1 DEF Contents
  <2>3. Tail(Contents)[i] = Contents[i + 1]
    BY <1>1, <1>6 DEF ContentsOK
  <2> QED
    BY <2>1, <2>2, <2>3
<1> QED
  BY <1>1, <1>4, <1>6, <1>7 DEF ContentsOK

-----------------------------------------------------------------------------
LEMMA LogInit == Init => Log!Init
<1> SUFFICES ASSUME Init PROVE Contents = << >>
  BY DEF Log!Init
<1> QED
  <2>1. Size = 0
    BY InvInit, SizeIsDistance DEF Init, SizeOK, Distance
  <2>2. ContentsOK
    BY InvInit, ContentsAreItems
  <2> QED
    BY <2>1, <2>2 DEF ContentsOK

LEMMA LogNext == Inv /\ Inv' /\ [Next]_vars => [Log!Next]_Contents
<1> SUFFICES ASSUME Inv, Inv', [Next]_vars PROVE [Log!Next]_Contents
  OBVIOUS
<1> USE DEF Log!Next
<1>1. ASSUME NEW item \in Items, Push(item) PROVE Log!Push(item)
  <2>1. Size \in 0 .. Length /\ Len(Contents) = Size
    BY Views DEF ContentsOK
  <2> QED
    BY <1>1, <2>1, PushAppends, PushDropsOldest, BufferAssumption
    DEF Log!Push
<1>2. CASE Pop
  BY <1>2, PopRemovesOldest DEF Log!Pop
<1>3. CASE Clear
  <2>1. Contents' = << >>
    <3>1. Size' = 0 /\ ContentsOK'
      BY <1>3, Views DEF Clear, SizeOK, Distance
    <3> QED
      BY <3>1 DEF ContentsOK
  <2> QED
    BY <2>1 DEF Log!Clear
<1>4. CASE UNCHANGED vars
  BY <1>4 DEF vars, Contents, Size, Difference, Slot
<1> QED
  BY <1>1, <1>2, <1>3, <1>4 DEF Next

(* The circular buffer implements the bounded log. *)
THEOREM Implementation == Spec => ImplementsLog
<1>1. Spec => []Inv
  BY InvInit, InvNext, PTL DEF Spec
<1> QED
  BY <1>1, LogInit, LogNext, PTL DEF Spec, ImplementsLog, Log!Spec

-----------------------------------------------------------------------------
(* The do loop of circular_buffer_iterate and circular_buffer_get see the  *)
(* same items: the loop's slot, taken modulo the length, is the slot of    *)
(* the index, and it stops after as many steps as there are items.         *)
LEMMA LoopSlot ==
  ASSUME Inv, NEW i \in 1 .. Length
  PROVE  (tail + i - 1) % Length = Slot(i - 1)
<1> USE BufferAssumption DEF Inv, TypeOK, Slots
<1>1. CASE tail + i - 1 < Length
  BY <1>1 DEF Slot
<1>2. CASE tail + i - 1 >= Length
  <2>1. tail + i - 1 - Length \in 0 .. Length - 1
    BY <1>2
  <2>2. (tail + i - 1) % Length = tail + i - 1 - Length
    BY <2>1
  <2> QED
    BY <1>2, <2>2 DEF Slot
<1> QED
  BY <1>1, <1>2

LEMMA IterateStep == Inv => IterateAgrees
<1> SUFFICES ASSUME Inv PROVE Visited = Contents
  BY DEF IterateAgrees
<1> USE BufferAssumption DEF Inv, TypeOK, Slots
<1>1. Size = Distance /\ ContentsOK
  BY SizeIsDistance, ContentsAreItems DEF SizeOK
<1>2. CASE empty
  <2>1. Size = 0
    BY <1>1, <1>2 DEF Distance
  <2> QED
    BY <1>1, <1>2, <2>1 DEF Visited, ContentsOK
<1>3. CASE ~empty
  <2>1. Size = IF head > tail THEN head - tail ELSE head + Length - tail
    BY <1>1, <1>3 DEF Distance
  <2>2. Visited = [i \in 1 .. Size |-> buffer[(tail + i - 1) % Length]]
    BY <1>3, <2>1 DEF Visited
  <2>3. ASSUME NEW i \in 1 .. Size
        PROVE  (tail + i - 1) % Length = Slot(i - 1)
    <3>1. i \in 1 .. Length
      BY <1>1 DEF ContentsOK
    <3> QED
      BY <3>1, LoopSlot
  <2> QED
    BY <2>2, <2>3 DEF Contents
<1> QED
  BY <1>2, <1>3

(* circular_buffer_iterate and circular_buffer_get: both read the same     *)
(* items in the same order, also when the slots wrap around.               *)
THEOREM IteratingIsReading == Spec => []IterateAgrees
BY InvInit, InvNext, IterateStep, PTL DEF Spec
=============================================================================
