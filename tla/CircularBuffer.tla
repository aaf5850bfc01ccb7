--------------------------- MODULE CircularBuffer ---------------------------
(***************************************************************************)
(* The circular buffer of lib/circular_buffer.c: the log of alerts and the *)
(* data recorder keep their records in one.  An operation is one step; who *)
(* calls it is up to the users.                                            *)
(***************************************************************************)
EXTENDS Integers, Sequences

CONSTANTS Items,    \* what can be pushed
          Length,   \* item_number of circular_buffer_init
          WordSize  \* the number of values of size_t

ASSUME BufferAssumption ==
  /\ Length \in Nat \ {0}
  /\ WordSize \in Nat /\ WordSize > 2 * Length

VARIABLES head, tail, empty,
          buffer  \* the array, also its cells that hold no item

vars == <<head, tail, empty, buffer>>

Slots == 0 .. Length - 1

TypeOK ==
  /\ head \in Slots /\ tail \in Slots /\ empty \in BOOLEAN
  /\ buffer \in [Slots -> Items]

\* circular_buffer_init: the memory it is given holds anything.
Init ==
  /\ head = 0 /\ tail = 0 /\ empty = TRUE
  /\ buffer \in [Slots -> Items]

Incremented_OffByOne(i) == IF i + 1 > Length THEN i + 1 - Length ELSE i + 1
Incremented(i) == IF i + 1 >= Length THEN i + 1 - Length ELSE i + 1

\* circular_buffer_size, with the difference of the unsigned head and tail.
Difference == (head - tail) % WordSize
Size ==
  IF Difference > Length THEN (Difference + Length) % WordSize
  ELSE IF Difference = 0 /\ ~empty THEN Length
  ELSE Difference

\* The slot circular_buffer_get reads; it returns false for i >= Size.
Slot(i) == IF tail + i >= Length THEN tail + i - Length ELSE tail + i

Push_Overtakes(item) ==
  /\ tail' = tail
  /\ buffer' = [buffer EXCEPT ![head] = item]
  /\ head' = Incremented(head)
  /\ empty' = FALSE
Push(item) ==
  /\ tail' = IF ~empty /\ head = tail THEN Incremented(tail) ELSE tail
  /\ buffer' = [buffer EXCEPT ![head] = item]
  /\ head' = Incremented(head)
  /\ empty' = FALSE

Pop ==
  /\ Size > 0
  /\ tail' = Incremented(tail)
  /\ empty' = (empty \/ tail' = head)
  /\ UNCHANGED <<head, buffer>>

Clear ==
  /\ head' = 0 /\ tail' = 0 /\ empty' = TRUE
  /\ UNCHANGED buffer

Next == (\E item \in Items : Push(item)) \/ Pop \/ Clear
Spec == Init /\ [][Next]_vars

-----------------------------------------------------------------------------
\* All that circular_buffer_get returns, from index 0 on.
Contents == [i \in 1 .. Size |-> buffer[Slot(i - 1)]]

\* circular_buffer_iterate: the slots its do loop visits, from tail to head.
Visited_WhileLoop ==
  [i \in 1 .. (head - tail) % Length |-> buffer[(tail + i - 1) % Length]]
Visited ==
  IF empty THEN <<>>
  ELSE LET distance == IF head > tail THEN head - tail
                       ELSE head + Length - tail
       IN [i \in 1 .. distance |-> buffer[(tail + i - 1) % Length]]

Log == INSTANCE BoundedLog WITH log <- Contents

(* The buffer is a bounded log of the items pushed: the arithmetic on head *)
(* and tail and the empty flag lose, duplicate and reorder nothing.        *)
ImplementsLog == Log!Spec

(* Iterating and getting by index see the same items (the data recorder    *)
(* sends its plot by one and its download by the other).                   *)
IterateAgrees == Visited = Contents
=============================================================================
