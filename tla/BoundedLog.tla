----------------------------- MODULE BoundedLog -----------------------------
(***************************************************************************)
(* What a circular buffer (lib/circular_buffer.h) promises its users: the  *)
(* last Length items pushed, oldest first.                                 *)
(***************************************************************************)
EXTENDS Integers, Sequences

CONSTANTS Items,  \* what can be pushed
          Length  \* how many items are kept

VARIABLE log

Init == log = <<>>

Push(item) ==
  log' = IF Len(log) = Length THEN Append(Tail(log), item)
         ELSE Append(log, item)
Pop == log # <<>> /\ log' = Tail(log)
Clear == log' = <<>>

Next == (\E item \in Items : Push(item)) \/ Pop \/ Clear
Spec == Init /\ [][Next]_log
=============================================================================
