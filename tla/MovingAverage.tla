---------------------------- MODULE MovingAverage ----------------------------
(***************************************************************************)
(* The simple moving average of the acceleration (filters/sma.c).  The     *)
(* main thread updates it; the auxiliary thread and the command thread ask *)
(* for another window size, which the update takes over when the index is  *)
(* at the end of the window.  The value is never computed anew, so that an *)
(* error in it would stay.                                                 *)
(*                                                                         *)
(* Floats are the elements of the field of the integers modulo Prime, in   *)
(* which the sizes can be divided by: the equations between value and      *)
(* window are those of the rational numbers, without their rounding.       *)
(***************************************************************************)
EXTENDS Integers

CONSTANTS
  Allocated,   \* allocated_n of the first configuration, which has not failed
  Targets,     \* what the filter is updated with
  Prime,
  Configurers  \* the threads that configure

Sizes == 1..Allocated
Floats == 0..Prime - 1

VARIABLES
  n, new_n, idx, array, value,
  todo,   \* what the main thread does next
  asks,   \* the size that a thread is about to ask for, or 0
  raced   \* a size was asked for while another one was pending

sma == <<n, new_n, idx, array, value>>
vars == <<sma, todo, asks, raced>>

Add(x, y) == (x + y) % Prime
Times(x, y) == (x * y) % Prime
Minus(x, y) == (x - y) % Prime
Over(x, size) == CHOOSE q \in Floats : Times(q, size) = x

\* subt of the loop over the slots first..last - 1.
Sum(slots, first, last) ==
  LET subt[i \in first..Allocated] ==
        IF i = first THEN 0 ELSE Add(subt[i - 1], slots[i - 1])
  IN subt[last]

\* The first sma_configure.
Init ==
  /\ n \in Sizes /\ new_n = 0 /\ idx = 0 /\ value = 0
  /\ array = [i \in 0..Allocated - 1 |-> 0]
  /\ todo = "update" /\ asks = [c \in Configurers |-> 0] /\ raced = FALSE

-----------------------------------------------------------------------------
\* sma_configure: the size is asked for, if there is none pending.
Wants(size) == size # n /\ new_n = 0
Test(c, size) ==
  /\ asks[c] = 0 /\ Wants(size)
  /\ asks' = [asks EXCEPT ![c] = size]
  /\ UNCHANGED <<sma, todo, raced>>
Ask(c) ==
  /\ asks[c] # 0
  /\ new_n' = asks[c] /\ asks' = [asks EXCEPT ![c] = 0]
  /\ raced' = (raced \/ new_n # 0)
  /\ UNCHANGED <<n, idx, array, value, todo>>

\* sma_update, access of new_n by access.
Update(target) ==
  /\ todo = "update"
  /\ value' = Add(value, Over(Minus(target, array[idx]), n))
  /\ array' = [array EXCEPT ![idx] = target]
  /\ todo' = IF new_n > 0 /\ idx = n - 1 THEN "resize" ELSE "advance"
  /\ UNCHANGED <<n, new_n, idx, asks, raced>>

Shrink ==
  /\ todo = "resize" /\ new_n < n
  /\ value' = Minus(value, Over(Sum(array, new_n, n), n))
  /\ todo' = "scale"
  /\ UNCHANGED <<n, new_n, idx, array, asks, raced>>
Scale ==
  /\ todo = "scale" /\ todo' = "adopt"
  /\ value' = Over(Times(value, n), new_n)
  /\ UNCHANGED <<n, new_n, idx, array, asks, raced>>
Filled_Zero(i) == IF i \in n..new_n - 1 THEN 0 ELSE array[i]
Filled(i) == IF i \in n..new_n - 1 THEN value ELSE array[i]
Grow ==
  /\ todo = "resize" /\ new_n >= n
  /\ array' = [i \in DOMAIN array |-> Filled(i)]
  /\ todo' = "adopt"
  /\ UNCHANGED <<n, new_n, idx, value, asks, raced>>
Adopt ==
  /\ todo = "adopt" /\ todo' = "clear"
  /\ n' = new_n
  /\ UNCHANGED <<new_n, idx, array, value, asks, raced>>
Clear ==
  /\ todo = "clear" /\ todo' = "advance"
  /\ new_n' = 0
  /\ UNCHANGED <<n, idx, array, value, asks, raced>>
Advance ==
  /\ todo = "advance" /\ todo' = "update"
  /\ idx' = IF idx + 1 >= n THEN 0 ELSE idx + 1
  /\ UNCHANGED <<n, new_n, array, value, asks, raced>>

\* sma_reset, by the main thread when the board engages.
Reset ==
  /\ todo = "update"
  /\ value' = 0 /\ idx' = 0
  /\ array' = [i \in DOMAIN array |-> IF i < n THEN 0 ELSE array[i]]
  /\ UNCHANGED <<n, new_n, todo, asks, raced>>

Configure == \E c \in Configurers : Ask(c) \/ \E size \in Sizes : Test(c, size)
Main ==
  \/ \E target \in Targets : Update(target)
  \/ Shrink \/ Scale \/ Grow \/ Adopt \/ Clear \/ Advance \/ Reset

Next == Configure \/ Main

Spec == Init /\ [][Next]_vars

-----------------------------------------------------------------------------
(* The update stays in the window, and the window in the allocated memory, *)
(* whatever the threads ask for and when.                                  *)
WindowInBounds ==
  /\ n \in Sizes /\ new_n \in 0..Allocated /\ idx \in 0..Allocated - 1
  /\ todo = "update" => idx < n

(* Between two updates the value is the mean of the window, across every   *)
(* change of its size (sma.c:76-94), as long as no size was asked for      *)
(* while another one was pending: two threads that both found none pending *)
(* may change it in the middle of the update.                              *)
ValueIsMean ==
  todo = "update" /\ ~raced => Times(value, n) = Sum(array, 0, n)
=============================================================================
