------------------------- MODULE AlertTrackerProofs -------------------------
(***************************************************************************)
(* What the log of the alert tracker says is true and in order, for every  *)
(* set of fault codes, every size of the log and every number of records,  *)
(* however the threads interleave.                                         *)
(*                                                                         *)
(* The main thread is followed by the next access of its iteration and the *)
(* last one; what the records owe to the accesses is said in these terms.  *)
(***************************************************************************)
EXTENDS AlertTracker, TLAPS

\* The next access, and the last one: whether a finalize is still to come.
Stage == IF todo = <<>> THEN "none" ELSE todo[1]
Goal == IF todo = <<>> THEN "none" ELSE todo[Len(todo)]

Closings == {<<"masks", "test_clear", "store">>,
             <<"masks", "test_keep", "store">>}
Mores == {<<"raise", "finalize">>} \cup Closings
Shorts == {<<>>, <<"finalize">>, <<"test_clear", "store">>,
           <<"test_keep", "store">>, <<"store">>}
Rests == {<<"tail", "copy", "head">>, <<"copy", "head">>, <<"head">>}
Pushing == {"tail", "copy", "head"}

\* Every rest of an iteration: a push is followed by the raise or the closing.
TodoOK ==
  \/ todo \in Shorts \cup Mores
  \/ \E rest \in Rests, more \in Mores : todo = rest \o more

Accesses == {"tail", "copy", "head", "raise", "finalize", "masks",
             "test_clear", "test_keep", "store"}
Last(more) == more[Len(more)]

(* The rests as sequences: first, last and length. *)
LEMMA MoresAre ==
  ASSUME NEW more \in Mores
  PROVE  /\ more \in Seq(Accesses) /\ Len(more) > 0 /\ more # <<>>
         /\ more[1] \in {"raise", "masks"}
         /\ Last(more) = IF more[1] = "raise" THEN "finalize" ELSE "store"
<1>1. <<"raise", "finalize">> \in Seq(Accesses)
  BY DEF Accesses
<1>2. <<"masks", "test_clear", "store">> \in Seq(Accesses)
  BY DEF Accesses
<1>3. <<"masks", "test_keep", "store">> \in Seq(Accesses)
  BY DEF Accesses
<1>4. more \in Seq(Accesses)
  BY <1>1, <1>2, <1>3 DEF Mores, Closings
<1>5. more[1] \in {"raise", "masks"} /\ Len(more) > 0
  BY DEF Mores, Closings
<1>6. Last(more) = IF more[1] = "raise" THEN "finalize" ELSE "store"
  BY DEF Mores, Closings, Last
<1> QED
  BY <1>4, <1>5, <1>6

LEMMA RestsAre ==
  ASSUME NEW rest \in Rests
  PROVE  /\ rest \in Seq(Accesses) /\ Len(rest) > 0
         /\ rest[1] \in Pushing
         /\ rest[1] = "head" <=> rest = <<"head">>
         /\ rest[1] # "head" => Tail(rest) \in Rests
         /\ rest[1] = "tail" => Tail(rest)[1] = "copy"
         /\ rest[1] = "copy" => Tail(rest)[1] = "head"
<1>1. <<"tail", "copy", "head">> \in Seq(Accesses)
  BY DEF Accesses
<1>2. <<"copy", "head">> \in Seq(Accesses)
  BY DEF Accesses
<1>3. <<"head">> \in Seq(Accesses)
  BY DEF Accesses
<1>4. Tail(<<"tail", "copy", "head">>) = <<"copy", "head">>
  OBVIOUS
<1>5. Tail(<<"copy", "head">>) = <<"head">>
  OBVIOUS
<1>6. rest \in Seq(Accesses)
  BY <1>1, <1>2, <1>3 DEF Rests
<1>7. Len(rest) > 0 /\ rest[1] \in Pushing /\ (rest[1] = "head" <=> rest = <<"head">>)
  BY DEF Rests, Pushing
<1>8. CASE rest = <<"tail", "copy", "head">>
  BY <1>4, <1>6, <1>7, <1>8 DEF Rests
<1>9. CASE rest = <<"copy", "head">>
  BY <1>5, <1>6, <1>7, <1>9 DEF Rests
<1>10. CASE rest = <<"head">>
  BY <1>6, <1>7, <1>10 DEF Rests
<1> QED
  BY <1>8, <1>9, <1>10 DEF Rests

LEMMA PushingIs ==
  ASSUME NEW rest \in Rests, NEW more \in Mores,
         todo = rest \o more
  PROVE  /\ Stage = rest[1]
         /\ Goal = Last(more)
         /\ Tail(todo) = Tail(rest) \o more
         /\ Tail(todo) \in Seq(Accesses)
<1> USE MoresAre, RestsAre
<1>2. todo # <<>> /\ todo[1] = rest[1] /\ Len(todo) = Len(rest) + Len(more)
  OBVIOUS
<1>3. todo[Len(todo)] = more[Len(more)]
  BY <1>2
<1>4. Tail(todo) = Tail(rest) \o more
  BY <1>2
<1>5. Tail(todo) \in Seq(Accesses)
  BY <1>2
<1> QED
  BY <1>2, <1>3, <1>4, <1>5 DEF Stage, Goal, Last

(* What an access leaves to do, in terms of the next access and the last.  *)
Walks(access) ==
  /\ Stage = access
  /\ TodoOK'
  /\ access \in Pushing \cup {"raise"} => Goal' = Goal
  /\ access \in Pushing => Goal \in {"finalize", "store"}
  /\ access = "tail" => Stage' = "copy"
  /\ access = "copy" => Stage' = "head"
  /\ access = "head" => Stage' = IF Goal = "finalize" THEN "raise" ELSE "masks"
  /\ access = "raise" => Stage' = "finalize"
  /\ access = "masks" => Stage' \in {"test_clear", "test_keep"}
  /\ access \in {"test_clear", "test_keep"} => Stage' = "store"
  /\ access = "store" => todo' = <<>>

(* Every access moves on to the one that follows it. *)
LEMMA Stages ==
  ASSUME TodoOK, NEW access, Does(access), Then(<<>>)
  PROVE  Walks(access)
<1>0. Stage = access /\ todo' = <<>> \o Tail(todo)
  BY DEF Does, Then, Stage
<1>1. CASE todo \in Shorts
  <2>1. CASE todo = <<"finalize">> \/ todo = <<"store">>
    <3>1. todo' = <<>>
      BY <1>0, <2>1
    <3> QED
      BY <1>0, <2>1, <3>1 DEF Shorts, TodoOK, Stage, Goal, Pushing, Walks
  <2>2. CASE todo = <<"test_clear", "store">>
    <3>1. todo' = <<"store">>
      BY <1>0, <2>2
    <3> QED
      BY <1>0, <2>2, <3>1 DEF Shorts, TodoOK, Stage, Goal, Pushing, Walks
  <2>3. CASE todo = <<"test_keep", "store">>
    <3>1. todo' = <<"store">>
      BY <1>0, <2>3
    <3> QED
      BY <1>0, <2>3, <3>1 DEF Shorts, TodoOK, Stage, Goal, Pushing, Walks
  <2> QED
    BY <1>1, <2>1, <2>2, <2>3 DEF Shorts, Does
<1>2. CASE todo \in Mores
  <2>1. CASE todo = <<"raise", "finalize">>
    <3>1. todo' = <<"finalize">>
      BY <1>0, <2>1
    <3> QED
      BY <1>0, <2>1, <3>1 DEF Shorts, TodoOK, Stage, Goal, Pushing, Walks
  <2>2. CASE todo = <<"masks", "test_clear", "store">>
    <3>1. todo' = <<"test_clear", "store">>
      BY <1>0, <2>2
    <3> QED
      BY <1>0, <2>2, <3>1 DEF Shorts, TodoOK, Stage, Goal, Pushing, Walks
  <2>3. CASE todo = <<"masks", "test_keep", "store">>
    <3>1. todo' = <<"test_keep", "store">>
      BY <1>0, <2>3
    <3> QED
      BY <1>0, <2>3, <3>1 DEF Shorts, TodoOK, Stage, Goal, Pushing, Walks
  <2> QED
    BY <1>2, <2>1, <2>2, <2>3 DEF Mores, Closings
<1>3. ASSUME NEW rest \in Rests, NEW more \in Mores, todo = rest \o more
      PROVE  Walks(access)
  <2>1. access = rest[1] /\ Goal = Last(more) /\ Tail(todo) = Tail(rest) \o more
    BY <1>0, <1>3, PushingIs
  <2>2. todo' = Tail(rest) \o more
    <3>1. Tail(todo) \in Seq(Accesses)
      BY <1>3, PushingIs
    <3> QED
      BY <1>0, <2>1, <3>1
  <2>3. CASE rest = <<"head">>
    <3>1. todo' = more
      BY <2>2, <2>3, MoresAre
    <3>2. TodoOK' /\ Stage' = more[1] /\ Goal' = Last(more)
      BY <3>1, MoresAre DEF TodoOK, Stage, Goal, Last
    <3> QED
      BY <1>0, <2>1, <2>3, <3>2, MoresAre DEF Walks
  <2>4. CASE rest # <<"head">>
    <3> DEFINE fewer == Tail(rest)
    <3>1. fewer \in Rests
      BY <2>4, RestsAre
    <3>2. todo' = fewer \o more
      BY <2>2
    <3>3. /\ rest[1] = "tail" => fewer[1] = "copy"
          /\ rest[1] = "copy" => fewer[1] = "head"
      BY <2>4, RestsAre
    <3> HIDE DEF fewer
    <3>4. TodoOK'
      BY <3>1, <3>2 DEF TodoOK
    <3>5. Len(todo') = Len(fewer) + Len(more) /\ todo'[1] = fewer[1] /\ todo' # <<>>
      BY <3>1, <3>2, MoresAre, RestsAre
    <3>6. todo'[Len(todo')] = more[Len(more)]
      BY <3>1, <3>2, <3>5, MoresAre, RestsAre
    <3>7. Stage' = fewer[1] /\ Goal' = Last(more)
      BY <3>5, <3>6 DEF Stage, Goal, Last
    <3>8. rest[1] # "head" /\ rest[1] \in Pushing
      BY <2>4, RestsAre
    <3> QED
      BY <1>0, <2>1, <3>3, <3>4, <3>7, <3>8, MoresAre, SMT DEF Pushing, Walks
  <2> QED
    BY <2>3, <2>4
<1> QED
  BY <1>1, <1>2, <1>3 DEF TodoOK

(* A push starts at its first access. *)
LEMMA Pushed ==
  ASSUME NEW a, NEW c, NEW more \in Mores, Pushes(a, c, more)
  PROVE  TodoOK' /\ Stage' = "tail" /\ Goal' = Last(more)
<1>1. push \in Rests /\ push[1] = "tail"
  BY DEF push, Rests
<1>2. todo' = push \o more
  BY DEF Pushes
<1>3. TodoOK'
  BY <1>1, <1>2 DEF TodoOK
<1>4. Len(todo') = Len(push) + Len(more) /\ todo' # <<>> /\ todo'[1] = "tail"
  BY <1>1, <1>2, MoresAre, RestsAre
<1>5. todo'[Len(todo')] = more[Len(more)]
  BY <1>1, <1>2, <1>4, MoresAre, RestsAre
<1> QED
  BY <1>3, <1>4, <1>5 DEF Stage, Goal, Last

-----------------------------------------------------------------------------
(* The records whose push is complete, and how many of them are certain to *)
(* be in the buffer: the push makes room before it overwrites the oldest.  *)
Whole == IF Stage \in Pushing THEN records - 1 ELSE records
LeastOf(m, n) == IF m < n THEN m ELSE n
Kept == LeastOf(Whole, IF Stage \in {"copy", "head"} THEN LogSize - 1 ELSE LogSize)

\* The slot i places before the head, and how far the head is from the tail.
Back(i) == IF head >= i THEN head - i ELSE head - i + LogSize
Offset == IF head >= tail THEN head - tail ELSE head - tail + LogSize

TypeInv ==
  /\ fault \in Codes \cup {None} /\ code \in Codes \cup {None}
  /\ active \in BOOLEAN /\ new_active \in BOOLEAN
  /\ records \in 0 .. MaxRecords
  /\ head \in Ring!Slots /\ tail \in Ring!Slots /\ empty \in BOOLEAN
  /\ pushed \in Records \cup {Garbage}
  /\ buffer \in [Ring!Slots -> Records \cup {Garbage}]

(* Head and tail are as far apart as the records ask for.                  *)
IndexInv ==
  /\ Whole \in Nat
  /\ empty <=> Whole = 0
  /\ Offset = IF Stage \in {"copy", "head"} \/ Whole < LogSize THEN Kept ELSE 0

(* The records are in the buffer in the order of their pushes, the newest  *)
(* before the head.                                                        *)
TimesInv ==
  /\ \A i \in 1 .. Kept : buffer[Back(i)].time = Whole - i + 1
  /\ Stage \in Pushing => pushed.time = records
  /\ Stage = "head" => buffer[head] = pushed

(* What the newest record has to say of the alert at each point.           *)
Truth ==
  CASE Stage = "raise"    -> TRUE
    [] Stage = "finalize" -> active \/ new_active
    [] Stage = "masks"    -> new_active
    [] OTHER              -> active
Newest == buffer[Back(1)]

ClaimInv ==
  /\ new_active => Stage \in {"finalize", "masks"}
  /\ Stage \in Pushing =>
       /\ pushed.code = code
       /\ Goal = "finalize" => pushed.active
       /\ Goal = "store" => ~pushed.active /\ code = None
  /\ Stage \notin Pushing /\ Truth =>
       Whole > 0 /\ Newest.active /\ Newest.code = code
  /\ Stage \notin Pushing /\ ~Truth =>
       code = None /\ (Whole > 0 => ~Newest.active)

LogInv == TodoOK /\ TypeInv /\ IndexInv /\ TimesInv /\ ClaimInv

LEMMA LogInit == Init => LogInv
<1> SUFFICES ASSUME Init PROVE LogInv
  OBVIOUS
<1>1. TodoOK /\ Stage = "none"
  BY DEF Init, TodoOK, Shorts, Stage
<1>2. TypeInv
  BY AlertAssumption DEF Init, TypeInv, Ring!Slots
<1>3. Whole = 0 /\ Kept = 0 /\ Offset = 0
  BY <1>1, AlertAssumption DEF Init, Whole, Kept, LeastOf, Offset, Pushing
<1>4. IndexInv
  BY <1>1, <1>3, AlertAssumption DEF Init, IndexInv
<1>5. TimesInv
  BY <1>1, <1>3 DEF TimesInv, Pushing
<1>6. ClaimInv
  BY <1>1, <1>3 DEF Init, ClaimInv, Truth, Pushing
<1> QED
  BY <1>1, <1>2, <1>4, <1>5, <1>6 DEF LogInv

(* The tail makes room: one record less is certain to stay. *)
LEMMA TailKeepsLog == LogInv /\ PushTail => LogInv'
<1> SUFFICES ASSUME LogInv, PushTail PROVE LogInv'
  OBVIOUS
<1> USE AlertAssumption
<1>1. Walks("tail")
  BY Stages DEF LogInv, PushTail
<1>2. /\ TodoOK' /\ Stage = "tail" /\ Stage' = "copy"
      /\ Goal' = Goal /\ Goal \in {"finalize", "store"}
  BY <1>1 DEF Walks, Pushing
<1>3. TypeInv'
  BY DEF LogInv, TypeInv, PushTail, tracker, Ring!Incremented, Ring!Slots
<1>4. /\ Whole' = Whole
      /\ Kept = LeastOf(Whole, LogSize)
      /\ Kept' = LeastOf(Whole, LogSize - 1)
  BY <1>2 DEF PushTail, Whole, Kept, Pushing
<1>5. IndexInv'
  <2>1. CASE ~empty /\ head = tail
    BY <1>2, <1>4, <2>1
    DEF LogInv, TypeInv, IndexInv, PushTail, Offset, LeastOf, Ring!Incremented,
        Ring!Slots
  <2>2. CASE ~(~empty /\ head = tail)
    BY <1>2, <1>4, <2>2
    DEF LogInv, TypeInv, IndexInv, PushTail, Offset, LeastOf, Ring!Slots
  <2> QED
    BY <2>1, <2>2
<1>6. TimesInv'
  <2>1. 1 .. Kept' \subseteq 1 .. Kept
    BY <1>4 DEF LogInv, IndexInv, LeastOf
  <2>2. \A i \in Nat : Back(i)' = Back(i)
    BY DEF Back, PushTail
  <2> QED
    BY <1>2, <1>4, <2>1, <2>2 DEF LogInv, TimesInv, PushTail, Pushing
<1>7. ClaimInv'
  BY <1>2 DEF LogInv, ClaimInv, PushTail, Pushing, tracker
<1> QED
  BY <1>2, <1>3, <1>5, <1>6, <1>7 DEF LogInv

(* The slot at the head holds none of the records that stay. *)
LEMMA CopyKeepsLog == LogInv /\ PushCopy => LogInv'
<1> SUFFICES ASSUME LogInv, PushCopy PROVE LogInv'
  OBVIOUS
<1> USE AlertAssumption
<1>1. Walks("copy")
  BY Stages DEF LogInv, PushCopy
<1>2. /\ TodoOK' /\ Stage = "copy" /\ Stage' = "head"
      /\ Goal' = Goal /\ Goal \in {"finalize", "store"}
  BY <1>1 DEF Walks, Pushing
<1>3. TypeInv'
  BY DEF LogInv, TypeInv, PushCopy, tracker
<1>4. Whole' = Whole /\ Kept' = Kept /\ Kept = LeastOf(Whole, LogSize - 1)
  BY <1>2 DEF PushCopy, Whole, Kept, Pushing
<1>5. IndexInv'
  BY <1>2, <1>4 DEF LogInv, IndexInv, PushCopy, Offset
<1>6. TimesInv'
  <2>1. \A i \in 1 .. Kept : Back(i)' = Back(i) /\ Back(i) # head
    BY <1>4 DEF LogInv, TypeInv, IndexInv, Back, PushCopy, LeastOf, Ring!Slots
  <2>2. \A i \in 1 .. Kept : buffer'[Back(i)'] = buffer[Back(i)]
    BY <2>1 DEF PushCopy, LogInv, TypeInv
  <2>3. buffer'[head'] = pushed'
    BY DEF PushCopy, LogInv, TypeInv
  <2> QED
    BY <1>2, <1>4, <2>2, <2>3 DEF LogInv, TimesInv, PushCopy, Pushing
<1>7. ClaimInv'
  BY <1>2 DEF LogInv, ClaimInv, PushCopy, Pushing, tracker
<1> QED
  BY <1>2, <1>3, <1>5, <1>6, <1>7 DEF LogInv

(* The head completes the push: every record is one place further back. *)
LEMMA HeadKeepsLog == LogInv /\ PushHead => LogInv'
<1> SUFFICES ASSUME LogInv, PushHead PROVE LogInv'
  OBVIOUS
<1> USE AlertAssumption
<1>1. Walks("head")
  BY Stages DEF LogInv, PushHead
<1>2. /\ TodoOK' /\ Stage = "head" /\ Goal \in {"finalize", "store"}
      /\ Stage' = IF Goal = "finalize" THEN "raise" ELSE "masks"
  BY <1>1 DEF Walks, Pushing
<1>3. TypeInv'
  <2>1. head' \in Ring!Slots /\ empty' \in BOOLEAN
    BY DEF LogInv, TypeInv, PushHead, Ring!Incremented, Ring!Slots
  <2> QED
    BY <2>1 DEF LogInv, TypeInv, PushHead, tracker
<1>4. /\ Whole = records - 1 /\ Whole' = Whole + 1
      /\ Kept = LeastOf(Whole, LogSize - 1) /\ Kept' = Kept + 1
  BY <1>2
  DEF LogInv, TypeInv, IndexInv, PushHead, Whole, Kept, LeastOf, Pushing
<1>5. IndexInv'
  BY <1>2, <1>4
  DEF LogInv, TypeInv, IndexInv, PushHead, Offset, LeastOf, Ring!Slots,
      Ring!Incremented
<1>6. Back(1)' = head /\ \A i \in 1 .. Kept : Back(i + 1)' = Back(i)
  BY <1>4
  DEF LogInv, TypeInv, IndexInv, PushHead, Back, LeastOf, Ring!Slots,
      Ring!Incremented
<1>7. TimesInv'
  <2>1. ASSUME NEW i \in 1 .. Kept'
        PROVE  buffer'[Back(i)'] .time = Whole' - i + 1
    <3>1. CASE i = 1
      BY <1>2, <1>4, <1>6, <3>1
      DEF LogInv, TypeInv, TimesInv, PushHead, Pushing
    <3>2. CASE i > 1
      <4> DEFINE j == i - 1
      <4>1. j \in 1 .. Kept /\ i = j + 1
        BY <1>4, <3>2 DEF LogInv, IndexInv, LeastOf
      <4> HIDE DEF j
      <4>2. buffer[Back(j)].time = Whole - j + 1
        BY <4>1 DEF LogInv, TimesInv
      <4>3. Back(i)' = Back(j)
        BY <1>6, <4>1
      <4> QED
        BY <1>4, <4>1, <4>2, <4>3 DEF PushHead, LogInv, IndexInv
    <3> QED
      BY <3>1, <3>2 DEF Kept, LogInv
  <2> QED
    BY <1>2, <2>1 DEF TimesInv, Pushing
<1>8. ClaimInv'
  <2>1. Newest' = pushed /\ Whole' > 0
    BY <1>2, <1>4, <1>6 DEF Newest, LogInv, IndexInv, TimesInv, PushHead
  <2>2. CASE Goal = "finalize"
    BY <1>2, <2>1, <2>2 DEF LogInv, ClaimInv, Truth, PushHead, Pushing, tracker
  <2>3. CASE Goal = "store"
    BY <1>2, <2>1, <2>3 DEF LogInv, ClaimInv, Truth, PushHead, Pushing, tracker
  <2> QED
    BY <1>2, <2>2, <2>3
<1> QED
  BY <1>2, <1>3, <1>5, <1>7, <1>8 DEF LogInv

(* Outside a push nothing happens to the log. *)
LEMMA Steady ==
  ASSUME LogInv, UNCHANGED <<ring, records, pushed>>,
         Stage' = Stage \/ (Stage \notin Pushing /\ Stage' \notin Pushing)
  PROVE  IndexInv' /\ TimesInv' /\ Newest' = Newest /\ Whole' = Whole
<1>1. Whole' = Whole
  BY DEF Whole
<1>2. Kept' = Kept
  BY <1>1 DEF Kept, Pushing
<1>3. Offset' = Offset /\ \A i \in Nat : Back(i)' = Back(i)
  BY DEF Offset, Back, ring
<1>4. IndexInv'
  BY <1>1, <1>2, <1>3 DEF LogInv, IndexInv, ring, Pushing
<1>5. TimesInv'
  BY <1>1, <1>2, <1>3 DEF LogInv, TimesInv, ring, Pushing
<1> QED
  BY <1>1, <1>3, <1>4, <1>5 DEF Newest, ring

(* The start of a push only fills in the record. *)
LEMMA PushBegins ==
  ASSUME LogInv, UNCHANGED ring, Stage \notin Pushing,
         NEW a \in BOOLEAN, NEW c \in Codes \cup {None}, NEW more \in Mores,
         Pushes(a, c, more)
  PROVE  /\ TodoOK' /\ IndexInv' /\ TimesInv'
         /\ Stage' = "tail" /\ Goal' = Last(more)
         /\ pushed' \in Records /\ records' \in 0 .. MaxRecords
         /\ pushed'.active = a /\ pushed'.code = c
<1> USE AlertAssumption
<1>1. TodoOK' /\ Stage' = "tail" /\ Goal' = Last(more)
  BY Pushed
<1>2. records \in 0 .. MaxRecords /\ records' = records + 1 /\ records < MaxRecords
  BY DEF LogInv, TypeInv, Pushes
<1>3. /\ pushed' \in Records /\ pushed'.time = records'
      /\ pushed'.active = a /\ pushed'.code = c
  BY <1>2 DEF Pushes, Records
<1>4. Whole' = Whole
  BY <1>1, <1>2 DEF Whole, Pushing
<1>5. Kept' = Kept
  BY <1>1, <1>4 DEF Kept, Pushing
<1>6. Offset' = Offset /\ \A i \in Nat : Back(i)' = Back(i)
  BY DEF Offset, Back, ring
<1>7. IndexInv'
  BY <1>1, <1>4, <1>5, <1>6 DEF LogInv, IndexInv, ring, Pushing
<1>8. TimesInv'
  BY <1>1, <1>3, <1>4, <1>5, <1>6 DEF LogInv, TimesInv, ring, Pushing
<1> QED
  BY <1>1, <1>2, <1>3, <1>7, <1>8

LEMMA EvaluateKeepsLog == LogInv /\ Evaluate => LogInv'
<1> SUFFICES ASSUME LogInv, Evaluate PROVE LogInv'
  OBVIOUS
<1>1. Stage = "none" /\ Stage \notin Pushing /\ UNCHANGED ring
  BY DEF Evaluate, Stage, Pushing
<1>2. CASE fault = None
  <2>1. TodoOK' /\ Stage' = "finalize"
    BY <1>2 DEF Evaluate, TodoOK, Shorts, Stage
  <2>2. IndexInv' /\ TimesInv' /\ Newest' = Newest /\ Whole' = Whole
    BY <1>1, <1>2, <2>1, Steady DEF Evaluate, Pushing
  <2>3. TypeInv'
    BY <1>2 DEF LogInv, TypeInv, Evaluate, ring
  <2>4. ClaimInv'
    BY <1>1, <1>2, <2>1, <2>2 DEF LogInv, ClaimInv, Truth, Evaluate, Pushing
  <2> QED
    BY <2>1, <2>2, <2>3, <2>4 DEF LogInv
<1>3. CASE fault # None /\ Reported
  <2>1. TodoOK' /\ Stage' = "raise"
    BY <1>3 DEF Evaluate, TodoOK, Mores, Stage
  <2>2. IndexInv' /\ TimesInv' /\ Newest' = Newest /\ Whole' = Whole
    BY <1>1, <1>3, <2>1, Steady DEF Evaluate, Pushing
  <2>3. TypeInv'
    BY <1>3 DEF LogInv, TypeInv, Evaluate, ring
  <2>4. ClaimInv'
    BY <1>1, <1>3, <2>1, <2>2
    DEF LogInv, ClaimInv, Truth, Evaluate, Pushing, Reported
  <2> QED
    BY <2>1, <2>2, <2>3, <2>4 DEF LogInv
<1>4. CASE fault # None /\ ~Reported
  <2> DEFINE more == <<"raise", "finalize">>
  <2>1. more \in Mores /\ Last(more) = "finalize"
    BY DEF Mores, Last
  <2>2. Pushes(TRUE, fault, more) /\ code' = fault
    BY <1>4 DEF Evaluate
  <2>3. fault \in Codes \cup {None}
    BY DEF LogInv, TypeInv
  <2> HIDE DEF more
  <2>4. /\ TodoOK' /\ IndexInv' /\ TimesInv'
        /\ Stage' = "tail" /\ Goal' = "finalize"
        /\ pushed' \in Records /\ records' \in 0 .. MaxRecords
        /\ pushed'.active = TRUE /\ pushed'.code = fault
    BY <1>1, <2>1, <2>2, <2>3, PushBegins
  <2>5. TypeInv'
    BY <2>2, <2>4 DEF LogInv, TypeInv, Evaluate, ring
  <2>6. ClaimInv'
    BY <1>1, <2>2, <2>4 DEF LogInv, ClaimInv, Evaluate, Pushing
  <2> QED
    BY <2>4, <2>5, <2>6 DEF LogInv
<1> QED
  BY <1>2, <1>3, <1>4

LEMMA FinalizeKeepsLog == LogInv /\ Finalize => LogInv'
<1> SUFFICES ASSUME LogInv, Finalize PROVE LogInv'
  OBVIOUS
<1>1. Stage = "finalize" /\ Stage \notin Pushing /\ UNCHANGED ring
  BY DEF Finalize, Does, Stage, Pushing
<1>2. closing \in Mores /\ closing[1] = "masks" /\ Last(closing) = "store"
  BY MoresAre DEF closing, Mores, Closings, Last
<1>3. CASE active /\ ~new_active
  <2>1. Pushes(FALSE, None, closing) /\ code' = None
    BY <1>3 DEF Finalize
  <2>2. /\ TodoOK' /\ IndexInv' /\ TimesInv'
        /\ Stage' = "tail" /\ Goal' = "store"
        /\ pushed' \in Records /\ records' \in 0 .. MaxRecords
        /\ pushed'.active = FALSE /\ pushed'.code = None
    BY <1>1, <1>2, <2>1, PushBegins
  <2>3. TypeInv'
    BY <2>1, <2>2 DEF LogInv, TypeInv, Finalize, ring
  <2>4. ClaimInv'
    BY <1>1, <1>3, <2>1, <2>2 DEF LogInv, ClaimInv, Finalize, Pushing
  <2> QED
    BY <2>2, <2>3, <2>4 DEF LogInv
<1>4. CASE ~(active /\ ~new_active)
  <2>1. TodoOK' /\ Stage' = "masks"
    BY <1>2, <1>4, MoresAre DEF Finalize, TodoOK, Stage
  <2>2. IndexInv' /\ TimesInv' /\ Newest' = Newest /\ Whole' = Whole
    BY <1>1, <1>4, <2>1, Steady DEF Finalize, Pushing
  <2>3. TypeInv'
    BY <1>4 DEF LogInv, TypeInv, Finalize, ring
  <2>4. ClaimInv'
    BY <1>1, <1>4, <2>1, <2>2 DEF LogInv, ClaimInv, Truth, Finalize, Pushing
  <2> QED
    BY <2>1, <2>2, <2>3, <2>4 DEF LogInv
<1> QED
  BY <1>3, <1>4

LEMMA RaiseKeepsLog == LogInv /\ Raise => LogInv'
<1> SUFFICES ASSUME LogInv, Raise PROVE LogInv'
  OBVIOUS
<1>1. Walks("raise")
  BY Stages DEF LogInv, Raise
<1>2. TodoOK' /\ Stage = "raise" /\ Stage' = "finalize"
  BY <1>1 DEF Walks
<1>3. IndexInv' /\ TimesInv' /\ Newest' = Newest /\ Whole' = Whole
  BY <1>2, Steady DEF Raise, Pushing
<1>4. TypeInv'
  BY DEF LogInv, TypeInv, Raise, ring
<1>5. ClaimInv'
  BY <1>2, <1>3 DEF LogInv, ClaimInv, Truth, Raise, Pushing
<1> QED
  BY <1>2, <1>3, <1>4, <1>5 DEF LogInv

LEMMA MasksKeepLog == LogInv /\ Masks => LogInv'
<1> SUFFICES ASSUME LogInv, Masks PROVE LogInv'
  OBVIOUS
<1>1. Walks("masks")
  BY Stages DEF LogInv, Masks
<1>2. TodoOK' /\ Stage = "masks" /\ Stage' \in {"test_clear", "test_keep"}
  BY <1>1 DEF Walks
<1>3. IndexInv' /\ TimesInv' /\ Newest' = Newest /\ Whole' = Whole
  BY <1>2, Steady DEF Masks, Pushing
<1>4. TypeInv'
  BY DEF LogInv, TypeInv, Masks, ring
<1>5. ClaimInv'
  BY <1>2, <1>3 DEF LogInv, ClaimInv, Truth, Masks, Pushing
<1> QED
  BY <1>2, <1>3, <1>4, <1>5 DEF LogInv

LEMMA FatalKeepsLog == LogInv /\ (LoadFatal \/ StoreFatal) => LogInv'
<1> SUFFICES ASSUME LogInv, LoadFatal \/ StoreFatal PROVE LogInv'
  OBVIOUS
<1>1. PICK access \in {"test_clear", "test_keep", "store"} : Does(access) /\ Then(<<>>)
  BY DEF LoadFatal, StoreFatal
<1>2. Walks(access)
  BY <1>1, Stages DEF LogInv
<1>3. Stage = access /\ TodoOK' /\ Stage' \in {"store", "none"}
  BY <1>1, <1>2 DEF Walks, Stage
<1>4. UNCHANGED <<fault, active, new_active, code, ring, records, pushed>>
  BY DEF LoadFatal, StoreFatal, tracker
<1>5. IndexInv' /\ TimesInv' /\ Newest' = Newest /\ Whole' = Whole
  BY <1>1, <1>3, <1>4, Steady DEF Pushing
<1>6. TypeInv'
  BY <1>4 DEF LogInv, TypeInv, ring
<1>7. ClaimInv'
  BY <1>1, <1>3, <1>4, <1>5 DEF LogInv, ClaimInv, Truth, Pushing
<1> QED
  BY <1>3, <1>5, <1>6, <1>7 DEF LogInv

(* The firmware and the command thread leave the log alone. *)
LEMMA OthersKeepLog ==
  ASSUME LogInv, FirmwareFault \/ Command \/ UNCHANGED vars
  PROVE  LogInv'
<1>1. UNCHANGED <<active, new_active, code, ring, main>> /\ fault' \in Codes \cup {None}
  BY DEF LogInv, TypeInv, FirmwareFault, Command, Configure, ClearFatal,
         List, ListStart, ListSize, ListGet, ListTest, ListOffset, ListCopy,
         ListEnd, vars, tracker
<1>2. todo' = todo /\ Stage' = Stage /\ Goal' = Goal
  BY <1>1 DEF main, Stage, Goal
<1>3. TodoOK'
  BY <1>2 DEF LogInv, TodoOK
<1>4. IndexInv' /\ TimesInv' /\ Newest' = Newest /\ Whole' = Whole
  BY <1>1, <1>2, Steady DEF main
<1>5. TypeInv'
  BY <1>1 DEF LogInv, TypeInv, ring, main
<1>6. ClaimInv'
  BY <1>1, <1>2, <1>4 DEF LogInv, ClaimInv, Truth, main
<1> QED
  BY <1>3, <1>4, <1>5, <1>6 DEF LogInv

LEMMA LogNext == LogInv /\ [Next]_vars => LogInv'
BY TailKeepsLog, CopyKeepsLog, HeadKeepsLog, EvaluateKeepsLog,
   FinalizeKeepsLog, RaiseKeepsLog, MasksKeepLog, FatalKeepsLog, OthersKeepLog
DEF Next, Main

-----------------------------------------------------------------------------
(* What a reader of the buffer sees. *)
Shown ==
  /\ Ring!Size \in 0 .. LogSize
  /\ LogSize > 1 \/ Stage = "none" => Ring!Size = Kept
  /\ \A k \in 0 .. Ring!Size - 1 :
       /\ Ring!Slot(k) \in Ring!Slots
       /\ Ring!Slot(k) = Back(Ring!Size - k)

LEMMA LogShows == LogInv => Shown
<1> SUFFICES ASSUME LogInv PROVE Shown
  OBVIOUS
<1> USE AlertAssumption
<1> DEFINE full == ~empty /\ Offset = 0
<1>1. head \in 0 .. LogSize - 1 /\ tail \in 0 .. LogSize - 1
  BY DEF LogInv, TypeInv, Ring!Slots
<1>2. Offset \in 0 .. LogSize - 1 /\ (Offset = 0 <=> head = tail)
  BY <1>1 DEF Offset
<1>3. Ring!Size = IF full THEN LogSize ELSE Offset
  <2>1. CASE head >= tail
    <3>1. Ring!Difference = head - tail
      BY <1>1, <2>1 DEF Ring!Difference
    <3> QED
      BY <1>1, <2>1, <3>1 DEF Ring!Size, Offset
  <2>2. CASE head < tail
    <3>1. Ring!Difference = head - tail + (2 * LogSize + 1)
      BY <1>1, <2>2 DEF Ring!Difference
    <3>2. (Ring!Difference + LogSize) % (2 * LogSize + 1) = head - tail + LogSize
      BY <1>1, <2>2, <3>1
    <3> QED
      BY <1>1, <2>2, <3>1, <3>2 DEF Ring!Size, Offset
  <2> QED
    BY <1>1, <2>1, <2>2
<1>4. Ring!Size \in 0 .. LogSize
  BY <1>2, <1>3
<1>5. LogSize > 1 \/ Stage = "none" => Ring!Size = Kept
  BY <1>3 DEF LogInv, IndexInv, Kept, LeastOf
<1>6. ASSUME NEW k \in 0 .. Ring!Size - 1
      PROVE  Ring!Slot(k) \in Ring!Slots /\ Ring!Slot(k) = Back(Ring!Size - k)
  BY <1>1, <1>2, <1>3, <1>4 DEF Ring!Slot, Ring!Slots, Back, Offset
<1> QED
  BY <1>4, <1>5, <1>6 DEF Shown

LEMMA AtRest ==
  ASSUME todo = <<>>
  PROVE  Stage = "none" /\ Stage \notin Pushing /\ Whole = records
         /\ Kept = LeastOf(records, LogSize)
BY DEF Stage, Pushing, Whole, Kept

(* Between iterations the newest record of the log tells whether the alert *)
(* of motor_data_evaluate_alerts is active, and of which fault.            *)
THEOREM ActiveIsTold == Spec => []LogTellsActive
<1>1. LogInv /\ Shown => LogTellsActive
  <2> SUFFICES ASSUME LogInv, Shown, todo = <<>> PROVE LogTellsActive
    BY DEF LogTellsActive
  <2> USE AlertAssumption, AtRest
  <2>1. records \in Nat /\ Ring!Size = LeastOf(records, LogSize) /\ (empty <=> records = 0)
    BY DEF LogInv, TypeInv, IndexInv, Shown
  <2>2. ASSUME ~empty PROVE Ring!Contents[Ring!Size] = Newest
    <3>1. Ring!Size \in 1 .. Ring!Size /\ Ring!Size - 1 \in 0 .. Ring!Size - 1
      BY <2>1, <2>2 DEF LeastOf
    <3>2. Ring!Slot(Ring!Size - 1) = Back(1)
      BY <3>1 DEF Shown
    <3> QED
      BY <3>1, <3>2 DEF Ring!Contents, Newest
  <2>3. CASE active
    BY <2>1, <2>2, <2>3 DEF LogTellsActive, LogInv, ClaimInv, Truth
  <2>4. CASE ~active
    BY <2>1, <2>2, <2>4 DEF LogTellsActive, LogInv, ClaimInv, Truth
  <2> QED
    BY <2>3, <2>4
<1> QED
  BY <1>1, LogInit, LogNext, LogShows, PTL DEF Spec

(* circular_buffer_push keeps as many of the newest records as fit.        *)
THEOREM NewestAreKept == Spec => []LogIsRecent
<1>1. LogInv /\ Shown => LogIsRecent
  <2> SUFFICES ASSUME LogInv, Shown, todo = <<>> PROVE LogIsRecent
    BY DEF LogIsRecent
  <2> USE AlertAssumption, AtRest
  <2>1. records \in Nat /\ Ring!Size = Kept /\ Kept = LeastOf(records, LogSize)
    BY DEF LogInv, TypeInv, Shown
  <2>2. ASSUME NEW i \in 1 .. Ring!Size
        PROVE  Ring!Contents[i].time = records - Ring!Size + i
    <3> DEFINE j == Ring!Size - (i - 1)
    <3>1. i - 1 \in 0 .. Ring!Size - 1 /\ j \in 1 .. Kept
      BY <2>1 DEF LeastOf
    <3>2. Ring!Slot(i - 1) = Back(j)
      BY <3>1 DEF Shown
    <3>3. buffer[Back(j)].time = records - j + 1
      BY <3>1 DEF LogInv, TimesInv
    <3> QED
      BY <2>1, <3>2, <3>3 DEF Ring!Contents, LeastOf
  <2> QED
    BY <2>1, <2>2 DEF LogIsRecent, LeastOf
<1> QED
  BY <1>1, LogInit, LogNext, LogShows, PTL DEF Spec

-----------------------------------------------------------------------------
(* What is listed is older than what is next to be listed: the tail only   *)
(* ever moves on.  A log of one record has nothing to be out of order.     *)
Dropped == Whole - Kept
Entry == Len(list) + 1

TimesListed ==
  \A i \in 1 .. Len(list) :
    i \notin raced /\ list[i] # Garbage => list[i].time <= Dropped + i

\* A get that the tail did not move under finds its place in the log.
GetIsInPlace ==
  Entry \notin raced =>
    /\ at = "test" => Seen!Size <= Kept
    /\ at \in {"offset", "copy"} => Len(list) < Kept
    /\ at = "copy" => offset = Ring!Slot(Len(list))

ListShape ==
  /\ at \in {"idle", "size", "next"} \cup Getting
  /\ seen \in Ring!Slots /\ offset \in Ring!Slots
  /\ size \in -1 .. LogSize /\ list \in Seq(Records \cup {Garbage})
  /\ list = <<>> \/ Len(list) <= size
  /\ at \in {"idle", "size"} => list = <<>>
  /\ at \in Getting => Len(list) < size
  /\ at = "size" /\ empty => seen = tail
  /\ size > 0 => ~empty

ListInv ==
  /\ ListShape
  /\ LogSize > 1 => TimesListed /\ GetIsInPlace
  /\ ListInOrder

LEMMA ListInit == Init => ListInv
BY AlertAssumption
DEF Init, ListInv, ListShape, TimesListed, GetIsInPlace, ListInOrder, Getting,
    Ring!Slots

\* The size computed from any head, and from the one there is.
LEMMA SeenSizes ==
  ASSUME seen \in Ring!Slots, tail \in Ring!Slots
  PROVE  /\ Seen!Size \in 0 .. LogSize
         /\ empty /\ seen = tail => Seen!Size = 0
         /\ seen = head => Seen!Size = Ring!Size
<1> USE AlertAssumption
<1>1. seen \in 0 .. LogSize - 1 /\ tail \in 0 .. LogSize - 1
  BY DEF Ring!Slots
<1>2. CASE seen >= tail
  <2>1. Seen!Difference = seen - tail
    BY <1>1, <1>2 DEF Seen!Difference
  <2> QED
    BY <1>1, <1>2, <2>1
    DEF Seen!Size, Seen!Difference, Ring!Size, Ring!Difference
<1>3. CASE seen < tail
  <2>1. Seen!Difference = seen - tail + (2 * LogSize + 1)
    BY <1>1, <1>3 DEF Seen!Difference
  <2>2. (Seen!Difference + LogSize) % (2 * LogSize + 1) = seen - tail + LogSize
    BY <1>1, <1>3, <2>1
  <2> QED
    BY <1>1, <1>3, <2>1, <2>2
    DEF Seen!Size, Seen!Difference, Ring!Size, Ring!Difference
<1> QED
  BY <1>1, <1>2, <1>3

(* A push is begun with its record counted, or none is. *)
LEMMA Decides ==
  ASSUME Evaluate \/ Finalize
  PROVE  /\ Stage \notin Pushing
         /\ \/ records' = records + 1 /\ Stage' = "tail"
            \/ records' = records /\ Stage' \notin Pushing
<1>1. CASE Evaluate
  <2> DEFINE more == <<"raise", "finalize">>
  <2>1. Stage = "none"
    BY <1>1 DEF Evaluate, Stage
  <2>2. more \in Mores
    BY DEF Mores
  <2>3. CASE todo' \in {<<"finalize">>, more} /\ records' = records
    <3>1. Stage' \in {"finalize", "raise"}
      BY <2>3 DEF Stage
    <3> QED
      BY <2>1, <2>3, <3>1 DEF Pushing
  <2>4. CASE Pushes(TRUE, fault, more)
    <3> HIDE DEF more
    <3> QED
      BY <2>1, <2>2, <2>4, Pushed DEF Pushes, Pushing
  <2> QED
    BY <1>1, <2>3, <2>4 DEF Evaluate
<1>2. CASE Finalize
  <2>1. Stage = "finalize"
    BY <1>2 DEF Finalize, Does, Stage
  <2>2. closing \in Mores /\ closing # <<>> /\ closing[1] = "masks"
    BY MoresAre DEF closing, Mores, Closings
  <2>3. CASE todo' = closing /\ records' = records
    BY <2>1, <2>2, <2>3 DEF Stage, Pushing
  <2>4. CASE Pushes(FALSE, None, closing)
    BY <2>1, <2>2, <2>4, Pushed DEF Pushes, Pushing
  <2> QED
    BY <1>2, <2>3, <2>4 DEF Finalize
<1> QED
  BY <1>1, <1>2

(* The oldest record of the log never gets older. *)
LEMMA TailMovesOn ==
  ASSUME LogInv, LogInv', [Next]_vars
  PROVE  /\ Dropped \in Int /\ Dropped' \in Int /\ Dropped <= Dropped'
         /\ Kept \in Int /\ Kept' \in Int
         /\ LogSize > 1 /\ tail' = tail => Kept <= Kept'
<1> USE AlertAssumption
<1>0. /\ Whole \in Nat /\ Whole' \in Nat /\ Kept \in Int /\ Kept' \in Int
      /\ Dropped \in Int /\ Dropped' \in Int
  BY DEF LogInv, IndexInv, Dropped, Kept, LeastOf
<1>1. CASE PushTail
  <2>1. Stage = "tail" /\ Stage' = "copy"
    BY <1>1, Stages DEF LogInv, PushTail, Walks
  <2>2. Whole' = Whole /\ Kept' <= Kept
    BY <1>0, <1>1, <2>1 DEF PushTail, Whole, Kept, LeastOf, Pushing
  <2>3. ASSUME LogSize > 1, tail' = tail PROVE Kept <= Kept'
    <3>1. ~(~empty /\ head = tail)
      BY <1>1, <2>3 DEF PushTail, LogInv, TypeInv, Ring!Incremented, Ring!Slots
    <3>2. Whole < LogSize
      BY <1>0, <2>1, <3>1 DEF LogInv, TypeInv, IndexInv, Offset, Ring!Slots
    <3> QED
      BY <1>0, <2>1, <2>2, <3>2 DEF Kept, LeastOf
  <2>4. Dropped <= Dropped'
    BY <1>0, <2>2 DEF Dropped, Kept, LeastOf
  <2> QED
    BY <1>0, <2>3, <2>4
<1>2. CASE PushCopy
  <2>1. Stage = "copy" /\ Stage' = "head"
    BY <1>2, Stages DEF LogInv, PushCopy, Walks
  <2>2. Whole' = Whole /\ Kept' = Kept
    BY <1>2, <2>1 DEF PushCopy, Whole, Kept, Pushing
  <2> QED
    BY <1>0, <2>2 DEF Dropped
<1>3. CASE PushHead
  <2>1. Stage = "head" /\ Stage' \in {"raise", "masks"}
    BY <1>3, Stages DEF LogInv, PushHead, Walks
  <2>2. Whole' = Whole + 1 /\ Kept' = Kept + 1
    BY <1>0, <1>3, <2>1
    DEF PushHead, LogInv, TypeInv, Whole, Kept, LeastOf, Pushing
  <2> QED
    BY <1>0, <2>2 DEF Dropped
<1>4. CASE Evaluate \/ Finalize
  <2>0. /\ Stage \notin Pushing
        /\ \/ records' = records + 1 /\ Stage' = "tail"
           \/ records' = records /\ Stage' \notin Pushing
    BY <1>4, Decides
  <2>1. Whole' = Whole
    <3>1. records \in Int
      BY DEF LogInv, TypeInv
    <3> QED
      BY <2>0, <3>1 DEF Whole, Pushing
  <2>2. Kept' = Kept
    BY <2>0, <2>1 DEF Kept, Pushing
  <2> QED
    BY <1>0, <2>1, <2>2 DEF Dropped
<1>5. CASE /\ UNCHANGED records
           /\ Stage' = Stage \/ (Stage \notin Pushing /\ Stage' \notin Pushing)
  <2>1. Whole' = Whole /\ Kept' = Kept
    BY <1>5 DEF Whole, Kept, Pushing
  <2> QED
    BY <1>0, <2>1 DEF Dropped
<1>6. CASE Raise \/ Masks \/ LoadFatal \/ StoreFatal
  <2>1. PICK access \in {"raise", "masks", "test_clear", "test_keep", "store"} :
          Does(access) /\ Then(<<>>)
    BY <1>6 DEF Raise, Masks, LoadFatal, StoreFatal
  <2>2. Walks(access)
    BY <2>1, Stages DEF LogInv
  <2>3. Stage \notin Pushing /\ Stage' \notin Pushing
    BY <2>1, <2>2 DEF Walks, Stage, Pushing
  <2> QED
    BY <1>5, <1>6, <2>3 DEF Raise, Masks, LoadFatal, StoreFatal
<1>7. CASE FirmwareFault \/ Command \/ UNCHANGED vars
  <2>1. UNCHANGED main
    BY <1>7
    DEF FirmwareFault, Command, Configure, ClearFatal, List, ListStart,
        ListSize, ListGet, ListTest, ListOffset, ListCopy, ListEnd, vars
  <2> QED
    BY <1>5, <2>1 DEF main, Stage
<1> QED
  BY <1>1, <1>2, <1>3, <1>4, <1>6, <1>7 DEF Next, Main

\* What the other threads do to a listing: move the tail under it.
LEMMA UnderAListing ==
  ASSUME LogInv, FirmwareFault \/ Main \/ Configure \/ ClearFatal \/ UNCHANGED vars
  PROVE  /\ UNCHANGED <<at, seen, size, offset, list>>
         /\ raced' \in {raced, raced \cup {Entry}}
         /\ tail' # tail /\ at \in Getting => Entry \in raced'
         /\ empty' => empty /\ tail' = tail
<1>1. CASE PushTail
  BY <1>1 DEF PushTail, Entry
<1>2. CASE PushHead
  BY <1>2 DEF PushHead, listing
<1>3. CASE UNCHANGED <<listing, tail, empty>>
  BY <1>3 DEF listing
<1>4. ASSUME Evaluate \/ Raise \/ Finalize \/ Masks \/ LoadFatal \/ StoreFatal
             \/ PushCopy \/ FirmwareFault \/ Configure \/ ClearFatal
             \/ UNCHANGED vars
      PROVE  UNCHANGED <<listing, tail, empty>>
  BY <1>4
  DEF FirmwareFault, Evaluate, Raise, Finalize, Masks, LoadFatal, StoreFatal,
      PushCopy, Configure, ClearFatal, vars, ring
<1> QED
  BY <1>1, <1>2, <1>3, <1>4 DEF Main

LEMMA OthersKeepList ==
  ASSUME ListInv, LogInv, LogInv', [Next]_vars,
         FirmwareFault \/ Main \/ Configure \/ ClearFatal \/ UNCHANGED vars
  PROVE  ListInv'
<1> USE AlertAssumption
<1>0. /\ Dropped \in Int /\ Dropped' \in Int /\ Dropped <= Dropped'
      /\ Kept \in Int /\ Kept' \in Int
      /\ LogSize > 1 /\ tail' = tail => Kept <= Kept'
  BY TailMovesOn
<1>1. /\ UNCHANGED <<at, seen, size, offset, list>>
      /\ raced' \in {raced, raced \cup {Entry}}
      /\ tail' # tail /\ at \in Getting => Entry \in raced'
      /\ empty' => empty /\ tail' = tail
  BY UnderAListing
<1>2. raced \subseteq raced' /\ Entry' = Entry
  BY <1>1 DEF Entry
<1>3. ListShape'
  BY <1>1 DEF ListInv, ListShape, Ring!Slots
<1>4. ASSUME LogSize > 1 PROVE TimesListed'
  <2> SUFFICES ASSUME NEW i \in 1 .. Len(list), i \notin raced, list[i] # Garbage
               PROVE  list[i].time <= Dropped' + i
    BY <1>1, <1>2 DEF TimesListed
  <2>1. list[i].time <= Dropped + i
    BY <1>4 DEF ListInv, TimesListed
  <2>2. list[i].time \in Int
    BY DEF ListInv, ListShape, Records
  <2> QED
    BY <1>0, <2>1, <2>2
<1>5. ASSUME LogSize > 1 PROVE GetIsInPlace'
  <2> SUFFICES ASSUME Entry \notin raced', at \in Getting PROVE GetIsInPlace'
    BY <1>1, <1>2 DEF GetIsInPlace, Getting
  <2>1. tail' = tail /\ Kept <= Kept' /\ Entry \notin raced
    BY <1>0, <1>1, <1>2, <1>5
  <2>2. size > 0 /\ ~empty /\ ~empty'
    <3>1. Len(list) < size /\ Len(list) \in Nat /\ size \in Int
      BY DEF ListInv, ListShape
    <3> QED
      BY <1>1, <3>1 DEF ListInv, ListShape
  <2>3. Seen!Size' = Seen!Size
    BY <1>1, <2>1, <2>2 DEF Seen!Size, Seen!Difference
  <2>4. Ring!Slot(Len(list))' = Ring!Slot(Len(list))
    BY <1>1, <2>1 DEF Ring!Slot
  <2>5. Seen!Size \in Int /\ Len(list) \in Int
    BY SeenSizes DEF ListInv, ListShape, LogInv, TypeInv
  <2>6. GetIsInPlace
    BY <1>5 DEF ListInv
  <2> QED
    BY <1>0, <1>1, <2>1, <2>3, <2>4, <2>5, <2>6 DEF GetIsInPlace
<1>6. ListInOrder'
  BY <1>1, <1>2 DEF ListInv, ListInOrder
<1> QED
  BY <1>3, <1>4, <1>5, <1>6 DEF ListInv

\* The steps of the listing that get nothing.
LEMMA ListGoesOn ==
  ASSUME ListInv, LogInv, Shown,
         ListStart \/ ListSize \/ ListGet \/ ListOffset \/ ListEnd
  PROVE  ListInv'
<1> USE AlertAssumption
<1>0. UNCHANGED <<ring, main>> /\ UNCHANGED <<head, tail, empty, buffer>>
  BY DEF ListStart, ListSize, ListGet, ListOffset, ListEnd, ring
<1>1. /\ Dropped' = Dropped /\ Kept' = Kept
      /\ Kept \in Int /\ Dropped \in Int
  BY <1>0 DEF LogInv, IndexInv, Dropped, Kept, Whole, Stage, Pushing, LeastOf, main
<1>2. /\ ListShape /\ ListInOrder
      /\ head \in Ring!Slots /\ tail \in Ring!Slots /\ 0 \in Ring!Slots
  BY DEF ListInv, LogInv, TypeInv, Ring!Slots
<1>3. /\ Seen!Size \in 0 .. LogSize /\ Ring!Size \in 0 .. LogSize
      /\ empty /\ seen = tail => Seen!Size = 0
  BY <1>2, SeenSizes DEF ListShape, Shown
<1>4. LogSize > 1 => Ring!Size = Kept
  BY DEF Shown
<1>5. Len(list) \in Nat /\ size \in Int
  BY <1>2 DEF ListShape
<1>6. CASE ListStart
  <2>1. ListShape'
    <3>1. empty => head = tail
      BY DEF LogInv, IndexInv, TypeInv, Kept, LeastOf, Offset, Ring!Slots
    <3> QED
      BY <1>0, <1>2, <1>6, <3>1 DEF ListStart, ListShape, Getting, Ring!Slots
  <2>2. LogSize > 1 => TimesListed' /\ GetIsInPlace'
    BY <1>1, <1>2, <1>6 DEF ListStart, ListInv, TimesListed, GetIsInPlace, ListShape, Getting
  <2> QED
    BY <1>2, <1>6, <2>1, <2>2 DEF ListStart, ListInv, ListInOrder
<1>7. CASE ListSize
  <2>1. ListShape'
    BY <1>0, <1>2, <1>3, <1>7 DEF ListSize, ListShape, Getting, Ring!Slots
  <2>2. LogSize > 1 => TimesListed' /\ GetIsInPlace'
    BY <1>1, <1>2, <1>7 DEF ListSize, ListInv, TimesListed, GetIsInPlace, ListShape, Getting
  <2> QED
    BY <1>2, <1>7, <2>1, <2>2 DEF ListSize, ListInv, ListInOrder
<1>8. CASE ListGet
  <2>1. ListShape'
    BY <1>0, <1>2, <1>8 DEF ListGet, ListShape, Getting, Ring!Slots
  <2>2. Seen!Size' = Ring!Size
    BY <1>0, <1>8 DEF ListGet, Seen!Size, Seen!Difference, Ring!Size, Ring!Difference
  <2>3. LogSize > 1 => TimesListed' /\ GetIsInPlace'
    BY <1>1, <1>3, <1>4, <1>8, <2>2 DEF ListGet, ListInv, TimesListed, GetIsInPlace
  <2> QED
    BY <1>2, <1>8, <2>1, <2>3 DEF ListGet, ListInv, ListInOrder
<1>9. CASE ListOffset
  <2>1. Ring!Slot(Len(list)) \in Ring!Slots
    BY <1>2, <1>5, <1>9 DEF ListOffset, ListShape, Getting, Ring!Slot, Ring!Slots
  <2>2. Ring!Slot(Len(list))' = Ring!Slot(Len(list))
    BY <1>0, <1>9 DEF ListOffset, Ring!Slot
  <2>3. ListShape'
    BY <1>0, <1>2, <1>9, <2>1 DEF ListOffset, ListShape, Getting, Ring!Slots
  <2>4. LogSize > 1 => TimesListed' /\ GetIsInPlace'
    BY <1>1, <1>9, <2>2 DEF ListOffset, ListInv, TimesListed, GetIsInPlace, Entry
  <2> QED
    BY <1>2, <1>9, <2>3, <2>4 DEF ListOffset, ListInv, ListInOrder
<1>10. CASE ListEnd
  <2>1. ListShape'
    BY <1>0, <1>2, <1>10 DEF ListEnd, ListShape, Getting, Ring!Slots
  <2>2. TimesListed' /\ GetIsInPlace' /\ ListInOrder'
    BY <1>10 DEF ListEnd, TimesListed, GetIsInPlace, ListInOrder
  <2> QED
    BY <2>1, <2>2 DEF ListInv
<1> QED
  BY <1>6, <1>7, <1>8, <1>9, <1>10

\* The item a get appends, if it is one of its place in the log.
ItemOf(k, item) ==
  k + 1 \notin raced /\ item # Garbage => item.time = Dropped + k + 1

LEMMA ListAppends ==
  ASSUME ListInv, LogInv, NEW item \in Records \cup {Garbage},
         list' = Append(list, item), at \in Getting, at' = "next",
         LogSize > 1 => ItemOf(Len(list), item),
         UNCHANGED <<ring, main, size, raced>>,
         seen' \in Ring!Slots, offset' \in Ring!Slots
  PROVE  ListInv'
<1> USE AlertAssumption
<1> DEFINE k == Len(list)
<1>0. UNCHANGED <<tail, empty, records, todo>>
  BY DEF ring, main
<1>1. /\ Dropped' = Dropped /\ Dropped \in Int
  BY <1>0 DEF LogInv, IndexInv, Dropped, Kept, Whole, Stage, Pushing, LeastOf
<1>2. /\ k \in Nat /\ k < size /\ size \in -1 .. LogSize
      /\ list \in Seq(Records \cup {Garbage})
  BY DEF ListInv, ListShape
<1>3. /\ list' \in Seq(Records \cup {Garbage}) /\ Len(list') = k + 1
      /\ list'[k + 1] = item /\ \A i \in 1 .. k : list'[i] = list[i]
  BY <1>2
<1>4. k \in Nat
  BY <1>2
<1> HIDE DEF k
<1>5. ListShape'
  <2>1. size' \in -1 .. LogSize /\ Len(list') <= size'
    BY <1>2, <1>3
  <2>2. size' > 0 => ~empty'
    BY <1>0 DEF ListInv, ListShape
  <2> QED
    BY <1>3, <2>1, <2>2 DEF ListShape, Getting, Ring!Slots
<1>6. \A i \in 1 .. k : list[i] # Garbage => list[i].time \in Int
  BY <1>2 DEF k, Records
<1>7. \A i \in 1 .. k : LogSize > 1 /\ i \notin raced /\ list[i] # Garbage
                        => list[i].time <= Dropped + i
  BY DEF k, ListInv, TimesListed
<1>8. LogSize > 1 /\ k + 1 \notin raced /\ item # Garbage
      => item.time = Dropped + k + 1
  BY DEF k, ItemOf
<1>9. LogSize > 1 => TimesListed'
  <2> SUFFICES ASSUME LogSize > 1, NEW i \in 1 .. k + 1, i \notin raced,
                      list'[i] # Garbage
               PROVE  list'[i].time <= Dropped + i
    BY <1>1, <1>3 DEF TimesListed
  <2>1. CASE i = k + 1
    BY <1>1, <1>2, <1>3, <1>8, <2>1
  <2>2. CASE i \in 1 .. k
    BY <1>3, <1>7, <2>2
  <2>3. i = k + 1 \/ i \in 1 .. k
    BY <1>4
  <2> QED
    BY <2>1, <2>2, <2>3
<1>10. ListInOrder'
  <2> SUFFICES ASSUME NEW i \in 1 .. k + 1, NEW j \in 1 .. k + 1, i < j,
                      i \notin raced, j \notin raced,
                      list'[i] # Garbage, list'[j] # Garbage
               PROVE  list'[i].time < list'[j].time
    BY <1>3 DEF ListInOrder
  <2>1. CASE j \in 1 .. k
    <3>1. i \in 1 .. k /\ list'[i] = list[i] /\ list'[j] = list[j]
      BY <1>2, <1>3, <2>1
    <3> QED
      BY <2>1, <3>1 DEF ListInv, ListInOrder, k
  <2>2. CASE j = k + 1
    <3>1. i \in 1 .. k /\ list'[i] = list[i] /\ list'[j] = item /\ LogSize > 1
      BY <1>2, <1>3, <2>2
    <3>2. list[i].time <= Dropped + i /\ list[i].time \in Int
      BY <1>6, <1>7, <3>1
    <3> QED
      BY <1>1, <1>2, <1>8, <2>2, <3>1, <3>2
  <2>3. j = k + 1 \/ j \in 1 .. k
    BY <1>4
  <2> QED
    BY <2>1, <2>2, <2>3
<1>11. GetIsInPlace'
  BY DEF GetIsInPlace
<1> QED
  BY <1>5, <1>9, <1>10, <1>11 DEF ListInv

LEMMA ListGets ==
  ASSUME ListInv, LogInv, LogInv', Shown, ListTest \/ ListCopy
  PROVE  ListInv'
<1> USE AlertAssumption
<1>0. /\ ListShape /\ 0 \in Ring!Slots /\ seen \in Ring!Slots
      /\ offset \in Ring!Slots /\ Len(list) \in Nat
  BY DEF ListInv, ListShape, Ring!Slots
<1>1. CASE ListTest /\ Len(list) < Seen!Size
  <2>1. /\ at = "test" /\ at' = "offset" /\ seen' = 0
        /\ UNCHANGED <<ring, main, size, offset, list, raced>>
    BY <1>1 DEF ListTest
  <2>2. UNCHANGED <<tail, empty, records, todo>>
    BY <2>1 DEF ring, main
  <2>3. /\ Dropped' = Dropped /\ Kept' = Kept /\ Kept \in Int
    BY <2>2 DEF LogInv, IndexInv, Dropped, Kept, Whole, Stage, Pushing, LeastOf
  <2>4. ListShape'
    BY <1>0, <2>1, <2>2 DEF ListShape, Getting
  <2>5. Seen!Size \in Int
    BY SeenSizes DEF ListInv, ListShape, LogInv, TypeInv
  <2>6. LogSize > 1 => TimesListed' /\ GetIsInPlace'
    BY <1>0, <1>1, <2>1, <2>3, <2>5 DEF ListInv, TimesListed, GetIsInPlace, Entry
  <2> QED
    BY <2>1, <2>4, <2>6 DEF ListInv, ListInOrder
<1>2. CASE ListTest /\ ~(Len(list) < Seen!Size)
  <2>1. /\ at = "test" /\ at' = "next" /\ seen' = 0
        /\ list' = Append(list, Garbage)
        /\ UNCHANGED <<ring, main, size, offset, raced>>
    BY <1>2 DEF ListTest
  <2>2. ItemOf(Len(list), Garbage)
    BY DEF ItemOf
  <2> QED
    BY <1>0, <2>1, <2>2, ListAppends DEF Getting
<1>3. CASE ListCopy
  <2> DEFINE k == Len(list)
             item == buffer[offset]
  <2>1. /\ at = "copy" /\ at' = "next" /\ offset' = 0
        /\ list' = Append(list, item)
        /\ UNCHANGED <<ring, main, seen, size, raced>>
    BY <1>3 DEF ListCopy
  <2>2. item \in Records \cup {Garbage}
    BY <1>0 DEF LogInv, TypeInv
  <2>3. ASSUME LogSize > 1 PROVE ItemOf(k, item)
    <3> SUFFICES ASSUME k + 1 \notin raced PROVE item.time = Dropped + k + 1
      BY DEF ItemOf
    <3>1. k < Kept /\ offset = Ring!Slot(k)
      BY <2>1, <2>3 DEF ListInv, GetIsInPlace, Entry
    <3>2. Ring!Size = Kept /\ Ring!Size \in Nat
      BY <2>3 DEF Shown
    <3>3. k \in 0 .. Ring!Size - 1
      BY <1>0, <3>1, <3>2
    <3>4. item = buffer[Back(Kept - k)]
      BY <3>1, <3>2, <3>3 DEF Shown
    <3>5. Kept - k \in 1 .. Kept
      BY <3>2, <3>3
    <3>6. buffer[Back(Kept - k)].time = Whole - (Kept - k) + 1
      BY <3>5 DEF LogInv, TimesInv
    <3>7. Whole \in Int /\ Kept \in Int /\ k \in Int
      BY <1>0, <3>2 DEF LogInv, IndexInv
    <3> HIDE DEF item, k
    <3> QED
      BY <3>4, <3>6, <3>7 DEF Dropped
  <2> QED
    BY <1>0, <2>1, <2>2, <2>3, ListAppends DEF Getting
<1> QED
  BY <1>1, <1>2, <1>3

LEMMA ListNext == ListInv /\ LogInv /\ LogInv' /\ Shown /\ [Next]_vars => ListInv'
BY OthersKeepList, ListGoesOn, ListGets DEF Next, Command, List

(* cmd_alerts_list shows every record at most once and oldest first while  *)
(* alert_tracker_add pushes under it; only an entry that circular_buffer_  *)
(* get was at when a push moved the tail may be another one.               *)
THEOREM ListingsAreInOrder == Spec => []ListInOrder
<1>1. ListInv => ListInOrder
  BY DEF ListInv
<1> QED
  BY <1>1, LogInit, LogNext, LogShows, ListInit, ListNext, PTL DEF Spec
=============================================================================
