------------------------------ MODULE BmsFaults ------------------------------
(***************************************************************************)
(* BMS integration (bms.c): a Lisp script pushes the values of the battery *)
(* (ext_bms of main.c), which are stored one by one, and the main loop     *)
(* reads them one by one each iteration.  Times are in seconds.            *)
(***************************************************************************)
EXTENDS Integers

CONSTANTS
  Timeout,  \* 5 seconds
  Messages  \* [lv, hv, hot, age]: the lowest and the highest cell, of which below 1
            \* is too low, above 1 too high, and more than 1 apart out of balance

VARIABLES
  enabled,
  cell_lv, cell_hv, hot, msg_age, push_timer,  \* of struct BMS; the timer's age
  started,   \* seconds since the start, up to Timeout + 1
  fault_mask,
  todo,      \* the stores that are left of a push
  message,   \* the one that is pushed
  reading,   \* what bms_update reads next
  found, data_age, lv,   \* its locals: fault_mask, msg_age and cell_lv
  \* History, which no action reads:
  pushed,    \* the message that was pushed last
  since,     \* seconds since it was
  seen,      \* the messages that were there during this evaluation
  quiet      \* it has met neither a push nor the end of a second

bms == <<cell_lv, cell_hv, hot, msg_age, push_timer>>
pushing == <<todo, message, pushed, since>>
locals == <<found, data_age, lv>>
evaluation == <<reading, locals, seen, quiet>>
vars == <<enabled, bms, started, fault_mask, pushing, evaluation>>

Old == Timeout + 1
Aged(age) == IF age = Old THEN Old ELSE age + 1

\* bms_init
NoMessage == [lv |-> 0, hv |-> 0, hot |-> FALSE, age |-> Old]
Init ==
  /\ enabled \in BOOLEAN
  /\ cell_lv = 0 /\ cell_hv = 0 /\ hot = FALSE /\ msg_age = Old /\ push_timer = 0
  /\ started = 0 /\ fault_mask = {}
  /\ todo = "none" /\ message = NoMessage /\ pushed = NoMessage
  /\ since = 0
  /\ reading = "none" /\ found = {} /\ data_age = 0 /\ lv = 0
  /\ seen = {} /\ quiet = FALSE

-----------------------------------------------------------------------------
\* What bms_update says of values, besides their age.
Under(low) == {f \in {"UNDER_VOLTAGE"} : low < 1}
Over(high) == {f \in {"OVER_VOLTAGE"} : high > 1}
Warm(is_hot) == {f \in {"OVER_TEMP"} : is_hot}
Apart(low, high) == {f \in {"BALANCE"} : high - low > 1 \/ low - high > 1}

\* bms_update, read by read.  The two temperatures are one here.
DataAge_AsReported == data_age
DataAge == data_age + push_timer

EvaluateBegins ==
  /\ reading = "none"
  /\ IF enabled
     THEN /\ reading' = "timer" /\ data_age' = msg_age
          /\ seen' = {pushed} \cup {m \in {message} : todo # "none"}
          /\ quiet' = (todo = "none")
          /\ UNCHANGED <<fault_mask, found, lv>>
     ELSE fault_mask' = {} /\ UNCHANGED evaluation
  /\ UNCHANGED <<enabled, bms, started, pushing>>

EvaluateAge ==
  /\ reading = "timer" /\ data_age' = 0
  /\ IF DataAge > Timeout
     THEN /\ reading' = "none"
          /\ fault_mask' = {f \in {"CONNECTION"} : started > Timeout}
          /\ seen' = {} /\ quiet' = FALSE
     ELSE reading' = "lv" /\ UNCHANGED <<fault_mask, seen, quiet>>
  /\ UNCHANGED <<enabled, bms, started, pushing, found, lv>>

EvaluateValues ==
  /\ \/ reading = "lv" /\ reading' = "hv" /\ found' = found \cup Under(cell_lv)
     \/ reading = "hv" /\ reading' = "hot" /\ found' = found \cup Over(cell_hv)
     \/ reading = "hot" /\ reading' = "balance" /\ found' = found \cup Warm(hot)
  /\ UNCHANGED <<enabled, bms, started, fault_mask, pushing, data_age, lv, seen,
                 quiet>>

\* Both cells are read once more for the balance.
EvaluateBalance ==
  /\ reading = "balance" /\ reading' = "end" /\ lv' = cell_lv
  /\ UNCHANGED <<enabled, bms, started, fault_mask, pushing, found, data_age, seen,
                 quiet>>

EvaluateEnds ==
  /\ reading = "end" /\ reading' = "none"
  /\ fault_mask' = found \cup Apart(lv, cell_hv)
  /\ found' = {} /\ lv' = 0 /\ seen' = {} /\ quiet' = FALSE
  /\ UNCHANGED <<enabled, bms, started, pushing, data_age>>

Evaluate ==
  \/ EvaluateBegins \/ EvaluateAge \/ EvaluateValues
  \/ EvaluateBalance \/ EvaluateEnds

\* ext_bms, store by store.
PushBegins ==
  /\ todo = "none" /\ enabled
  /\ message' \in Messages
  /\ cell_lv' = message'.lv /\ todo' = "hv"
  /\ seen' = seen \cup {m \in {message'} : reading # "none"} /\ quiet' = FALSE
  /\ UNCHANGED <<enabled, cell_hv, hot, msg_age, push_timer, started, fault_mask,
                 pushed, since, reading, locals>>
PushStores ==
  /\ \/ todo = "hv" /\ cell_hv' = message.hv /\ todo' = "hot" /\ UNCHANGED <<hot, msg_age>>
     \/ todo = "hot" /\ hot' = message.hot /\ todo' = "age" /\ UNCHANGED <<cell_hv, msg_age>>
     \/ todo = "age" /\ msg_age' = message.age /\ todo' = "timer" /\ UNCHANGED <<cell_hv, hot>>
  /\ UNCHANGED <<enabled, cell_lv, push_timer, started, fault_mask, message,
                 pushed, since, evaluation>>
PushEnds ==
  /\ todo = "timer" /\ push_timer' = 0 /\ todo' = "none"
  /\ pushed' = message /\ message' = NoMessage /\ since' = 0
  /\ UNCHANGED <<enabled, cell_lv, cell_hv, hot, msg_age, started, fault_mask,
                 evaluation>>

Configure ==
  /\ enabled' = ~enabled
  /\ UNCHANGED <<bms, started, fault_mask, pushing, evaluation>>

\* The timers of a board that is on for a long time do not wrap here.
Second ==
  /\ started' = Aged(started) /\ push_timer' = Aged(push_timer)
  /\ since' = Aged(since) /\ quiet' = FALSE
  /\ UNCHANGED <<enabled, cell_lv, cell_hv, hot, msg_age, fault_mask, todo, message,
                 pushed, reading, locals, seen>>

Next ==
  Evaluate \/ PushBegins \/ PushStores \/ PushEnds \/ Configure \/ Second

Spec == Init /\ [][Next]_vars

-----------------------------------------------------------------------------
FaultsOf(m) == Under(m.lv) \cup Over(m.hv) \cup Warm(m.hot) \cup Apart(m.lv, m.hv)

(* However the reads of the main loop and the stores of the pushes         *)
(* interleave (bms.c:46-89, main.c:2580-2586): an evaluation tells of no   *)
(* fault of a single value that none of the messages has which were there  *)
(* while it went on.  If it met no push, and no second passed, it tells of *)
(* the last message's faults while that is fresh, and after that of        *)
(* nothing but the connection, once the board is up.  The balance of a     *)
(* cell of one and a cell of another message, and the sum of the ages of   *)
(* two, may be wrong; and of several messages it may tell a mixture.       *)
FaultsAreTold ==
  [][(EvaluateAge /\ reading' = "none") \/ EvaluateEnds =>
       /\ fault_mask' \ {"BALANCE", "CONNECTION"}
            \subseteq UNION {FaultsOf(m) : m \in seen}
       /\ quiet =>
            fault_mask' = IF pushed.age + since <= Timeout THEN FaultsOf(pushed)
                          ELSE {f \in {"CONNECTION"} : started > Timeout}]_vars
=============================================================================
