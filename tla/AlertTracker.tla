---------------------------- MODULE AlertTracker ----------------------------
(***************************************************************************)
(* The alert tracker (alert_tracker.c) with its users: the main thread     *)
(* reports the firmware fault once an iteration (motor_data.c) and closes  *)
(* the iteration, the command thread configures it, clears the fatal error *)
(* and lists the log (main.c), and nothing is locked.  A step is one       *)
(* access to the tracker, or a run of accesses no other thread tells       *)
(* apart.                                                                  *)
(*                                                                         *)
(* There is one alert, ALERT_FW_FAULT, so a mask is a BOOLEAN.  The log is *)
(* a circular buffer; the time of a record is its number.  The filter and  *)
(* the truncation of the listing are left out: they only shorten it.       *)
(***************************************************************************)
EXTENDS Integers, Sequences

CONSTANTS Codes,         \* the firmware fault codes
          None,          \* FAULT_CODE_NONE
          Garbage,       \* a record that was never written
          LogSize,       \* ALERT_TRACKER_SIZE
          MaxRecords     \* bound on the number of records

ASSUME AlertAssumption ==
  /\ None \notin Codes
  /\ LogSize \in Nat \ {0} /\ MaxRecords \in Nat

VARIABLES
  fault,              \* mc_get_fault() of the firmware
  persistent,         \* persistent_fatal_error
  active, new_active, \* active_alert_mask, new_active_alert_mask
  code,               \* fw_fault_code
  fatal,              \* fatal_error
  head, tail, empty, buffer,  \* alert_buffer
  records,            \* how many were pushed
  todo,               \* what is left of the main thread's iteration
  pushed,             \* the record the main thread pushes
  kept,               \* the main thread's new value of fatal_error
  at,                 \* what the command thread's listing does next
  seen, size, offset, list,   \* of the listing; size is -1 before it is known
  raced               \* history: entries got while the tail moved

ring == <<head, tail, empty, buffer>>
tracker == <<persistent, active, new_active, code, fatal>>
main == <<records, todo, pushed, kept>>
listing == <<at, seen, size, offset, list, raced>>
vars == <<fault, tracker, ring, main, listing>>

Records == [time : 1 .. MaxRecords, active : BOOLEAN, code : Codes \cup {None}]

Ring == INSTANCE CircularBuffer
          WITH Items <- Records \cup {Garbage}, Length <- LogSize,
               WordSize <- 2 * LogSize + 1
\* The buffer as its size is computed from a head that was read before.
Seen == INSTANCE CircularBuffer
          WITH Items <- Records \cup {Garbage}, Length <- LogSize,
               WordSize <- 2 * LogSize + 1, head <- seen

\* alert_tracker_init, then alert_tracker_configure.
Init ==
  /\ fault = None
  /\ persistent \in BOOLEAN
  /\ active = FALSE /\ new_active = FALSE /\ code = None /\ fatal = FALSE
  /\ head = 0 /\ tail = 0 /\ empty = TRUE
  /\ buffer = [slot \in 0 .. LogSize - 1 |-> Garbage]
  /\ records = 0 /\ todo = <<>> /\ pushed = Garbage /\ kept = FALSE
  /\ at = "idle" /\ seen = 0 /\ size = -1 /\ offset = 0
  /\ list = <<>> /\ raced = {}

Does(access) == todo # <<>> /\ Head(todo) = access
Then(more) == todo' = more \o Tail(todo)

-----------------------------------------------------------------------------
\* The firmware faults and recovers on its own.
FirmwareFault ==
  /\ records < MaxRecords - 1
  /\ fault' \in Codes \cup {None}
  /\ UNCHANGED <<tracker, ring, main, listing>>

\* circular_buffer_push: the steps a reader can tell apart.  An index past
\* the end, before increment() wraps it, reads to size and get as wrapped.
push_CopyFirst == <<"copy", "tail", "head">>
push == <<"tail", "copy", "head">>

Pushes(is_active, its_code, more) ==
  /\ records < MaxRecords
  /\ pushed' = [time |-> records + 1, active |-> is_active, code |-> its_code]
  /\ records' = records + 1
  /\ todo' = push \o more

\* A circular_buffer_get is under way, for the entry Len(list) + 1.
Getting == {"test", "offset", "copy"}

PushTail_Overtakes ==
  /\ Does("tail") /\ Then(<<>>)
  /\ UNCHANGED <<fault, tracker, ring, records, pushed, kept, listing>>
PushTail ==
  /\ Does("tail") /\ Then(<<>>)
  /\ tail' = IF ~empty /\ head = tail THEN Ring!Incremented(tail) ELSE tail
  /\ raced' = IF tail' # tail /\ at \in Getting
              THEN raced \cup {Len(list) + 1} ELSE raced
  /\ UNCHANGED <<fault, tracker, head, empty, buffer, records, pushed, kept,
                 at, seen, size, offset, list>>

PushCopy ==
  /\ Does("copy") /\ Then(<<>>)
  /\ buffer' = [buffer EXCEPT ![head] = pushed]
  /\ UNCHANGED <<fault, tracker, head, tail, empty, records, pushed, kept,
                 listing>>

PushHead ==
  /\ Does("head") /\ Then(<<>>)
  /\ head' = Ring!Incremented(head) /\ empty' = FALSE
  /\ UNCHANGED <<fault, tracker, tail, buffer, records, pushed, kept,
                 listing>>

\* motor_data_evaluate_alerts and alert_tracker_add: a record for a fault
\* that is new or has another code.
Reported == active /\ fault = code

Evaluate ==
  /\ todo = <<>>
  /\ IF fault = None
     THEN todo' = <<"finalize">> /\ UNCHANGED <<records, pushed, code>>
     ELSE /\ code' = fault
          /\ IF Reported
             THEN /\ todo' = <<"raise", "finalize">>
                  /\ UNCHANGED <<records, pushed>>
             ELSE Pushes(TRUE, fault, <<"raise", "finalize">>)
  /\ UNCHANGED <<fault, persistent, active, new_active, fatal, ring, kept,
                 listing>>

Raise_New ==
  /\ Does("raise") /\ Then(<<>>)
  /\ fatal' = (fatal \/ ~active) /\ new_active' = TRUE
  /\ UNCHANGED <<fault, persistent, active, code, ring, records, pushed, kept,
                 listing>>
Raise ==
  /\ Does("raise") /\ Then(<<>>)
  /\ fatal' = TRUE /\ new_active' = TRUE
  /\ UNCHANGED <<fault, persistent, active, code, ring, records, pushed, kept,
                 listing>>

\* alert_tracker_finalize: a record for a fault that ended.  The fatal error
\* is kept if it is persistent or the alert was active an iteration ago.
ClearsFatal_Inverted == persistent /\ ~active
ClearsFatal == ~persistent /\ ~active

closing == IF ClearsFatal THEN <<"masks", "test_clear", "store">>
           ELSE <<"masks", "test_keep", "store">>

Finalize_KeepsCode ==
  /\ Does("finalize")
  /\ IF active /\ ~new_active
     THEN Pushes(FALSE, None, closing) /\ UNCHANGED code
     ELSE todo' = closing /\ UNCHANGED <<records, pushed, code>>
  /\ UNCHANGED <<fault, persistent, active, new_active, fatal, ring, kept,
                 listing>>
Finalize ==
  /\ Does("finalize")
  /\ IF active /\ ~new_active
     THEN Pushes(FALSE, None, closing) /\ code' = None
     ELSE todo' = closing /\ UNCHANGED <<records, pushed, code>>
  /\ UNCHANGED <<fault, persistent, active, new_active, fatal, ring, kept,
                 listing>>

Masks ==
  /\ Does("masks") /\ Then(<<>>)
  /\ active' = new_active /\ new_active' = FALSE
  /\ UNCHANGED <<fault, persistent, code, fatal, ring, records, pushed, kept,
                 listing>>

\* fatal_error &= !clear_fatal: the flag is read, then written.
LoadFatal ==
  /\ \/ Does("test_clear") /\ kept' = FALSE
     \/ Does("test_keep") /\ kept' = fatal
  /\ Then(<<>>)
  /\ UNCHANGED <<fault, tracker, ring, records, pushed, listing>>

StoreFatal ==
  /\ Does("store") /\ Then(<<>>)
  /\ fatal' = kept
  /\ UNCHANGED <<fault, persistent, active, new_active, code, ring, records,
                 pushed, kept, listing>>

Main ==
  \/ Evaluate \/ Raise \/ Finalize \/ Masks \/ LoadFatal \/ StoreFatal
  \/ PushTail \/ PushCopy \/ PushHead

-----------------------------------------------------------------------------
(* The command thread: a listing is not interrupted by other commands.     *)

\* alert_tracker_configure
Configure ==
  /\ at = "idle"
  /\ persistent' = ~persistent
  /\ UNCHANGED <<fault, active, new_active, code, fatal, ring, main, listing>>

\* alert_tracker_clear_fatal
ClearFatal ==
  /\ at = "idle"
  /\ fatal' = FALSE
  /\ UNCHANGED <<fault, persistent, active, new_active, code, ring, main,
                 listing>>

\* cmd_alerts_list: the size is computed once, from the head and then the
\* tail and the empty flag.
ListStart ==
  /\ at = "idle"
  /\ at' = "size" /\ seen' = head
  /\ UNCHANGED <<fault, tracker, ring, main, size, offset, list, raced>>

ListSize ==
  /\ at = "size"
  /\ at' = "next" /\ size' = Seen!Size /\ seen' = 0
  /\ UNCHANGED <<fault, tracker, ring, main, offset, list, raced>>

\* circular_buffer_get computes it anew for every entry.
ListGet ==
  /\ at = "next" /\ Len(list) < size
  /\ at' = "test" /\ seen' = head
  /\ UNCHANGED <<fault, tracker, ring, main, size, offset, list, raced>>

\* What it returns is not looked at: the entry may not be there.
ListTest ==
  /\ at = "test"
  /\ IF Len(list) < Seen!Size
     THEN at' = "offset" /\ UNCHANGED list
     ELSE at' = "next" /\ list' = Append(list, Garbage)
  /\ seen' = 0
  /\ UNCHANGED <<fault, tracker, ring, main, size, offset, raced>>

ListOffset ==
  /\ at = "offset"
  /\ at' = "copy" /\ offset' = Ring!Slot(Len(list))
  /\ UNCHANGED <<fault, tracker, ring, main, seen, size, list, raced>>

ListCopy ==
  /\ at = "copy"
  /\ at' = "next" /\ list' = Append(list, buffer[offset]) /\ offset' = 0
  /\ UNCHANGED <<fault, tracker, ring, main, seen, size, raced>>

ListEnd ==
  /\ at = "next" /\ Len(list) = size
  /\ at' = "idle" /\ size' = -1 /\ list' = <<>> /\ raced' = {}
  /\ UNCHANGED <<fault, tracker, ring, main, seen, offset>>

List ==
  \/ ListStart \/ ListSize
  \/ ListGet \/ ListTest \/ ListOffset \/ ListCopy \/ ListEnd

Command == Configure \/ ClearFatal \/ List

Next == FirmwareFault \/ Main \/ Command
Spec == Init /\ [][Next]_vars
FairSpec == Spec /\ WF_vars(Main)

-----------------------------------------------------------------------------
(* Between iterations the newest record tells whether the alert is active, *)
(* and of which fault: no start, change or end of a fault goes unrecorded. *)
LogTellsActive ==
  todo = <<>> =>
    IF active
    THEN ~empty /\ LET newest == Ring!Contents[Ring!Size]
                   IN newest.active /\ newest.code = code
    ELSE code = None /\ (~empty => ~Ring!Contents[Ring!Size].active)

(* The log holds the newest records, as many as fit, in order.             *)
LogIsRecent ==
  todo = <<>> =>
    /\ Ring!Size = IF records < LogSize THEN records ELSE LogSize
    /\ \A i \in 1 .. Ring!Size :
         Ring!Contents[i].time = records - Ring!Size + i

(* A listing may miss records that are pushed meanwhile, but shows what it *)
(* shows in order and once.  The exception is an entry that is being got   *)
(* while a push to the full log moves the tail (main.c:2221, "racey"): its *)
(* slot may hold the newest record by the time it is copied, or the one    *)
(* just dropped.  A push between two entries disturbs nothing.             *)
ListInOrder ==
  \A i, j \in 1 .. Len(list) \ raced :
    i < j /\ list[i] # Garbage /\ list[j] # Garbage
    => list[i].time < list[j].time

(* An error that is not persistent does not outlive its fault.             *)
FatalEnds == <>[](fault = None /\ ~persistent) => <>[]~fatal

(* A fault that lasts is signalled, also after its error was cleared.      *)
FatalRaised == <>[](fault # None) => []<>fatal
=============================================================================
