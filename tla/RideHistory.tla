----------------------------- MODULE RideHistory -----------------------------
(***************************************************************************)
(* BoardState with two history variables that watch an upside-down ride    *)
(* from the outside: for how many iterations in a row it has gone the      *)
(* wrong way.  They know nothing of the fault timers, which check_faults   *)
(* shares between conditions and refreshes when one of them is absent, so  *)
(* that a promise about them is one about the ride, not about a timer.     *)
(***************************************************************************)
EXTENDS BoardProperties

VARIABLES
  wrong_way,   \* iterations in a row upside down at more than 1000 ERPM
  creeping     \* iterations in a row upside down at more than 300 ERPM

historyVars == <<wrong_way, creeping>>

\* The iteration is one of an upside-down ride that goes on.
UpsideDownRide == state = "RUNNING" /\ state' = "RUNNING" /\ darkride'

Lasted(longer, count) == IF UpsideDownRide /\ longer THEN count + 1 ELSE 0

HistoryInit == Init /\ wrong_way = 0 /\ creeping = 0

HistoryNext ==
  \/ \E in \in SensorReadings :
       /\ MainLoop(in)
       /\ wrong_way' = Lasted(in.erpm > 1000, wrong_way)
       /\ creeping' = Lasted(in.erpm > 300, creeping)
  \/ Outside /\ UNCHANGED historyVars

HistorySpec == HistoryInit /\ [][HistoryNext]_<<vars, historyVars>>

-----------------------------------------------------------------------------
(* Upside down there is no footpad to leave: a board that runs off the     *)
(* wrong way is stopped (check_faults, the darkride branch).  However the  *)
(* ride got there, by a roll, a jump, slowly or at once, and whatever the  *)
(* commands change meanwhile, it goes the wrong way at more than 1000 ERPM *)
(* for no longer than 100 ms, and at more than 300 ERPM for no longer than *)
(* 600 ms: the 500 ms of the slow check, which is not made while the board *)
(* is fast, and the 100 ms of the fast one.  The code puts no end to 300   *)
(* ERPM or less.                                                           *)
DarkrideReverseStop ==
  wrong_way <= Ms100 /\ creeping <= Ms500 + Ms100
=============================================================================
