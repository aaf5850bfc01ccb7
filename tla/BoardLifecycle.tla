---------------------------- MODULE BoardLifecycle ----------------------------
(***************************************************************************)
(* What the board promises about its lock, whatever it senses and however  *)
(* it is commanded: it rides only out of READY, it is never locked under a *)
(* rider, and the stored lock decides where a power cycle leaves it.       *)
(* The specification state.c is written to; BoardState implements it.      *)
(***************************************************************************)
VARIABLES phase,   \* the run state
          locked   \* what the EEPROM says

Init == /\ locked \in BOOLEAN
        /\ phase = IF locked THEN "DISABLED" ELSE "STARTUP"

Ready  == phase = "STARTUP" /\ phase' = "READY" /\ UNCHANGED locked
Engage == phase = "READY" /\ phase' = "RUNNING" /\ UNCHANGED locked
Stop   == phase = "RUNNING" /\ phase' = "READY" /\ UNCHANGED locked

Lock   == phase # "RUNNING" /\ phase' = "DISABLED" /\ locked' = TRUE
Unlock == phase = "DISABLED" /\ phase' = "STARTUP" /\ locked' = FALSE

\* The supply may go at any moment.
PowerCycle == /\ phase' = IF locked THEN "DISABLED" ELSE "STARTUP"
              /\ UNCHANGED locked

Next == Ready \/ Engage \/ Stop \/ Lock \/ Unlock \/ PowerCycle
Spec == Init /\ [][Next]_<<phase, locked>>
=============================================================================
