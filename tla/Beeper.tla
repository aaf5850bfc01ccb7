------------------------------- MODULE Beeper -------------------------------
(***************************************************************************)
(* The beeper of main.c: alerts of several beeps, which the main loop      *)
(* plays, and beeps that it forces on and takes back as long as there is   *)
(* something to warn of.  Alerts and the setting also come from commands;  *)
(* a function is one step.                                                 *)
(***************************************************************************)
EXTENDS Integers

CONSTANTS Alerts  \* the values of num_beeps

VARIABLES
  beeper_enabled,
  beep_num_left,  \* of the alert, twice: on when odd, off when even
  pin,            \* what was last written to beeper_pin
  duty_beeping,
  footpad_off,    \* the last step was an iteration that warned of it
  asked,          \* the last step asked for a sound
  odd             \* of the iterations, so that each one is a step

vars == <<beeper_enabled, beep_num_left, pin, duty_beeping, footpad_off, asked,
          odd>>

\* beeper_init; the Data struct is zeroed, then configured.
Init ==
  /\ beeper_enabled \in BOOLEAN
  /\ beep_num_left = 0 /\ pin = FALSE /\ duty_beeping = FALSE
  /\ footpad_off = FALSE /\ asked = FALSE /\ odd = FALSE

\* beep_on(d, true): the pin if it was p.  beep_off(d, false), with left beeps.
ForcedOn(p) == beeper_enabled \/ p
Off(p, left) == left > 0 /\ p

\* beeper_update, when the duration of the half beep is over.
Expires_Early == beeper_enabled /\ beep_num_left > 1
Expires == beeper_enabled /\ beep_num_left > 0

\* An iteration of the main loop, which warns of a footpad that is off, and, if
\* it gets as far as the setpoint of a ride, of a pushback by duty cycle.  In
\* Flywheel mode there are no warnings.
Iteration(elapsed, warns, reaches, pushback) ==
  LET left == IF elapsed /\ Expires THEN beep_num_left - 1 ELSE beep_num_left
      played == IF elapsed /\ Expires THEN left % 2 = 1 ELSE pin
      footpad == IF warns THEN ForcedOn(played) ELSE Off(played, left)
      duty == IF pushback THEN ForcedOn(footpad)
              ELSE IF duty_beeping THEN Off(footpad, left) ELSE footpad
  IN /\ beep_num_left' = left
     /\ pin' = IF reaches THEN duty ELSE footpad
     /\ duty_beeping' = (duty_beeping \/ (reaches /\ pushback))
     /\ footpad_off' = warns
     /\ asked' = (warns \/ (reaches /\ pushback))
     /\ odd' = ~odd
     /\ UNCHANGED beeper_enabled

\* beep_alert, with the setting as given.
Alert_Restarts(enabled, beeps) ==
  /\ beep_num_left' = IF enabled THEN 2 * beeps + 1 ELSE beep_num_left
  /\ asked' = TRUE
Alert(enabled, beeps) ==
  /\ beep_num_left' = IF enabled /\ beep_num_left = 0 THEN 2 * beeps + 1
                      ELSE beep_num_left
  /\ asked' = TRUE

\* Alerts of the main loop and of the commands.
BeepAlert ==
  /\ \E beeps \in Alerts : Alert(beeper_enabled, beeps)
  /\ footpad_off' = FALSE
  /\ UNCHANGED <<beeper_enabled, pin, duty_beeping, odd>>

\* configure; flywheel_stop forces the beeper on first.
Configure ==
  /\ beeper_enabled' \in BOOLEAN
  /\ \E beeps \in Alerts : Alert(beeper_enabled', beeps)
  /\ pin' \in {pin, ForcedOn(pin)}
  /\ footpad_off' = FALSE
  /\ UNCHANGED <<duty_beeping, odd>>

\* cmd_runtime_tune_other
RuntimeTuneOther ==
  /\ beeper_enabled' \in BOOLEAN
  /\ asked' = FALSE
  /\ footpad_off' = FALSE
  /\ UNCHANGED <<beep_num_left, pin, duty_beeping, odd>>

Main == \E elapsed, warns, reaches, pushback \in BOOLEAN :
          Iteration(elapsed, warns, reaches, pushback)
Next == Main \/ BeepAlert \/ Configure \/ RuntimeTuneOther

Spec == Init /\ [][Next]_vars

\* The loop goes on, and time passes.
Plays == \E warns, reaches, pushback \in BOOLEAN :
           Iteration(TRUE, warns, reaches, pushback)
FairSpec == Spec /\ WF_vars(Plays)

-----------------------------------------------------------------------------
(* Alerts do not starve each other: each is played to its end.             *)
AlertsEnd == <>[]beeper_enabled => []<>(beep_num_left = 0)

(* When nothing asks for a sound any more, the beeper falls silent.        *)
Silence == <>[](beeper_enabled /\ ~asked) => <>[]~pin

(* settings.xml:400: "beeps for as long as the sensor remains off".        *)
FootpadBeeps == footpad_off /\ beeper_enabled /\ beep_num_left = 0 => pin
=============================================================================
