--------------------------- MODULE BoardProperties ---------------------------
(* What the run state machine promises: the properties of BoardState.      *)
EXTENDS BoardState

(* Every variable has its type.  Names the fields of Data (data.h) and     *)
(* State (state.h).                                                        *)
TypeOK ==
  /\ state \in RunStates /\ mode \in Modes /\ sat \in Sats
  /\ stop_condition \in StopConditions
  /\ charging \in BOOLEAN /\ wheelslip \in BOOLEAN /\ darkride \in BOOLEAN
  /\ enable_upside_down \in BOOLEAN /\ is_upside_down_started \in BOOLEAN
  /\ flywheel_abort \in BOOLEAN /\ flywheel_offset \in BOOLEAN
  /\ startup_pitch_tolerance \in Nat
  /\ startup_pitch_trickmargin \in {0, 10}
  /\ footpad \in FootpadStates
  /\ conf \in Configs /\ eeprom \in Configs
  /\ age \in [Timers -> Nat]

(* The wheelslip flag, which suspends the tilts, is only up while riding:  *)
(* every way out of RUNNING, a command's included, takes it down.          *)
WheelslipOnlyRiding == wheelslip => state = "RUNNING"

(* The lock is in three places, the run state, the configuration in use    *)
(* and the stored one; no sequence of iterations, commands and power       *)
(* cycles makes them disagree while the EEPROM works.                      *)
LockAgreement ==
  ~EepromFails => /\ conf.disabled = eeprom.disabled
                  /\ (state = "DISABLED") = conf.disabled

(* A rider who leaves the footpad is not carried on: an upright board that *)
(* rides on with the footpad open has it open for no longer than the       *)
(* configured full switch delay (check_faults), unless the configuration   *)
(* disables switch faults while moving.                                    *)
DeadMan ==
  /\ state = "RUNNING" /\ footpad = "NONE" /\ ~darkride
  /\ mode # "FLYWHEEL" /\ ~conf.moving_fault_disabled
  /\ age["engage"] > 0
  => age["switch"] <= conf.delay_full

(* The wider tolerance of a dirty landing ends one second after the full   *)
(* switch fault that granted it, and nothing else grants it.               *)
DirtyLandingWindow ==
  state = "READY" /\ startup_pitch_tolerance > conf.pitch_tol
  => stop_condition = "SWITCH_FULL" /\ age["pitch"] <= Sec1

Engage == state # "RUNNING" /\ state' = "RUNNING"

(* An upside-down board engages on its own only as the continuation of a   *)
(* ride that ended at most 10 seconds before, and within the first second  *)
(* never after a reverse stop, which would make it oscillate; a foot on    *)
(* the pads, or Flywheel mode, is another matter.                          *)
DarkrideEngage ==
  [][Engage /\ darkride' /\ footpad' = "NONE" /\ mode # "FLYWHEEL"
     => /\ age'["disengage"] <= Sec10
        /\ age'["disengage"] > Sec1 \/ stop_condition # "REVERSE_STOP"]_vars

(* A board on the charger does not engage, except upside down where        *)
(* can_engage is not asked.                                                *)
ChargingBlocksEngage == [][Engage /\ charging' => darkride']_vars

(* No handler but the save command makes a temporary tune of a special     *)
(* mode persistent (cmd_lock restores the configuration for this reason).  *)
OnlySavePersistsTempTune ==
  [][eeprom'.temp # {} /\ eeprom'.temp # eeprom.temp => CmdCfgSave]_vars

(* A board locked in the EEPROM is locked again after a power cycle, and   *)
(* leaves the locked state only by a command or a configuration write.     *)
LockSurvives ==
  [][~EepromFails /\ state = "DISABLED" /\ state' # "DISABLED"
     => \/ CmdLock(FALSE)
        \/ \E c \in UserConfigs : SetCfg(c, FALSE)]_vars

(* The machine of this module is an implementation of the lifecycle, with  *)
(* the stored disabled flag as the lock.                                   *)
Lifecycle == INSTANCE BoardLifecycle
               WITH phase <- state, locked <- eeprom.disabled
ImplementsLifecycle == Lifecycle!Spec

(* main.c, cmd_flywheel_toggle: "Ensure PID won't run with the wrong pitch *)
(* by stopping before mode change".                                        *)
StopsBeforeModeChange ==
  [][state = "RUNNING" /\ mode' # mode => state' # "RUNNING"]_vars

(* main.c, cmd_lock: "restore config before locking to avoid accidentally  *)
(* writing temporary changes", and set_cfg: "don't let users use the       *)
(* Refloat Cfg "write" button in special modes".                           *)
TempTuneNotStored == eeprom.temp = {}
=============================================================================
