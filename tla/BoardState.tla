------------------------------ MODULE BoardState ------------------------------
(***************************************************************************)
(* The run state machine of the board: src/state.c, the state switch of    *)
(* refloat_thd (main.c) with check_faults and the engage conditions, and   *)
(* the handlers that move the state, the mode or the configuration from    *)
(* the outside (app commands, VESC Tool writes, the charger, a power       *)
(* cycle).  Every action is one whole handler or one whole iteration of    *)
(* the main loop; the interleavings inside them are the subject of         *)
(* module BoardRaces.                                                      *)
(*                                                                         *)
(* A timer of the code (`d->time.now - timer`) is an age in iterations,    *)
(* saturated at Cap: no threshold of the code tells larger ages apart.     *)
(* Angles are absolute values in whole degrees, speeds are whole ERPM.     *)
(*                                                                         *)
(* A definition X_Fault above X is X with a plausible fault: no action     *)
(* uses it, it is there to see which property would notice the fault.      *)
(***************************************************************************)
EXTENDS Integers, Sequences

CONSTANTS
  SensorReadings,  \* what one iteration may read: a set of records, below
  UserConfigs,     \* configurations a user may write (temp = {})
  DefaultConfig,   \* confparser_set_defaults_refloatconfig
  Commands,        \* the handlers of the outside that may run
  EepromFails,     \* TRUE: an EEPROM access may fail
  Sec1, Sec2, Sec10, Ms30, Ms100, Ms500,  \* the code's fixed delays
  ChargingTimeout,                        \* charging_timeout: 5 seconds
  MaxDelay         \* the largest configurable fault delay

RunStates == {"DISABLED", "STARTUP", "READY", "RUNNING"}
Modes     == {"NORMAL", "HANDTEST", "FLYWHEEL"}
Sats      == {"NONE", "CENTERING", "REVERSESTOP", "PUSHBACK"}
StopConditions == {"NONE", "PITCH", "ROLL", "SWITCH_HALF", "SWITCH_FULL",
                   "REVERSE_STOP", "QUICKSTOP"}
FootpadStates  == {"NONE", "HALF", "BOTH"}
Timers == {"engage", "disengage", "switch", "half", "roll", "pitch",
           "upside", "charging"}

\* temp: the special modes whose temporary overrides the values contain.
Configs ==
  [disabled : BOOLEAN, temp : SUBSET {"HANDTEST", "FLYWHEEL"},
   pitch_tol : Nat, roll_tol : Nat, fault_pitch : Nat, fault_roll : Nat,
   delay_pitch : Nat, delay_roll : Nat, delay_full : Nat, delay_half : Nat,
   half_erpm : Nat, darkride : BOOLEAN, reversestop : BOOLEAN,
   dual_switch : BOOLEAN, simplestart : BOOLEAN, pushstart : BOOLEAN,
   quickstop : BOOLEAN, moving_fault_disabled : BOOLEAN,
   dirtylandings : BOOLEAN]

ASSUME ReadingsAssumption ==
  \A in \in SensorReadings : in.footpad \in FootpadStates /\ in.erpm \in Int

ASSUME ConfigAssumption ==
  /\ UserConfigs \subseteq Configs
  /\ DefaultConfig \in UserConfigs
  /\ ~DefaultConfig.disabled
  /\ \A c \in UserConfigs : c.temp = {}
  /\ EepromFails \in BOOLEAN

ASSUME TimeAssumption ==
  /\ Sec1 \in Nat /\ Sec2 \in Nat /\ Sec10 \in Nat
  /\ Ms30 \in Nat /\ Ms100 \in Nat /\ Ms500 \in Nat
  /\ ChargingTimeout \in Nat /\ MaxDelay \in Nat

VARIABLES
  state, mode, sat, stop_condition,   \* State (state.h)
  charging, wheelslip, darkride,
  enable_upside_down, is_upside_down_started, flywheel_abort,
  flywheel_offset,                    \* imu.flywheel_pitch_offset /= 0
  startup_pitch_tolerance, startup_pitch_trickmargin,
  footpad,                            \* footpad.state
  conf, eeprom,                       \* float_conf and its stored image
  age                                 \* of every timer

vars == <<state, mode, sat, stop_condition, charging, wheelslip, darkride,
          enable_upside_down, is_upside_down_started, flywheel_abort,
          flywheel_offset, startup_pitch_tolerance,
          startup_pitch_trickmargin, footpad, conf, eeprom, age>>

-----------------------------------------------------------------------------
(* Time: one iteration of the main loop makes every timer one unit older.  *)

Larger(a, b) == IF a > b THEN a ELSE b
Cap == [t \in Timers |->
          CASE t = "engage"    -> Sec1 + 1
            [] t = "disengage" -> Larger(Sec10, Larger(Sec2, Sec1)) + 1
            [] t = "switch"    -> Larger(MaxDelay, Larger(Ms100, Ms30)) + 1
            [] t = "half"      -> MaxDelay + 1
            [] t = "roll"      -> Larger(MaxDelay, Ms500) + 1
            [] t = "pitch"     -> Larger(MaxDelay, Sec1) + 1
            [] t = "upside"    -> Sec1 + 1
            [] t = "charging"  -> ChargingTimeout + 1]

\* time_update: while riding the disengage timer is kept at now.
Aged == [t \in Timers |->
           IF t = "disengage" /\ state = "RUNNING" THEN 0
           ELSE IF age[t] < Cap[t] THEN age[t] + 1 ELSE Cap[t]]

Refreshed(ages, ts) == [t \in Timers |-> IF t \in ts THEN 0 ELSE ages[t]]

-----------------------------------------------------------------------------
(* state.c and configure()                                                 *)

SetDisabled_NoUnlock(s, disabled) ==
  IF s # "RUNNING" /\ disabled THEN "DISABLED" ELSE s

SetDisabled(s, disabled) ==
  IF s # "RUNNING" /\ disabled THEN "DISABLED"
  ELSE IF s = "DISABLED" /\ ~disabled THEN "STARTUP" ELSE s

\* The results an EEPROM read or write may leave behind.  A failed read
\* falls back to the defaults, or keeps what there was when out of memory.
Loaded    == IF EepromFails THEN {eeprom, DefaultConfig, conf} ELSE {eeprom}
Stored(c) == IF EepromFails THEN {eeprom, c} ELSE {c}

TrickMargin_Summed(c) == c.pitch_tol + IF c.dirtylandings THEN 10 ELSE 0

TrickMargin(c) == IF c.dirtylandings THEN 10 ELSE 0

\* The flywheel tune; 0.2 degrees of tolerance admit only level readings.
FlywheelTune(c, command) ==
  [c EXCEPT !.temp = @ \cup {"FLYWHEEL"}, !.pitch_tol = 1, !.roll_tol = 25,
            !.fault_pitch = 6,
            !.fault_roll = IF (command \div 4) % 2 = 1 THEN 90 ELSE 35,
            !.delay_pitch = 1, !.delay_roll = 1,
            !.darkride = FALSE, !.reversestop = FALSE]

HandtestTune(c) ==
  [c EXCEPT !.temp = @ \cup {"HANDTEST"}, !.delay_pitch = 1,
            !.delay_roll = 1]

\* flywheel_stop, entered with the run state s.
FlywheelStop(s) ==
  \E c \in Loaded :
    /\ mode' = "NORMAL"
    /\ conf' = c
    /\ state' = SetDisabled(s, c.disabled)
    /\ startup_pitch_trickmargin' = TrickMargin(c)

-----------------------------------------------------------------------------
(* The start of an iteration, common to all states.                        *)

ChargingNow == charging /\ Aged["charging"] <= ChargingTimeout

DarkrideNow(in) ==
  \/ darkride /\ (conf.darkride => in.roll >= 120)
  \/ ~darkride /\ conf.darkride /\ enable_upside_down /\ in.roll > 150

\* is_upside_down_started is cleared as darkride turns on.
UpsideStartedNow(in) ==
  is_upside_down_started /\ ~(DarkrideNow(in) /\ ~darkride)

Preamble(in) ==
  /\ footpad' = in.footpad
  /\ charging' = ChargingNow
  /\ UNCHANGED <<eeprom, flywheel_offset>>

CanEngage_Charging(in, m, c) ==
  \/ in.footpad = "BOTH"
  \/ in.footpad = "HALF" /\ c.dual_switch
  \/ m = "FLYWHEEL"

CanEngage(in, m, c) ==
  /\ ~ChargingNow
  /\ \/ in.footpad = "BOTH"
     \/ /\ in.footpad = "HALF"
        /\ \/ c.dual_switch
           \/ /\ c.simplestart
              /\ Aged["disengage"] > Sec2 \/ Aged["engage"] <= Sec1
     \/ m = "FLYWHEEL"

-----------------------------------------------------------------------------
(* check_faults: the checks in the order of the code.  A check that fires  *)
(* ends the function, so the refreshes of the later ones do not happen.    *)

AbsErpm(in) == IF in.erpm < 0 THEN -in.erpm ELSE in.erpm
FootpadOpen(in) == in.footpad = "NONE" /\ mode # "FLYWHEEL"

DarkrideChecks(in) ==
  << in.erpm > 1000 /\ \/ Aged["switch"] > Ms100
                       \/ in.erpm > 2000
                       \/ /\ wheelslip
                          /\ Aged["upside"] > Sec1
                          /\ Aged["switch"] > Ms30,
     in.erpm \in 301 .. 1000 /\ Aged["roll"] > Ms500,
     CanEngage(in, mode, conf) >>

SwitchFaultsOff_Always(in) == in.erpm > conf.half_erpm * 2 /\ in.roll < 40

SwitchFaultsOff(in) ==
  conf.moving_fault_disabled /\ in.erpm > conf.half_erpm * 2 /\ in.roll < 40

HalfOpen(in) ==
  ~CanEngage(in, mode, conf) /\ AbsErpm(in) < conf.half_erpm

UprightChecks(in) ==
  << FootpadOpen(in) /\ ~SwitchFaultsOff(in) /\
       \/ Aged["switch"] > conf.delay_full
       \/ AbsErpm(in) < conf.half_erpm * 6 /\ Aged["switch"] > conf.delay_half,
     /\ FootpadOpen(in) /\ conf.quickstop /\ AbsErpm(in) < 200
     /\ in.pitch > 14 /\ in.tilt_small /\ in.pitch_along_erpm,
     sat = "REVERSESTOP" /\ in.footpad = "NONE",
     sat = "REVERSESTOP" /\ in.reverse_stop_stop,
     ~conf.dual_switch /\ HalfOpen(in) /\ Aged["half"] > conf.delay_half,
     \/ in.roll > conf.fault_roll /\ Aged["roll"] > conf.delay_roll
     \/ in.roll <= conf.fault_roll /\ conf.darkride /\ in.roll \in 101 .. 134,
     mode = "FLYWHEEL" /\ in.footpad # "NONE" >>

PitchTooFar(in) == in.pitch > conf.fault_pitch /\ in.tilt_small

\* All checks of this iteration, the pitch check last in both branches.
Checks(in) ==
  Append(IF DarkrideNow(in) THEN DarkrideChecks(in) ELSE UprightChecks(in),
         PitchTooFar(in) /\ Aged["pitch"] > conf.delay_pitch)
Reasons(in) ==
  IF DarkrideNow(in)
  THEN <<"REVERSE_STOP", "REVERSE_STOP", "SWITCH_HALF", "PITCH">>
  ELSE <<"SWITCH_FULL", "QUICKSTOP", "SWITCH_FULL", "REVERSE_STOP",
         "SWITCH_HALF", "ROLL", "FLYWHEEL", "PITCH">>

\* Check i was reached: none of the ones before it fired.
Reached(in, i) == \A j \in 1 .. i - 1 : ~Checks(in)[j]
Fires(in, i)   == Reached(in, i) /\ Checks(in)[i]
NoFault(in)    == Reached(in, Len(Reasons(in)) + 1)

DarkrideRefreshes_AnySpeed(in) ==
  {"switch"} \cup
  (IF in.erpm <= 300 THEN {"roll"} ELSE {}) \cup
  (IF Reached(in, 4) /\ ~PitchTooFar(in) THEN {"pitch"} ELSE {})

DarkrideRefreshes(in) ==
  (IF in.erpm <= 1000 THEN {"switch"} ELSE {}) \cup
  (IF in.erpm <= 300 THEN {"roll"} ELSE {}) \cup
  (IF Reached(in, 4) /\ ~PitchTooFar(in) THEN {"pitch"} ELSE {})

UprightRefreshes(in) ==
  (IF ~FootpadOpen(in) THEN {"switch"} ELSE {}) \cup
  (IF Reached(in, 5) /\ ~conf.dual_switch /\ ~HalfOpen(in)
   THEN {"half"} ELSE {}) \cup
  (IF Reached(in, 6) /\ in.roll <= conf.fault_roll THEN {"roll"} ELSE {}) \cup
  (IF Reached(in, 8) /\ ~PitchTooFar(in) THEN {"pitch"} ELSE {})

FaultRefreshes(in) ==
  IF DarkrideNow(in) THEN DarkrideRefreshes(in) ELSE UprightRefreshes(in)

-----------------------------------------------------------------------------
(* The state switch of an iteration, one action per outcome.               *)

StateStop_KeepsSlip == state' = "READY" /\ wheelslip' = wheelslip

\* state_stop and state_flywheel_off, from RUNNING.
StateStop == state' = "READY" /\ wheelslip' = FALSE

MainStartup(in) ==
  /\ state = "STARTUP"
  /\ Preamble(in)
  /\ IF in.imu_startup_done
     THEN state' = "READY" /\ startup_pitch_tolerance' = conf.pitch_tol
     ELSE UNCHANGED <<state, startup_pitch_tolerance>>
  /\ darkride' = DarkrideNow(in)
  /\ is_upside_down_started' = UpsideStartedNow(in)
  /\ age' = Aged
  /\ UNCHANGED <<mode, sat, stop_condition, wheelslip, enable_upside_down,
                 flywheel_abort, startup_pitch_trickmargin, conf>>

\* check_faults returned true with state_stop; a full switch fault widens
\* the startup tolerance for a dirty landing.
MainStop(in) ==
  /\ state = "RUNNING"
  /\ \E i \in 1 .. Len(Reasons(in)) :
       /\ Fires(in, i)
       /\ Reasons(in)[i] # "FLYWHEEL"
       /\ stop_condition' = Reasons(in)[i]
  /\ Preamble(in)
  /\ StateStop
  /\ darkride' = DarkrideNow(in)
  /\ is_upside_down_started' = UpsideStartedNow(in)
  /\ LET dirty == stop_condition' = "SWITCH_FULL" /\ ~DarkrideNow(in)
     IN  /\ startup_pitch_tolerance' =
              IF dirty THEN conf.pitch_tol + startup_pitch_trickmargin
              ELSE startup_pitch_tolerance
         /\ age' = Refreshed(Aged, FaultRefreshes(in) \cup
                                   IF dirty THEN {"pitch"} ELSE {})
  /\ UNCHANGED <<mode, sat, enable_upside_down, flywheel_abort,
                 startup_pitch_trickmargin, conf>>

\* check_faults returned true with state_flywheel_off.
MainFlywheelAbort(in) ==
  /\ state = "RUNNING"
  /\ ~DarkrideNow(in) /\ Fires(in, 7)
  /\ Preamble(in)
  /\ StateStop
  /\ flywheel_abort' = TRUE
  /\ darkride' = DarkrideNow(in)
  /\ is_upside_down_started' = UpsideStartedNow(in)
  /\ age' = Refreshed(Aged, FaultRefreshes(in))
  /\ UNCHANGED <<mode, sat, stop_condition, enable_upside_down,
                 startup_pitch_tolerance, startup_pitch_trickmargin, conf>>

\* calculate_setpoint_target: which adjustment is active after it.
WheelslipStarts(in) ==
  /\ sat \notin {"CENTERING", "REVERSESTOP"}
  /\ ~(conf.reversestop /\ in.reverse_stop_active /\ ~DarkrideNow(in))
  /\ mode # "FLYWHEEL" /\ in.slip

NextSat(in) ==
  IF sat = "CENTERING" THEN IF in.centered THEN "NONE" ELSE "CENTERING"
  ELSE IF sat = "REVERSESTOP"
       THEN IF in.reverse_stop_active THEN "REVERSESTOP" ELSE "NONE"
  ELSE IF conf.reversestop /\ in.reverse_stop_active /\ ~DarkrideNow(in)
       THEN "REVERSESTOP"
  ELSE IF WheelslipStarts(in) THEN "NONE"
  ELSE IF wheelslip \/ (in.pushback = "DUTY" /\ mode = "FLYWHEEL") THEN sat
  ELSE IF in.pushback = "NONE" THEN "NONE" ELSE "PUSHBACK"

NextWheelslip(in) ==
  IF WheelslipStarts(in) THEN TRUE
  ELSE wheelslip /\ ~(/\ in.slip_over
                      /\ sat \notin {"CENTERING", "REVERSESTOP"}
                      /\ NextSat(in) # "REVERSESTOP")

\* check_faults returned false: the ride goes on.
MainRide(in) ==
  /\ state = "RUNNING"
  /\ NoFault(in)
  /\ Preamble(in)
  /\ enable_upside_down' = TRUE
  /\ sat' = NextSat(in)
  /\ wheelslip' = NextWheelslip(in)
  /\ darkride' = DarkrideNow(in)
  /\ is_upside_down_started' = (DarkrideNow(in) \/ UpsideStartedNow(in))
  /\ age' = Refreshed(Aged, FaultRefreshes(in) \cup
                            IF DarkrideNow(in) /\ ~UpsideStartedNow(in)
                            THEN {"upside"} ELSE {})
  /\ UNCHANGED <<state, mode, stop_condition, flywheel_abort,
                 startup_pitch_tolerance, startup_pitch_trickmargin, conf>>

FlywheelEnds(in) ==
  mode = "FLYWHEEL" /\ (flywheel_abort \/ in.footpad # "NONE")

MainFlywheelStop(in) ==
  /\ state = "READY" /\ FlywheelEnds(in)
  /\ Preamble(in)
  /\ FlywheelStop(state)
  /\ darkride' = DarkrideNow(in)
  /\ is_upside_down_started' = UpsideStartedNow(in)
  /\ age' = Aged
  /\ UNCHANGED <<sat, stop_condition, wheelslip, enable_upside_down,
                 flywheel_abort, startup_pitch_tolerance>>

-----------------------------------------------------------------------------
(* READY: the konami sequence, the upside-down grace period, the return to *)
(* the normal startup tolerance, then the three ways to engage.            *)

Konami(in) == in.konami /\ mode = "NORMAL" /\ in.pitch \in 76 .. 104

ReadyMode(in) == IF Konami(in) THEN "FLYWHEEL" ELSE mode
ReadyConf(in) == IF Konami(in) THEN FlywheelTune(conf, 2) ELSE conf
ReadyDarkride_AnyTime(in) == DarkrideNow(in)
ReadyDarkride(in) == DarkrideNow(in) /\ Aged["disengage"] <= Sec10
ReadyTolerance_Kept(in) == IF Konami(in) THEN 1 ELSE startup_pitch_tolerance
ReadyTolerance(in) ==
  IF Aged["pitch"] > Sec1 THEN ReadyConf(in).pitch_tol
  ELSE IF Konami(in) THEN 1 ELSE startup_pitch_tolerance

EngageLevel(in) ==
  /\ in.balance_pitch < ReadyTolerance(in)
  /\ in.roll < ReadyConf(in).roll_tol
  /\ CanEngage(in, ReadyMode(in), ReadyConf(in))

EngageDarkride(in) ==
  /\ ReadyDarkride(in)
  /\ in.balance_pitch < ReadyTolerance(in)
  /\ IF Aged["disengage"] > Sec1
     THEN 180 - in.roll < ReadyConf(in).roll_tol
     ELSE stop_condition # "REVERSE_STOP"

EngagePush(in) ==
  /\ ReadyConf(in).pushstart /\ AbsErpm(in) > 1000
  /\ CanEngage(in, ReadyMode(in), ReadyConf(in))
  /\ in.balance_pitch < 45 /\ in.roll < 45
  /\ ~(ReadyConf(in).reversestop /\ in.erpm < 0)

Engages(in) == EngageLevel(in) \/ EngageDarkride(in) \/ EngagePush(in)

MainReady(in) ==
  /\ state = "READY"
  /\ ~FlywheelEnds(in)
  /\ footpad' = in.footpad
  /\ charging' = ChargingNow
  /\ mode' = ReadyMode(in)
  /\ conf' = ReadyConf(in)
  /\ flywheel_offset' = (flywheel_offset \/ Konami(in))
  /\ flywheel_abort' = (flywheel_abort /\ ~Konami(in))
  /\ darkride' = ReadyDarkride(in)
  /\ is_upside_down_started' = UpsideStartedNow(in)
  /\ enable_upside_down' =
       (enable_upside_down /\ Aged["disengage"] <= Sec10)
  /\ IF Engages(in)
     THEN /\ state' = "RUNNING"
          /\ sat' = "CENTERING"
          /\ stop_condition' = "NONE"
          /\ startup_pitch_tolerance' = ReadyConf(in).pitch_tol
          /\ age' = Refreshed(Aged, {"engage"})
     ELSE /\ UNCHANGED <<state, sat, stop_condition>>
          /\ startup_pitch_tolerance' = ReadyTolerance(in)
          /\ age' = Aged
  /\ UNCHANGED <<wheelslip, startup_pitch_trickmargin, eeprom>>

MainDisabled(in) ==
  /\ state = "DISABLED"
  /\ Preamble(in)
  /\ darkride' = DarkrideNow(in)
  /\ is_upside_down_started' = UpsideStartedNow(in)
  /\ age' = Aged
  /\ UNCHANGED <<state, mode, sat, stop_condition, wheelslip,
                 enable_upside_down, flywheel_abort,
                 startup_pitch_tolerance, startup_pitch_trickmargin, conf>>

MainLoop(in) ==
  \/ MainStartup(in)      \/ MainStop(in)  \/ MainFlywheelAbort(in)
  \/ MainRide(in)         \/ MainReady(in) \/ MainFlywheelStop(in)
  \/ MainDisabled(in)

-----------------------------------------------------------------------------
(* The handlers that run outside of the main loop.                         *)

\* Everything no command touches.
sensorVars == <<charging, darkride, enable_upside_down,
                is_upside_down_started, footpad, age>>

CmdLock_KeepsTune(disabled) ==
  /\ "LOCK" \in Commands
  /\ state # "RUNNING"
  /\ conf' = [conf EXCEPT !.disabled = disabled]
  /\ state' = SetDisabled(state, disabled)
  /\ eeprom' \in Stored(conf')
  /\ UNCHANGED <<sensorVars, mode, sat, stop_condition, wheelslip,
                 flywheel_abort, flywheel_offset, startup_pitch_tolerance,
                 startup_pitch_trickmargin>>

CmdLock(disabled) ==
  /\ "LOCK" \in Commands
  /\ state # "RUNNING"
  /\ \E c \in Loaded : conf' = [c EXCEPT !.disabled = disabled]
  /\ state' = SetDisabled(state, disabled)
  /\ eeprom' \in Stored(conf')
  /\ UNCHANGED <<sensorVars, mode, sat, stop_condition, wheelslip,
                 flywheel_abort, flywheel_offset, startup_pitch_tolerance,
                 startup_pitch_trickmargin>>

CmdHandtest(on) ==
  /\ "HANDTEST" \in Commands
  /\ state = "READY"
  /\ mode \in {"NORMAL", "HANDTEST"}
  /\ mode' = IF on THEN "HANDTEST" ELSE "NORMAL"
  /\ IF on
     THEN /\ conf' = HandtestTune(conf)
          /\ UNCHANGED <<state, startup_pitch_trickmargin>>
     ELSE /\ conf' \in Loaded
          /\ state' = SetDisabled(state, conf'.disabled)
          /\ startup_pitch_trickmargin' = TrickMargin(conf')
  /\ UNCHANGED <<sensorVars, sat, stop_condition, wheelslip, flywheel_abort,
                 flywheel_offset, startup_pitch_tolerance, eeprom>>

\* Only from NORMAL or FLYWHEEL, and outside of READY only in FLYWHEEL.
FlywheelAllowed ==
  /\ "FLYWHEEL" \in Commands
  /\ mode \in {"NORMAL", "FLYWHEEL"}
  /\ state = "READY" \/ mode = "FLYWHEEL"

CmdFlywheelOff ==
  /\ FlywheelAllowed
  /\ FlywheelStop(IF mode = "FLYWHEEL" THEN "READY" ELSE state)
  /\ wheelslip' = (wheelslip /\ mode # "FLYWHEEL")
  /\ UNCHANGED <<sensorVars, sat, stop_condition, flywheel_abort,
                 flywheel_offset, startup_pitch_tolerance, eeprom>>

\* The pitch is captured, or must be far enough from level, when there is
\* no offset yet or the command asks for a new one.
CapturesPitch(command) == ~flywheel_offset \/ command = 2

CmdFlywheelRefused(command, pitch) ==
  /\ FlywheelAllowed
  /\ CapturesPitch(command) /\ pitch < 70
  /\ mode' = "NORMAL"
  /\ UNCHANGED <<sensorVars, state, sat, stop_condition, wheelslip,
                 flywheel_abort, flywheel_offset, startup_pitch_tolerance,
                 startup_pitch_trickmargin, conf, eeprom>>

CmdFlywheelOn(command, pitch) ==
  /\ FlywheelAllowed
  /\ ~(CapturesPitch(command) /\ pitch < 70)
  /\ mode' = "FLYWHEEL"
  /\ flywheel_offset' = TRUE
  /\ flywheel_abort' = FALSE
  /\ startup_pitch_tolerance' = 1
  /\ conf' = FlywheelTune(conf, command)
  /\ UNCHANGED <<sensorVars, state, sat, stop_condition, wheelslip,
                 startup_pitch_trickmargin, eeprom>>

\* COMMAND_TUNE_OTHER and COMMAND_TUNE_DEFAULTS take part of their values
\* from the message or the defaults, the rest of the configuration stays
\* (the moving fault flag too if the message is short).
CmdTuneOther(c) ==
  /\ "TUNE_OTHER" \in Commands
  /\ \E moving \in {c.moving_fault_disabled, conf.moving_fault_disabled} :
     conf' = [conf EXCEPT
       !.reversestop = c.reversestop, !.dual_switch = c.dual_switch,
       !.darkride = c.darkride, !.simplestart = c.simplestart,
       !.pushstart = c.pushstart, !.dirtylandings = c.dirtylandings,
       !.pitch_tol = c.pitch_tol, !.roll_tol = c.roll_tol,
       !.moving_fault_disabled = moving]
  /\ startup_pitch_trickmargin' = TrickMargin(c)
  /\ UNCHANGED <<sensorVars, state, mode, sat, stop_condition, wheelslip,
                 flywheel_abort, flywheel_offset, startup_pitch_tolerance,
                 eeprom>>

CmdTuneDefaults ==
  /\ "TUNE_DEFAULTS" \in Commands
  /\ conf' = [conf EXCEPT
       !.pitch_tol = DefaultConfig.pitch_tol,
       !.roll_tol = DefaultConfig.roll_tol,
       !.pushstart = DefaultConfig.pushstart,
       !.simplestart = DefaultConfig.simplestart,
       !.dirtylandings = DefaultConfig.dirtylandings]
  /\ startup_pitch_trickmargin' = TrickMargin(DefaultConfig)
  /\ UNCHANGED <<sensorVars, state, mode, sat, stop_condition, wheelslip,
                 flywheel_abort, flywheel_offset, startup_pitch_tolerance,
                 eeprom>>

\* COMMAND_RT_TUNE changes no field of Configs, but derives the margin anew.
CmdRuntimeTune ==
  /\ "RT_TUNE" \in Commands
  /\ startup_pitch_trickmargin' = TrickMargin(conf)
  /\ UNCHANGED <<sensorVars, state, mode, sat, stop_condition, wheelslip,
                 flywheel_abort, flywheel_offset, startup_pitch_tolerance,
                 conf, eeprom>>

CmdCfgSave ==
  /\ "CFG_SAVE" \in Commands
  /\ eeprom' \in Stored(conf)
  /\ UNCHANGED <<sensorVars, state, mode, sat, stop_condition, wheelslip,
                 flywheel_abort, flywheel_offset, startup_pitch_tolerance,
                 startup_pitch_trickmargin, conf>>

CmdCfgRestore ==
  /\ "CFG_RESTORE" \in Commands
  /\ conf' \in Loaded
  /\ UNCHANGED <<sensorVars, state, mode, sat, stop_condition, wheelslip,
                 flywheel_abort, flywheel_offset, startup_pitch_tolerance,
                 startup_pitch_trickmargin, eeprom>>

SetCfg_WhileRiding(c, disabled) ==
  /\ "SET_CFG" \in Commands
  /\ mode = "NORMAL"
  /\ conf' = [c EXCEPT !.disabled = disabled]
  /\ eeprom' \in Stored(conf')
  /\ state' = SetDisabled(state, conf'.disabled)
  /\ startup_pitch_trickmargin' = TrickMargin(c)
  /\ UNCHANGED <<sensorVars, mode, sat, stop_condition, wheelslip,
                 flywheel_abort, flywheel_offset, startup_pitch_tolerance>>

\* set_cfg: the write button of VESC Tool.
SetCfg(c, disabled) ==
  /\ "SET_CFG" \in Commands
  /\ mode = "NORMAL"
  /\ conf' = [c EXCEPT !.disabled = disabled /\ state # "RUNNING"]
  /\ eeprom' \in Stored(conf')
  /\ state' = SetDisabled(state, conf'.disabled)
  /\ startup_pitch_trickmargin' = TrickMargin(c)
  /\ UNCHANGED <<sensorVars, mode, sat, stop_condition, wheelslip,
                 flywheel_abort, flywheel_offset, startup_pitch_tolerance>>

\* set_cfg with a buffer that does not deserialize.
SetCfgRejected ==
  /\ "SET_CFG" \in Commands
  /\ mode = "NORMAL"
  /\ conf' = [conf EXCEPT !.disabled = @ /\ state # "RUNNING"]
  /\ UNCHANGED <<sensorVars, state, mode, sat, stop_condition, wheelslip,
                 flywheel_abort, flywheel_offset, startup_pitch_tolerance,
                 startup_pitch_trickmargin, eeprom>>

ChargingStateRequest(on) ==
  /\ "CHARGING_STATE" \in Commands
  /\ charging' = on
  /\ age' = Refreshed(age, {"charging"})
  /\ UNCHANGED <<state, mode, sat, stop_condition, wheelslip, darkride,
                 enable_upside_down, is_upside_down_started, flywheel_abort,
                 flywheel_offset, startup_pitch_tolerance,
                 startup_pitch_trickmargin, footpad, conf, eeprom>>

-----------------------------------------------------------------------------
DataInit_Enabled(c, late) ==
  [state |-> "STARTUP", mode |-> "NORMAL",
   sat |-> "NONE", stop_condition |-> "NONE", off |-> FALSE,
   footpad |-> "NONE", tolerance |-> 0, margin |-> TrickMargin(c),
   age |-> [t \in Timers |->
             IF t = "disengage" \/ (late /\ t # "engage")
             THEN Cap[t] ELSE 0]]

(* data_init from a stored configuration that reads as c; the disengage    *)
(* timer starts expired, the zeroed timers are as old as the controller's  *)
(* clock: old if the package starts late after power up.                   *)
DataInit(c, late) ==
  [state |-> SetDisabled("STARTUP", c.disabled), mode |-> "NORMAL",
   sat |-> "NONE", stop_condition |-> "NONE", off |-> FALSE,
   footpad |-> "NONE", tolerance |-> 0, margin |-> TrickMargin(c),
   age |-> [t \in Timers |->
             IF t = "disengage" \/ (late /\ t # "engage")
             THEN Cap[t] ELSE 0]]

Init ==
  /\ eeprom \in UserConfigs
  /\ conf = eeprom
  /\ \E late \in BOOLEAN : LET d == DataInit(conf, late)
     IN  /\ state = d.state /\ mode = d.mode /\ sat = d.sat
         /\ stop_condition = d.stop_condition
         /\ charging = d.off /\ wheelslip = d.off /\ darkride = d.off
         /\ enable_upside_down = d.off /\ is_upside_down_started = d.off
         /\ flywheel_abort = d.off /\ flywheel_offset = d.off
         /\ startup_pitch_tolerance = d.tolerance
         /\ startup_pitch_trickmargin = d.margin
         /\ footpad = d.footpad /\ age = d.age

\* A power cycle: only the EEPROM survives.
Restart ==
  /\ "RESTART" \in Commands
  /\ eeprom' = eeprom
  /\ conf' \in (IF EepromFails THEN {eeprom, DefaultConfig} ELSE {eeprom})
  /\ \E late \in BOOLEAN : LET d == DataInit(conf', late)
     IN  /\ state' = d.state /\ mode' = d.mode /\ sat' = d.sat
         /\ stop_condition' = d.stop_condition
         /\ charging' = d.off /\ wheelslip' = d.off /\ darkride' = d.off
         /\ enable_upside_down' = d.off /\ is_upside_down_started' = d.off
         /\ flywheel_abort' = d.off /\ flywheel_offset' = d.off
         /\ startup_pitch_tolerance' = d.tolerance
         /\ startup_pitch_trickmargin' = d.margin
         /\ footpad' = d.footpad /\ age' = d.age

PitchReadings == {in.pitch : in \in SensorReadings}
FlywheelCommands == {1, 2, 5}

Outside ==
  \/ \E b \in BOOLEAN : \/ CmdLock(b)
                        \/ CmdHandtest(b)
                        \/ ChargingStateRequest(b)
  \/ CmdFlywheelOff
  \/ \E command \in FlywheelCommands, pitch \in PitchReadings :
       CmdFlywheelOn(command, pitch) \/ CmdFlywheelRefused(command, pitch)
  \/ \E c \in UserConfigs : CmdTuneOther(c)
  \/ \E c \in UserConfigs, b \in BOOLEAN : SetCfg(c, b)
  \/ SetCfgRejected
  \/ CmdTuneDefaults
  \/ CmdRuntimeTune
  \/ CmdCfgSave
  \/ CmdCfgRestore
  \/ Restart

Next == (\E in \in SensorReadings : MainLoop(in)) \/ Outside

Spec == Init /\ [][Next]_vars
=============================================================================
