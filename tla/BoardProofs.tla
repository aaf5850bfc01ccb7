----------------------------- MODULE BoardProofs -----------------------------
(***************************************************************************)
(* The properties of BoardState and of RideHistory that hold for every configuration, every   *)
(* set of readings and commands, and every value of the delays.            *)
(***************************************************************************)
EXTENDS RideHistory, TLAPS

(* What the helpers on configurations return.                              *)
LEMMA FlywheelTuneTypes ==
  ASSUME NEW c \in Configs, NEW k
  PROVE  /\ FlywheelTune(c, k) \in Configs
         /\ FlywheelTune(c, k).disabled = c.disabled
BY DEF Configs, FlywheelTune

LEMMA TuneTypes ==
  ASSUME NEW c \in Configs
  PROVE  /\ HandtestTune(c) \in Configs
         /\ HandtestTune(c).disabled = c.disabled
         /\ TrickMargin(c) \in {0, 10}
         /\ c.pitch_tol \in Nat
         /\ c.disabled \in BOOLEAN
BY DEF Configs, HandtestTune, TrickMargin

LEMMA DisabledField ==
  ASSUME NEW c \in Configs, NEW b \in BOOLEAN
  PROVE  /\ [c EXCEPT !.disabled = b] \in Configs
         /\ [c EXCEPT !.disabled = b].disabled = b
BY DEF Configs

(* Ages stay natural numbers.                                              *)
LEMMA CapType == Cap \in [Timers -> Nat]
<1> USE TimeAssumption DEF Larger
<1>1. ASSUME NEW t \in Timers PROVE Cap[t] \in Nat
  BY <1>1 DEF Cap, Timers
<1> QED
  BY <1>1 DEF Cap

LEMMA AgeTypes ==
  ASSUME age \in [Timers -> Nat], NEW ts, NEW ages \in [Timers -> Nat]
  PROVE  /\ Aged \in [Timers -> Nat]
         /\ Refreshed(ages, ts) \in [Timers -> Nat]
BY CapType DEF Aged, Refreshed

LEMMA ReadTypes ==
  ASSUME TypeOK, NEW c \in Loaded
  PROVE  c \in Configs /\ (~EepromFails => c = eeprom)
BY ConfigAssumption DEF Loaded, TypeOK

LEMMA WriteTypes ==
  ASSUME TypeOK, NEW c \in Configs, NEW e \in Stored(c)
  PROVE  e \in Configs /\ (~EepromFails => e = c)
BY ConfigAssumption DEF Stored, TypeOK

LEMMA StateTypes ==
  ASSUME NEW s \in RunStates, NEW b \in BOOLEAN
  PROVE  /\ SetDisabled(s, b) \in RunStates
         /\ s = "RUNNING" => SetDisabled(s, b) = s
         /\ s # "RUNNING" => (SetDisabled(s, b) = "DISABLED") = b
         /\ SetDisabled(s, b) = "RUNNING" => s = "RUNNING"
BY DEF SetDisabled, RunStates

(* The reasons check_faults stops for, the flywheel abort aside.           *)
LEMMA ReasonTypes ==
  ASSUME NEW in, NEW i \in 1 .. Len(Reasons(in)),
         Reasons(in)[i] # "FLYWHEEL"
  PROVE  Reasons(in)[i] \in StopConditions
<1>1. CASE DarkrideNow(in)
  BY <1>1 DEF Reasons, StopConditions
<1>2. CASE ~DarkrideNow(in)
  <2> DEFINE rs == <<"SWITCH_FULL", "QUICKSTOP", "SWITCH_FULL",
                     "REVERSE_STOP", "SWITCH_HALF", "ROLL", "FLYWHEEL",
                     "PITCH">>
  <2>1. Reasons(in) = rs
    BY <1>2 DEF Reasons
  <2>2. Len(rs) = 8
    OBVIOUS
  <2>3. i \in 1 .. 8
    BY <2>1, <2>2
  <2>4. rs[i] = "FLYWHEEL" \/ rs[i] \in StopConditions
    BY <2>3 DEF StopConditions
  <2> QED
    BY <2>1, <2>4
<1> QED
  BY <1>1, <1>2

-----------------------------------------------------------------------------
LEMMA InitTypes == Init => TypeOK
<1> SUFFICES ASSUME Init PROVE TypeOK
  OBVIOUS
<1>1. conf \in Configs /\ eeprom \in Configs
  BY ConfigAssumption DEF Init
<1>2. age \in [Timers -> Nat]
  BY CapType DEF Init, DataInit
<1>3. state \in RunStates
  BY <1>1, TuneTypes, StateTypes DEF Init, DataInit, RunStates
<1>4. startup_pitch_trickmargin \in {0, 10}
  BY DEF Init, DataInit, TrickMargin
<1> QED
  BY <1>1, <1>2, <1>3, <1>4
     DEF Init, DataInit, TypeOK, Modes, Sats, StopConditions, FootpadStates

\* The parts of TypeOK an iteration handles alike in every state.
LEMMA PreambleTypes ==
  ASSUME TypeOK, NEW in \in SensorReadings
  PROVE  /\ in.footpad \in FootpadStates
         /\ ChargingNow \in BOOLEAN
         /\ DarkrideNow(in) \in BOOLEAN
         /\ UpsideStartedNow(in) \in BOOLEAN
         /\ Aged \in [Timers -> Nat]
<1>1. Aged \in [Timers -> Nat]
  BY AgeTypes DEF TypeOK
<1>2. in.footpad \in FootpadStates
  BY ReadingsAssumption
<1>3. ChargingNow \in BOOLEAN
  BY DEF ChargingNow
<1>4. DarkrideNow(in) \in BOOLEAN
  BY DEF DarkrideNow
<1>5. UpsideStartedNow(in) \in BOOLEAN
  BY DEF UpsideStartedNow
<1> QED
  BY <1>1, <1>2, <1>3, <1>4, <1>5

LEMMA MainTypes ==
  ASSUME TypeOK, NEW in \in SensorReadings, MainLoop(in)
  PROVE  TypeOK'
<1> USE PreambleTypes DEF RunStates, Modes, Sats, StopConditions
<1>0. \A ts : Refreshed(Aged, ts) \in [Timers -> Nat]
  BY AgeTypes DEF TypeOK
<1>1. CASE MainStartup(in)
  BY <1>1, TuneTypes DEF MainStartup, Preamble, TypeOK
<1>2. CASE MainStop(in)
  <2>1. stop_condition' \in StopConditions
    BY <1>2, ReasonTypes DEF MainStop
  <2>2. age' \in [Timers -> Nat]
    BY <1>2, <1>0 DEF MainStop
  <2>3. startup_pitch_tolerance' \in Nat
    <3>1. conf.pitch_tol \in Nat /\ startup_pitch_trickmargin \in Nat
      BY TuneTypes DEF TypeOK
    <3> QED
      BY <1>2, <3>1 DEF MainStop, TypeOK
  <2> QED
    BY <1>2, <2>1, <2>2, <2>3 DEF MainStop, StateStop, Preamble, TypeOK
<1>3. CASE MainFlywheelAbort(in)
  BY <1>3, <1>0 DEF MainFlywheelAbort, StateStop, Preamble, TypeOK
<1>4. CASE MainRide(in)
  <2>1. NextSat(in) \in Sats
    BY DEF NextSat, TypeOK
  <2>2. NextWheelslip(in) \in BOOLEAN
    BY DEF NextWheelslip, TypeOK
  <2> QED
    BY <1>4, <1>0, <2>1, <2>2 DEF MainRide, Preamble, TypeOK
<1>5. CASE MainReady(in)
  <2>1. ReadyConf(in) \in Configs
    BY FlywheelTuneTypes DEF ReadyConf, TypeOK
  <2>2. ReadyMode(in) \in Modes /\ ReadyDarkride(in) \in BOOLEAN
    BY DEF ReadyMode, ReadyDarkride, TypeOK
  <2>3. ReadyTolerance(in) \in Nat /\ ReadyConf(in).pitch_tol \in Nat
    BY <2>1, TuneTypes DEF ReadyTolerance, TypeOK
  <2>4. age' \in [Timers -> Nat]
    BY <1>5, <1>0 DEF MainReady
  <2>5. /\ state' \in RunStates /\ sat' \in Sats
        /\ stop_condition' \in StopConditions
        /\ startup_pitch_tolerance' \in Nat
    BY <1>5, <2>3 DEF MainReady, TypeOK
  <2> QED
    BY <1>5, <2>1, <2>2, <2>4, <2>5 DEF MainReady, TypeOK
<1>6. CASE MainFlywheelStop(in)
  <2>1. PICK c \in Loaded :
          /\ mode' = "NORMAL" /\ conf' = c
          /\ state' = SetDisabled(state, c.disabled)
          /\ startup_pitch_trickmargin' = TrickMargin(c)
    BY <1>6 DEF MainFlywheelStop, FlywheelStop
  <2>2. conf' \in Configs
    BY <2>1, ReadTypes
  <2>3. state' \in RunStates /\ startup_pitch_trickmargin' \in {0, 10}
    BY <2>1, <2>2, TuneTypes, StateTypes DEF TypeOK
  <2> QED
    BY <1>6, <2>1, <2>2, <2>3 DEF MainFlywheelStop, Preamble, TypeOK
<1>7. CASE MainDisabled(in)
  BY <1>7 DEF MainDisabled, Preamble, TypeOK
<1> QED
  BY <1>1, <1>2, <1>3, <1>4, <1>5, <1>6, <1>7 DEF MainLoop

-----------------------------------------------------------------------------
(* The handlers of the outside.                                            *)
LEMMA LockTypes ==
  ASSUME TypeOK, NEW b \in BOOLEAN, CmdLock(b)
  PROVE  /\ conf' \in Configs /\ eeprom' \in Configs
         /\ conf'.disabled = b
         /\ state' = SetDisabled(state, b) /\ state # "RUNNING"
         /\ ~EepromFails => eeprom' = conf'
<1>1. PICK c \in Loaded : conf' = [c EXCEPT !.disabled = b]
  BY DEF CmdLock
<1>2. conf' \in Configs /\ conf'.disabled = b
  BY <1>1, ReadTypes, DisabledField
<1>3. eeprom' \in Stored(conf')
  BY DEF CmdLock
<1> QED
  BY <1>2, <1>3, WriteTypes DEF CmdLock

\* Handtest, flywheel stop and refusal restore or keep the configuration.
LEMMA RestoreTypes ==
  ASSUME TypeOK,
         \/ \E b \in BOOLEAN : CmdHandtest(b)
         \/ CmdFlywheelOff
  PROVE  /\ conf' \in Configs
         /\ state' \in RunStates /\ mode' \in Modes
         /\ startup_pitch_trickmargin' \in {0, 10}
         /\ wheelslip' \in BOOLEAN
<1>1. ASSUME NEW b \in BOOLEAN, CmdHandtest(b), b
      PROVE  conf' = HandtestTune(conf) /\ conf' \in Configs
  BY <1>1, TuneTypes DEF CmdHandtest, TypeOK
<1>2. ASSUME NEW b \in BOOLEAN, CmdHandtest(b), ~b
      PROVE  /\ conf' \in Configs
             /\ state' = SetDisabled(state, conf'.disabled)
             /\ startup_pitch_trickmargin' = TrickMargin(conf')
  BY <1>2, ReadTypes DEF CmdHandtest
<1>3. ASSUME CmdFlywheelOff
      PROVE  /\ conf' \in Configs
             /\ state' \in RunStates
             /\ startup_pitch_trickmargin' = TrickMargin(conf')
  <2> DEFINE s == IF mode = "FLYWHEEL" THEN "READY" ELSE state
  <2>1. PICK c \in Loaded :
          /\ conf' = c /\ state' = SetDisabled(s, c.disabled)
          /\ startup_pitch_trickmargin' = TrickMargin(c)
    BY <1>3 DEF CmdFlywheelOff, FlywheelStop
  <2>2. s \in RunStates
    BY DEF TypeOK, RunStates
  <2> QED
    BY <2>1, <2>2, ReadTypes, TuneTypes, StateTypes
<1>4. ASSUME NEW b \in BOOLEAN, CmdHandtest(b)
      PROVE  /\ conf' \in Configs /\ state' \in RunStates
             /\ mode' \in Modes /\ wheelslip' \in BOOLEAN
             /\ startup_pitch_trickmargin' \in {0, 10}
  <2>1. CASE b
    BY <1>4, <1>1, <2>1 DEF CmdHandtest, TypeOK, Modes
  <2>2. CASE ~b
    BY <1>4, <1>2, <2>2, TuneTypes, StateTypes
       DEF CmdHandtest, TypeOK, Modes
  <2> QED
    BY <2>1, <2>2
<1>5. ASSUME CmdFlywheelOff
      PROVE  mode' \in Modes /\ wheelslip' \in BOOLEAN
  BY <1>5 DEF CmdFlywheelOff, FlywheelStop, Modes
<1> QED
  BY <1>3, <1>4, <1>5, TuneTypes

LEMMA OutsideTypes == TypeOK /\ Outside => TypeOK'
<1> SUFFICES ASSUME TypeOK, Outside PROVE TypeOK'
  OBVIOUS
<1> USE DEF sensorVars
<1>1. ASSUME NEW b \in BOOLEAN, CmdLock(b) PROVE TypeOK'
  <2>1. state' \in RunStates
    BY <1>1, LockTypes, StateTypes DEF TypeOK
  <2> QED
    BY <1>1, <2>1, LockTypes DEF CmdLock, TypeOK
<1>2. ASSUME NEW b \in BOOLEAN, CmdHandtest(b) PROVE TypeOK'
  BY <1>2, RestoreTypes DEF CmdHandtest, TypeOK
<1>3. ASSUME NEW b \in BOOLEAN, ChargingStateRequest(b) PROVE TypeOK'
  BY <1>3, AgeTypes DEF ChargingStateRequest, TypeOK
<1>4. CASE CmdFlywheelOff
  BY <1>4, RestoreTypes DEF CmdFlywheelOff, TypeOK
<1>5. ASSUME NEW k \in FlywheelCommands, NEW pitch \in PitchReadings,
             CmdFlywheelOn(k, pitch)
      PROVE  TypeOK'
  <2>1. conf' \in Configs
    BY <1>5, FlywheelTuneTypes DEF CmdFlywheelOn, TypeOK
  <2> QED
    BY <1>5, <2>1 DEF CmdFlywheelOn, TypeOK, Modes
<1>6. ASSUME NEW k \in FlywheelCommands, NEW pitch \in PitchReadings,
             CmdFlywheelRefused(k, pitch)
      PROVE  TypeOK'
  BY <1>6 DEF CmdFlywheelRefused, TypeOK, Modes
<1>7. ASSUME NEW c \in UserConfigs, CmdTuneOther(c) PROVE TypeOK'
  <2>1. c \in Configs
    BY ConfigAssumption
  <2>2. conf' \in Configs
    <3>1. PICK moving \in {c.moving_fault_disabled,
                            conf.moving_fault_disabled} :
            conf' = [conf EXCEPT
              !.reversestop = c.reversestop, !.dual_switch = c.dual_switch,
              !.darkride = c.darkride, !.simplestart = c.simplestart,
              !.pushstart = c.pushstart, !.dirtylandings = c.dirtylandings,
              !.pitch_tol = c.pitch_tol, !.roll_tol = c.roll_tol,
              !.moving_fault_disabled = moving]
      BY <1>7 DEF CmdTuneOther
    <3>2. moving \in BOOLEAN
      BY <2>1 DEF TypeOK, Configs
    <3> QED
      BY <2>1, <3>1, <3>2 DEF TypeOK, Configs
  <2> QED
    BY <1>7, <2>1, <2>2, TuneTypes DEF CmdTuneOther, TypeOK
<1>8. ASSUME NEW c \in UserConfigs, NEW b \in BOOLEAN, SetCfg(c, b)
      PROVE  TypeOK'
  <2>1. c \in Configs
    BY ConfigAssumption
  <2>2. conf' \in Configs /\ conf'.disabled \in BOOLEAN
    BY <1>8, <2>1, DisabledField DEF SetCfg
  <2>3. eeprom' \in Configs /\ state' \in RunStates
    BY <1>8, <2>2, WriteTypes, StateTypes DEF SetCfg, TypeOK
  <2> QED
    BY <1>8, <2>1, <2>2, <2>3, TuneTypes DEF SetCfg, TypeOK
<1>9. CASE SetCfgRejected
  <2>1. conf.disabled \in BOOLEAN
    BY TuneTypes DEF TypeOK
  <2>2. conf' \in Configs
    BY <1>9, <2>1, DisabledField DEF SetCfgRejected, TypeOK
  <2> QED
    BY <1>9, <2>2 DEF SetCfgRejected, TypeOK
<1>10. CASE CmdTuneDefaults
  <2>1. DefaultConfig \in Configs
    BY ConfigAssumption
  <2>2. conf' \in Configs
    BY <1>10, <2>1 DEF CmdTuneDefaults, TypeOK, Configs
  <2> QED
    BY <1>10, <2>1, <2>2, TuneTypes DEF CmdTuneDefaults, TypeOK
<1>14. CASE CmdRuntimeTune
  BY <1>14, TuneTypes DEF CmdRuntimeTune, TypeOK
<1>11. CASE CmdCfgSave
  BY <1>11, WriteTypes DEF CmdCfgSave, TypeOK
<1>12. CASE CmdCfgRestore
  BY <1>12, ReadTypes DEF CmdCfgRestore, TypeOK
<1>13. CASE Restart
  <2>1. conf' \in Configs
    BY <1>13, ConfigAssumption DEF Restart, TypeOK
  <2>2. age' \in [Timers -> Nat]
    BY <1>13, CapType DEF Restart, DataInit
  <2>3. state' \in RunStates
    BY <1>13, <2>1, TuneTypes, StateTypes DEF Restart, DataInit, RunStates
  <2>4. startup_pitch_trickmargin' \in {0, 10}
    BY <1>13 DEF Restart, DataInit, TrickMargin
  <2> QED
    BY <1>13, <2>1, <2>2, <2>3, <2>4
       DEF Restart, DataInit, TypeOK, Modes, Sats, StopConditions,
           FootpadStates
<1> QED
  BY <1>1, <1>2, <1>3, <1>4, <1>5, <1>6, <1>7, <1>8, <1>9, <1>10, <1>11,
     <1>12, <1>13, <1>14 DEF Outside

(* Type correctness, for every instance.                                   *)
THEOREM TypeCorrect == Spec => []TypeOK
<1>1. TypeOK /\ [Next]_vars => TypeOK'
  <2> SUFFICES ASSUME TypeOK, [Next]_vars PROVE TypeOK'
    OBVIOUS
  <2>1. CASE \E in \in SensorReadings : MainLoop(in)
    BY <2>1, MainTypes
  <2>2. CASE Outside
    BY <2>2, OutsideTypes
  <2>3. CASE UNCHANGED vars
    BY <2>3 DEF vars, TypeOK
  <2> QED
    BY <2>1, <2>2, <2>3 DEF Next
<1> QED
  BY InitTypes, <1>1, PTL DEF Spec

-----------------------------------------------------------------------------
(* The wheelslip flag is down outside of RUNNING: it is raised by an       *)
(* iteration that stays in RUNNING and each way out takes it down.  The    *)
(* invariant is inductive as it stands.                                    *)
LEMMA WheelslipStep ==
  WheelslipOnlyRiding /\ [Next]_vars => WheelslipOnlyRiding'
<1> SUFFICES ASSUME WheelslipOnlyRiding, [Next]_vars
             PROVE  WheelslipOnlyRiding'
  OBVIOUS
<1> USE DEF WheelslipOnlyRiding
<1>1. ASSUME NEW in \in SensorReadings, MainLoop(in)
      PROVE  WheelslipOnlyRiding'
  BY <1>1 DEF MainLoop, MainStartup, MainStop, MainFlywheelAbort, MainRide,
              MainReady, MainFlywheelStop, MainDisabled, StateStop
<1>2. ASSUME NEW b \in BOOLEAN,
             CmdLock(b) \/ CmdHandtest(b) \/ ChargingStateRequest(b)
      PROVE  WheelslipOnlyRiding'
  BY <1>2 DEF CmdLock, CmdHandtest, ChargingStateRequest
<1>3. CASE CmdFlywheelOff
  BY <1>3 DEF CmdFlywheelOff, FlywheelAllowed
<1>4. ASSUME NEW k \in FlywheelCommands, NEW pitch \in PitchReadings,
             CmdFlywheelOn(k, pitch) \/ CmdFlywheelRefused(k, pitch)
      PROVE  WheelslipOnlyRiding'
  BY <1>4 DEF CmdFlywheelOn, CmdFlywheelRefused
<1>5. ASSUME NEW c \in UserConfigs, NEW b \in BOOLEAN, SetCfg(c, b)
      PROVE  WheelslipOnlyRiding'
  BY <1>5 DEF SetCfg, SetDisabled
<1>6. ASSUME \/ \E c \in UserConfigs : CmdTuneOther(c)
             \/ SetCfgRejected \/ CmdTuneDefaults \/ CmdRuntimeTune
             \/ CmdCfgSave \/ CmdCfgRestore
      PROVE  WheelslipOnlyRiding'
  BY <1>6 DEF CmdTuneOther, SetCfgRejected, CmdTuneDefaults, CmdCfgSave,
              CmdCfgRestore, CmdRuntimeTune
<1>7. CASE Restart
  BY <1>7 DEF Restart, DataInit
<1>8. CASE UNCHANGED vars
  BY <1>8 DEF vars
<1> QED
  BY <1>1, <1>2, <1>3, <1>4, <1>5, <1>6, <1>7, <1>8 DEF Next, Outside

(* state_stop and state_flywheel_off, state.c: a wheelslip ends with the   *)
(* ride, whatever ends it.                                                 *)
THEOREM WheelslipOnlyWhileRiding == Spec => []WheelslipOnlyRiding
<1>1. Init => WheelslipOnlyRiding
  BY DEF Init, DataInit, WheelslipOnlyRiding
<1> QED
  BY <1>1, WheelslipStep, PTL DEF Spec

-----------------------------------------------------------------------------
(* The lock.  With a working EEPROM every step either keeps the lock and   *)
(* the agreement of its three copies, moving the run state as the          *)
(* lifecycle allows, or is a lock, an unlock or a power cycle.             *)
LockStep ==
  /\ LockAgreement'
  /\ [Lifecycle!Next]_<<state, eeprom.disabled>>
  /\ state = "DISABLED" /\ state' # "DISABLED"
     => \/ CmdLock(FALSE)
        \/ \E c \in UserConfigs : SetCfg(c, FALSE)

LEMMA MainLockStep ==
  ASSUME TypeOK, ~EepromFails, LockAgreement,
         NEW in \in SensorReadings, MainLoop(in)
  PROVE  LockStep
<1> USE DEF LockStep, LockAgreement
<1>1. CASE \/ MainStartup(in) \/ MainStop(in) \/ MainFlywheelAbort(in)
           \/ MainRide(in) \/ MainDisabled(in)
  <2>1. eeprom' = eeprom /\ conf' = conf
    BY <1>1 DEF MainStartup, MainStop, MainFlywheelAbort, MainRide,
                MainDisabled, Preamble
  <2>2. \/ state' = state
        \/ state = "STARTUP" /\ state' = "READY"
        \/ state = "RUNNING" /\ state' = "READY"
    BY <1>1 DEF MainStartup, MainStop, MainFlywheelAbort, MainRide,
                MainDisabled, StateStop
  <2> QED
    BY <2>1, <2>2 DEF Lifecycle!Next, Lifecycle!Ready, Lifecycle!Stop
<1>2. CASE MainReady(in)
  <2>1. ReadyConf(in).disabled = conf.disabled
    BY FlywheelTuneTypes DEF ReadyConf, TypeOK
  <2>2. eeprom' = eeprom /\ conf'.disabled = conf.disabled
    BY <1>2, <2>1 DEF MainReady
  <2>3. state = "READY" /\ state' \in {"READY", "RUNNING"}
    BY <1>2 DEF MainReady
  <2> QED
    BY <2>2, <2>3 DEF Lifecycle!Next, Lifecycle!Engage
<1>3. CASE MainFlywheelStop(in)
  <2>1. PICK c \in Loaded :
          conf' = c /\ state' = SetDisabled(state, c.disabled)
    BY <1>3 DEF MainFlywheelStop, FlywheelStop
  <2>2. eeprom' = eeprom /\ conf' = eeprom /\ state = "READY"
    BY <1>3, <2>1, ReadTypes DEF MainFlywheelStop, Preamble
  <2>3. ~conf.disabled /\ ~eeprom.disabled
    BY <2>2, TuneTypes DEF TypeOK
  <2>4. state' = "READY"
    BY <2>1, <2>2, <2>3 DEF SetDisabled
  <2> QED
    BY <2>2, <2>3, <2>4
<1> QED
  BY <1>1, <1>2, <1>3 DEF MainLoop

LEMMA OutsideLockStep ==
  ASSUME TypeOK, ~EepromFails, LockAgreement, Outside
  PROVE  LockStep
<1> USE DEF LockStep, LockAgreement
<1>0. conf.disabled \in BOOLEAN /\ eeprom.disabled \in BOOLEAN
  BY TuneTypes DEF TypeOK
<1>1. ASSUME NEW b \in BOOLEAN, CmdLock(b) PROVE LockStep
  <2>1. /\ conf'.disabled = b /\ eeprom'.disabled = b
        /\ state' = SetDisabled(state, b) /\ state # "RUNNING"
    BY <1>1, LockTypes
  <2>2. CASE b
    BY <2>1, <2>2 DEF SetDisabled, Lifecycle!Next, Lifecycle!Lock
  <2>3. CASE ~b
    <3>1. b = FALSE
      BY <2>3
    <3> QED
      BY <1>0, <1>1, <2>1, <3>1
         DEF SetDisabled, Lifecycle!Next, Lifecycle!Unlock
  <2> QED
    BY <2>2, <2>3
<1>2. ASSUME NEW b \in BOOLEAN, CmdHandtest(b) PROVE LockStep
  <2>1. state = "READY" /\ eeprom' = eeprom
    BY <1>2 DEF CmdHandtest
  <2>2. CASE b
    BY <1>0, <1>2, <2>1, <2>2, TuneTypes DEF CmdHandtest, TypeOK
  <2>3. CASE ~b
    <3>1. conf' = eeprom /\ state' = SetDisabled(state, conf'.disabled)
      BY <1>2, <2>3, ReadTypes DEF CmdHandtest
    <3> QED
      BY <1>0, <2>1, <3>1 DEF SetDisabled
  <2> QED
    BY <2>2, <2>3
<1>3. CASE CmdFlywheelOff
  <2> DEFINE s == IF mode = "FLYWHEEL" THEN "READY" ELSE state
  <2>1. PICK c \in Loaded :
          conf' = c /\ state' = SetDisabled(s, c.disabled)
    BY <1>3 DEF CmdFlywheelOff, FlywheelStop
  <2>2. conf' = eeprom /\ eeprom' = eeprom
    BY <1>3, <2>1, ReadTypes DEF CmdFlywheelOff
  <2>3. s = "READY"
    BY <1>3 DEF CmdFlywheelOff, FlywheelAllowed
  <2>4. CASE state = "DISABLED"
    BY <1>0, <2>1, <2>2, <2>3, <2>4 DEF SetDisabled
  <2>5. CASE state # "DISABLED"
    <3>1. state \in {"STARTUP", "READY", "RUNNING"}
      BY <2>5 DEF TypeOK, RunStates
    <3>2. state' = "READY"
      BY <1>0, <2>1, <2>2, <2>3, <2>5 DEF SetDisabled
    <3> QED
      BY <1>0, <2>2, <2>5, <3>1, <3>2
         DEF Lifecycle!Next, Lifecycle!Ready, Lifecycle!Stop
  <2> QED
    BY <2>4, <2>5
<1>4. ASSUME NEW k \in FlywheelCommands, NEW pitch \in PitchReadings,
             CmdFlywheelOn(k, pitch) \/ CmdFlywheelRefused(k, pitch)
      PROVE  LockStep
  <2>1. /\ state' = state /\ eeprom' = eeprom
        /\ conf' = FlywheelTune(conf, k) \/ conf' = conf
    BY <1>4 DEF CmdFlywheelOn, CmdFlywheelRefused
  <2>2. conf'.disabled = conf.disabled
    BY <2>1, FlywheelTuneTypes DEF TypeOK
  <2> QED
    BY <2>1, <2>2
<1>5. ASSUME NEW c \in UserConfigs, NEW b \in BOOLEAN, SetCfg(c, b)
      PROVE  LockStep
  <2> DEFINE r == b /\ state # "RUNNING"
  <2>1. c \in Configs
    BY ConfigAssumption
  <2>2. /\ conf'.disabled = r /\ conf' \in Configs
        /\ state' = SetDisabled(state, conf'.disabled)
    BY <1>5, <2>1, DisabledField DEF SetCfg
  <2>3. eeprom' = conf'
    BY <1>5, <2>2, WriteTypes DEF SetCfg
  <2>4. CASE r
    BY <2>2, <2>3, <2>4 DEF SetDisabled, Lifecycle!Next, Lifecycle!Lock
  <2>5. CASE ~r
    <3>1. state' = IF state = "DISABLED" THEN "STARTUP" ELSE state
      BY <2>2, <2>5 DEF SetDisabled
    <3>2. CASE state = "DISABLED"
      <4>1. b = FALSE
        BY <2>5, <3>2
      <4> QED
        BY <1>5, <2>2, <2>3, <2>5, <3>1, <3>2, <4>1
           DEF Lifecycle!Next, Lifecycle!Unlock
    <3>3. CASE state # "DISABLED"
      BY <1>0, <2>2, <2>3, <2>5, <3>1, <3>3
    <3> QED
      BY <3>2, <3>3
  <2> QED
    BY <2>4, <2>5
<1>6. CASE SetCfgRejected
  <2>1. conf'.disabled = (conf.disabled /\ state # "RUNNING")
    BY <1>0, <1>6, DisabledField DEF SetCfgRejected, TypeOK
  <2>2. state' = state /\ eeprom' = eeprom
    BY <1>6 DEF SetCfgRejected
  <2> QED
    BY <1>0, <2>1, <2>2
<1>7. CASE CmdTuneDefaults \/ CmdRuntimeTune \/ \E c \in UserConfigs : CmdTuneOther(c)
  <2>1. state' = state /\ eeprom' = eeprom
    BY <1>7 DEF CmdTuneDefaults, CmdRuntimeTune, CmdTuneOther
  <2>2. conf'.disabled = conf.disabled
    BY <1>7 DEF CmdTuneDefaults, CmdRuntimeTune, CmdTuneOther, TypeOK, Configs
  <2> QED
    BY <2>1, <2>2
<1>8. CASE CmdCfgSave \/ CmdCfgRestore
  <2>1. state' = state /\ (conf' = conf \/ conf' = eeprom)
    BY <1>8, ReadTypes DEF CmdCfgSave, CmdCfgRestore
  <2>2. eeprom' = eeprom \/ eeprom' = conf
    BY <1>8, WriteTypes DEF CmdCfgSave, CmdCfgRestore, TypeOK
  <2> QED
    BY <2>1, <2>2
<1>9. ASSUME NEW b \in BOOLEAN, ChargingStateRequest(b) PROVE LockStep
  BY <1>9 DEF ChargingStateRequest
<1>10. CASE Restart
  <2>1. /\ eeprom' = eeprom /\ conf' = eeprom
        /\ state' = SetDisabled("STARTUP", eeprom.disabled)
    BY <1>10 DEF Restart, DataInit
  <2>2. state' = IF eeprom.disabled THEN "DISABLED" ELSE "STARTUP"
    BY <2>1 DEF SetDisabled
  <2> QED
    BY <1>0, <2>1, <2>2 DEF Lifecycle!Next, Lifecycle!PowerCycle
<1> QED
  BY <1>1, <1>2, <1>3, <1>4, <1>5, <1>6, <1>7, <1>8, <1>9, <1>10
     DEF Outside

\* A step of the machine, stutters included.
LEMMA AnyLockStep ==
  ~EepromFails /\ TypeOK /\ LockAgreement /\ [Next]_vars => LockStep
<1> SUFFICES ASSUME ~EepromFails, TypeOK, LockAgreement, [Next]_vars
             PROVE  LockStep
  OBVIOUS
<1>1. CASE \E in \in SensorReadings : MainLoop(in)
  BY <1>1, MainLockStep
<1>2. CASE Outside
  BY <1>2, OutsideLockStep
<1>3. CASE UNCHANGED vars
  BY <1>3 DEF vars, LockStep, LockAgreement
<1> QED
  BY <1>1, <1>2, <1>3 DEF Next

LEMMA LockInit == Init => LockAgreement
<1> SUFFICES ASSUME Init PROVE LockAgreement
  OBVIOUS
<1>1. conf \in Configs
  BY ConfigAssumption DEF Init
<1>2. conf.disabled \in BOOLEAN
  BY <1>1, TuneTypes
<1> QED
  BY <1>2 DEF Init, DataInit, LockAgreement, SetDisabled

(* The run state, the configuration in use and the stored one agree on the *)
(* lock, through every iteration, command, configuration write and power   *)
(* cycle: inductive once the types are known.                              *)
THEOREM LocksAgree == Spec => []LockAgreement
<1>1. TypeOK /\ LockAgreement /\ [Next]_vars => LockAgreement'
  BY AnyLockStep DEF LockStep, LockAgreement
<1> QED
  BY LockInit, <1>1, TypeCorrect, PTL DEF Spec

(* A locked board is only unlocked by a command or a configuration write,  *)
(* a power cycle does not unlock it (state_set_disabled, data_init).       *)
THEOREM LockIsKept == Spec => LockSurvives
<1>1. /\ TypeOK /\ LockAgreement /\ [Next]_vars
      => [~EepromFails /\ state = "DISABLED" /\ state' # "DISABLED"
          => \/ CmdLock(FALSE)
             \/ \E c \in UserConfigs : SetCfg(c, FALSE)]_vars
  BY AnyLockStep DEF LockStep
<1> QED
  BY <1>1, TypeCorrect, LocksAgree, PTL DEF Spec, LockSurvives

(* The machine implements the lifecycle: with a working EEPROM every step  *)
(* of it is a step of BoardLifecycle or leaves phase and lock alone.       *)
THEOREM Implementation ==
  ASSUME ~EepromFails
  PROVE  Spec => ImplementsLifecycle
<1>1. Init => Lifecycle!Init
  <2> SUFFICES ASSUME Init PROVE Lifecycle!Init
    OBVIOUS
  <2>1. conf \in Configs
    BY ConfigAssumption DEF Init
  <2>2. conf.disabled \in BOOLEAN
    BY <2>1, TuneTypes
  <2> QED
    BY <2>2 DEF Init, DataInit, SetDisabled, Lifecycle!Init
<1>2. TypeOK /\ LockAgreement /\ [Next]_vars
      => [Lifecycle!Next]_<<state, eeprom.disabled>>
  BY AnyLockStep DEF LockStep
<1> QED
  BY <1>1, <1>2, TypeCorrect, LocksAgree, PTL
     DEF Spec, ImplementsLifecycle, Lifecycle!Spec

-----------------------------------------------------------------------------
(* The rides.  Outside of the main loop none begins, and the pose, the     *)
(* footpad and the timers of check_faults are left alone.                  *)
LEMMA OutsideRides ==
  ASSUME TypeOK, Outside, state' = "RUNNING"
  PROVE  /\ state = "RUNNING"
         /\ UNCHANGED <<darkride, footpad>>
         /\ age'["engage"] = age["engage"] /\ age'["switch"] = age["switch"]
         /\ age'["roll"] = age["roll"]
<1> DEFINE Goal == /\ state = "RUNNING"
                   /\ UNCHANGED <<darkride, footpad>>
                   /\ age'["engage"] = age["engage"]
                   /\ age'["switch"] = age["switch"]
                   /\ age'["roll"] = age["roll"]
<1>1. ASSUME NEW b \in BOOLEAN, CmdLock(b) \/ CmdHandtest(b) PROVE Goal
  BY <1>1 DEF CmdLock, CmdHandtest, SetDisabled, sensorVars
<1>2. ASSUME NEW b \in BOOLEAN, ChargingStateRequest(b) PROVE Goal
  BY <1>2 DEF ChargingStateRequest, Refreshed, Timers
<1>3. CASE CmdFlywheelOff
  BY <1>3 DEF CmdFlywheelOff, FlywheelAllowed, FlywheelStop, SetDisabled, sensorVars
<1>4. ASSUME NEW k \in FlywheelCommands, NEW pitch \in PitchReadings,
             CmdFlywheelOn(k, pitch) \/ CmdFlywheelRefused(k, pitch)
      PROVE  Goal
  BY <1>4 DEF CmdFlywheelOn, CmdFlywheelRefused, sensorVars
<1>5. ASSUME NEW c \in UserConfigs, NEW b \in BOOLEAN, SetCfg(c, b) PROVE Goal
  BY <1>5 DEF SetCfg, SetDisabled, sensorVars
<1>6. ASSUME \/ \E c \in UserConfigs : CmdTuneOther(c)
             \/ SetCfgRejected \/ CmdTuneDefaults \/ CmdRuntimeTune
             \/ CmdCfgSave \/ CmdCfgRestore
      PROVE  Goal
  BY <1>6 DEF CmdTuneOther, SetCfgRejected, CmdTuneDefaults, CmdCfgSave,
              CmdCfgRestore, CmdRuntimeTune, sensorVars
<1>7. ~Restart
  BY DEF Restart, DataInit, SetDisabled
<1> QED
  BY <1>1, <1>2, <1>3, <1>4, <1>5, <1>6, <1>7 DEF Outside

(* An iteration that ends with a ride was one of the ride, or engages.     *)
LEMMA MainRides ==
  ASSUME NEW in \in SensorReadings, MainLoop(in), state' = "RUNNING"
  PROVE  MainRide(in) \/ (MainReady(in) /\ Engages(in))
<1>1. ~MainStartup(in) /\ ~MainStop(in) /\ ~MainFlywheelAbort(in) /\ ~MainDisabled(in)
  BY DEF MainStartup, MainStop, MainFlywheelAbort, MainDisabled, StateStop
<1>2. ~MainFlywheelStop(in)
  BY DEF MainFlywheelStop, FlywheelStop, SetDisabled
<1>3. MainReady(in) => Engages(in)
  BY DEF MainReady
<1> QED BY <1>1, <1>2, <1>3 DEF MainLoop

(* Engaging refreshes the engage timer.                                    *)
LEMMA EngageAge ==
  ASSUME TypeOK, NEW in, MainReady(in), Engages(in)
  PROVE  age'["engage"] = 0
BY DEF MainReady, Refreshed, Timers

(* The ages of this iteration.                                             *)
LEMMA AgedTypes ==
  ASSUME TypeOK
  PROVE  Aged \in [Timers -> Nat]
BY AgeTypes DEF TypeOK

(* What joins the history of the ride to the shared timers: neither timer  *)
(* is younger than the stretch of the ride it has to limit, and the slow   *)
(* stretch outlasts the fast one it ends with by no more than 500 ms.      *)
StretchesTimed ==
  /\ wrong_way \in Nat /\ creeping \in Nat
  /\ wrong_way <= Ms100
  /\ creeping <= wrong_way + Ms500
  /\ state = "RUNNING" => /\ wrong_way <= age["switch"]
                          /\ creeping <= age["roll"] \/ Ms500 < age["roll"]

\* A timer that is not refreshed ages by one, up to its cap.
LEMMA AgedTimers ==
  ASSUME TypeOK
  PROVE  /\ age["switch"] \in Nat /\ age["roll"] \in Nat
         /\ Aged["switch"] \in Nat /\ Aged["roll"] \in Nat
         /\ Aged["switch"] = age["switch"] + 1 \/ Aged["switch"] > Ms100
         /\ Aged["roll"] = age["roll"] + 1 \/ Aged["roll"] > Ms500
<1>1. /\ Cap["switch"] = Larger(MaxDelay, Larger(Ms100, Ms30)) + 1
      /\ Cap["roll"] = Larger(MaxDelay, Ms500) + 1
  BY DEF Cap, Timers
<1>2. Cap["switch"] > Ms100 /\ Cap["roll"] > Ms500
  BY <1>1, TimeAssumption DEF Larger
<1>3. /\ age["switch"] \in Nat /\ age["roll"] \in Nat
      /\ Aged["switch"] \in Nat /\ Aged["roll"] \in Nat
  BY AgedTypes DEF TypeOK, Timers
<1>4. /\ Aged["switch"] = IF age["switch"] < Cap["switch"]
                          THEN age["switch"] + 1 ELSE Cap["switch"]
      /\ Aged["roll"] = IF age["roll"] < Cap["roll"]
                        THEN age["roll"] + 1 ELSE Cap["roll"]
  BY DEF Aged, Timers
<1> QED BY <1>2, <1>3, <1>4

\* An iteration of the ride, upside down, that is not stopped.
LEMMA DarkrideIteration ==
  ASSUME TypeOK, NEW in \in SensorReadings, MainRide(in), darkride'
  PROVE  /\ in.erpm \in Int
         /\ age'["switch"] = IF in.erpm <= 1000 THEN 0 ELSE Aged["switch"]
         /\ age'["roll"] = IF in.erpm <= 300 THEN 0 ELSE Aged["roll"]
         /\ in.erpm > 1000 => ~(Aged["switch"] > Ms100)
         /\ in.erpm \in 301 .. 1000 => ~(Aged["roll"] > Ms500)
<1>1. DarkrideNow(in)
  BY Zenon DEF MainRide
<1>2. in.erpm \in Int
  BY ReadingsAssumption
<1>3. /\ "switch" \in FaultRefreshes(in) <=> in.erpm <= 1000
      /\ "roll" \in FaultRefreshes(in) <=> in.erpm <= 300
  BY <1>1 DEF FaultRefreshes, DarkrideRefreshes
<1>4. /\ age'["switch"] = IF in.erpm <= 1000 THEN 0 ELSE Aged["switch"]
      /\ age'["roll"] = IF in.erpm <= 300 THEN 0 ELSE Aged["roll"]
  BY <1>3 DEF MainRide, Refreshed, Timers
<1>5. ~Checks(in)[1] /\ ~Checks(in)[2]
  BY <1>1 DEF MainRide, NoFault, Reached, Reasons
<1>6. /\ Checks(in)[1] = DarkrideChecks(in)[1]
      /\ Checks(in)[2] = DarkrideChecks(in)[2]
  BY <1>1 DEF Checks, DarkrideChecks
<1>7. in.erpm > 1000 => ~(Aged["switch"] > Ms100)
  <2> DEFINE Wrong == in.erpm > 1000
             Fast == in.erpm > 2000
  <2>1. DarkrideChecks(in)[1]
          = (Wrong /\ \/ Aged["switch"] > Ms100
                      \/ Fast
                      \/ /\ wheelslip
                         /\ Aged["upside"] > Sec1
                         /\ Aged["switch"] > Ms30)
    BY DEF DarkrideChecks
  <2> HIDE DEF Wrong, Fast
  <2>2. Wrong => ~(Aged["switch"] > Ms100)
    BY <1>5, <1>6, <2>1, Zenon
  <2> QED BY <2>2 DEF Wrong
<1>8. in.erpm \in 301 .. 1000 => ~(Aged["roll"] > Ms500)
  BY <1>5, <1>6, Zenon DEF DarkrideChecks
<1> QED BY <1>2, <1>4, <1>7, <1>8

(* An iteration that goes on upside down lengthens the stretches it is a   *)
(* part of and begins the others anew, as the timers do.                   *)
LEMMA StretchStep ==
  ASSUME TypeOK, StretchesTimed, NEW in \in SensorReadings, MainRide(in),
         darkride', wrong_way' = Lasted(in.erpm > 1000, wrong_way),
         creeping' = Lasted(in.erpm > 300, creeping)
  PROVE  StretchesTimed'
<1>1. UpsideDownRide
  BY DEF MainRide, UpsideDownRide
<1>2. /\ wrong_way' = IF in.erpm > 1000 THEN wrong_way + 1 ELSE 0
      /\ creeping' = IF in.erpm > 300 THEN creeping + 1 ELSE 0
  BY <1>1 DEF Lasted
<1>3. state = "RUNNING" /\ state' = "RUNNING"
  BY <1>1 DEF UpsideDownRide
<1>4. CASE in.erpm > 1000
  BY <1>2, <1>3, <1>4, AgedTimers, DarkrideIteration, TimeAssumption
     DEF StretchesTimed
<1>5. CASE in.erpm \in 301 .. 1000
  BY <1>2, <1>3, <1>5, AgedTimers, DarkrideIteration, TimeAssumption
     DEF StretchesTimed
<1>6. CASE in.erpm <= 300
  BY <1>2, <1>3, <1>6, AgedTimers, DarkrideIteration, TimeAssumption
     DEF StretchesTimed
<1>7. in.erpm \in Int
  BY DarkrideIteration
<1> QED BY <1>4, <1>5, <1>6, <1>7

\* Every other step begins the stretches anew, or leaves ride and timers alone.
LEMMA StretchesKept ==
  TypeOK /\ TypeOK' /\ StretchesTimed /\ [HistoryNext]_<<vars, historyVars>>
  => StretchesTimed'
<1> SUFFICES ASSUME TypeOK, TypeOK', StretchesTimed,
                    [HistoryNext]_<<vars, historyVars>>
             PROVE  StretchesTimed'
  OBVIOUS
<1>1. CASE UNCHANGED <<vars, historyVars>>
  BY <1>1 DEF vars, historyVars, StretchesTimed
<1>2. CASE Outside /\ UNCHANGED historyVars
  <2>1. state' = "RUNNING" => /\ state = "RUNNING"
                              /\ age'["switch"] = age["switch"]
                              /\ age'["roll"] = age["roll"]
    BY <1>2, OutsideRides
  <2> QED BY <1>2, <2>1 DEF historyVars, StretchesTimed
<1>3. ASSUME NEW in \in SensorReadings, MainLoop(in),
             wrong_way' = Lasted(in.erpm > 1000, wrong_way),
             creeping' = Lasted(in.erpm > 300, creeping)
      PROVE  StretchesTimed'
  <2>1. CASE UpsideDownRide
    <3>1. MainRide(in)
      BY <1>3, <2>1, MainRides DEF UpsideDownRide, MainReady
    <3> QED BY <1>3, <2>1, <3>1, StretchStep DEF UpsideDownRide
  <2>2. CASE ~UpsideDownRide
    <3>1. wrong_way' = 0 /\ creeping' = 0
      BY <1>3, <2>2 DEF Lasted
    <3>2. age'["switch"] \in Nat /\ age'["roll"] \in Nat
      BY DEF TypeOK, Timers
    <3> QED BY <3>1, <3>2, TimeAssumption DEF StretchesTimed
  <2> QED BY <2>1, <2>2
<1> QED BY <1>1, <1>2, <1>3 DEF HistoryNext

(* An upside-down ride goes the wrong way for no longer than the checks of *)
(* the darkride branch say, on the clock of the ride itself: the fault     *)
(* timers are shared and refreshed, but never while they are needed.       *)
THEOREM WrongWayIsStopped == HistorySpec => []DarkrideReverseStop
<1>1. HistorySpec => Spec
  <2>1. HistoryInit => Init
    BY DEF HistoryInit
  <2>2. [HistoryNext]_<<vars, historyVars>> => [Next]_vars
    BY DEF HistoryNext, Next
  <2> QED BY <2>1, <2>2, PTL DEF HistorySpec, Spec
<1>2. HistoryInit => StretchesTimed
  BY TimeAssumption DEF HistoryInit, StretchesTimed, Init, DataInit, SetDisabled
<1>3. StretchesTimed => DarkrideReverseStop
  BY TimeAssumption DEF StretchesTimed, DarkrideReverseStop
<1> QED BY <1>1, <1>2, <1>3, StretchesKept, TypeCorrect, PTL DEF HistorySpec

(* A board on its charger engages only upside down: both other ways ask    *)
(* can_engage.                                                             *)
THEOREM ChargingBoardStays == Spec => ChargingBlocksEngage
<1>1. TypeOK /\ [Next]_vars => [Engage /\ charging' => darkride']_vars
  <2> SUFFICES ASSUME TypeOK, Next, Engage, charging' PROVE darkride'
    OBVIOUS
  <2>1. ~Outside
    BY OutsideRides DEF Engage
  <2>2. PICK in \in SensorReadings : MainLoop(in)
    BY <2>1 DEF Next
  <2>3. MainReady(in) /\ Engages(in)
    BY <2>2, MainRides DEF Engage, MainRide
  <2>4. ChargingNow
    BY <2>3, Zenon DEF MainReady
  <2>5. EngageDarkride(in)
    BY <2>3, <2>4 DEF Engages, EngageLevel, EngagePush, CanEngage
  <2> QED BY <2>3, <2>5, Zenon DEF MainReady, EngageDarkride
<1> QED BY <1>1, TypeCorrect, PTL DEF Spec, ChargingBlocksEngage

(* Upside down the board engages on its own only within the grace period   *)
(* of the ride before, and not at once after a reverse stop; a board    *)
(* on its end, where the konami of Flywheel mode is entered, is not level  *)
(* for the balance filter.                                                 *)
THEOREM DarkrideEngagesInTime ==
  ASSUME \A in \in SensorReadings : in.pitch \in 76 .. 104
           => in.balance_pitch \in Int /\ in.balance_pitch >= 45
  PROVE  Spec => DarkrideEngage
<1>1. TypeOK /\ [Next]_vars
      => [Engage /\ darkride' /\ footpad' = "NONE" /\ mode # "FLYWHEEL"
          => /\ age'["disengage"] <= Sec10
             /\ age'["disengage"] > Sec1 \/ stop_condition # "REVERSE_STOP"]_vars
  <2> SUFFICES ASSUME TypeOK, Next, Engage, darkride', footpad' = "NONE", mode # "FLYWHEEL"
               PROVE  /\ age'["disengage"] <= Sec10
                      /\ age'["disengage"] > Sec1 \/ stop_condition # "REVERSE_STOP"
    OBVIOUS
  <2>1. ~Outside
    BY OutsideRides DEF Engage
  <2>2. PICK in \in SensorReadings : MainLoop(in)
    BY <2>1 DEF Next
  <2>3. MainReady(in) /\ Engages(in)
    BY <2>2, MainRides DEF Engage, MainRide
  <2>4. ReadyDarkride(in)
    BY <2>3, Zenon DEF MainReady
  <2>5. age'["disengage"] = Aged["disengage"]
    BY <2>3 DEF MainReady, Refreshed, Timers
  <2>6. in.footpad = "NONE"
    BY <2>3 DEF MainReady
  <2>7. CASE Konami(in)
    <3>1. ReadyTolerance(in) = 1
      BY <2>7 DEF ReadyTolerance, ReadyConf, FlywheelTune
    <3>2. in.balance_pitch \in Int /\ in.balance_pitch >= 45
      BY <2>7 DEF Konami
    <3> QED BY <2>3, <3>1, <3>2 DEF Engages, EngageLevel, EngageDarkride, EngagePush
  <2>8. CASE ~Konami(in)
    <3>1. EngageDarkride(in)
      BY <2>3, <2>6, <2>8 DEF Engages, EngageLevel, EngagePush, CanEngage, ReadyMode
    <3> QED BY <2>4, <2>5, <3>1 DEF ReadyDarkride, EngageDarkride
  <2> QED BY <2>7, <2>8
<1> QED BY <1>1, TypeCorrect, PTL DEF Spec, DarkrideEngage

(* The bound of DeadMan in every mode: Flywheel mode, which does not look  *)
(* at the footpad, refreshes the timer too, so that the bound is there     *)
(* when a command changes the mode of the running board.                   *)
FootpadBound ==
  /\ state = "RUNNING" /\ footpad = "NONE" /\ ~darkride
  /\ ~conf.moving_fault_disabled /\ age["engage"] > 0
  => age["switch"] <= conf.delay_full

(* Who does not change the delay and the moving fault setting of a ride.   *)
LEMMA OutsideKeepsDelay ==
  ASSUME TypeOK, Outside, state' = "RUNNING",
         Commands \cap {"SET_CFG", "CFG_RESTORE", "TUNE_OTHER"} = {}
  PROVE  /\ conf'.delay_full = conf.delay_full
         /\ conf'.moving_fault_disabled = conf.moving_fault_disabled
<1> DEFINE Goal == /\ conf'.delay_full = conf.delay_full
                   /\ conf'.moving_fault_disabled = conf.moving_fault_disabled
<1> conf \in Configs
  BY DEF TypeOK
<1>1. ASSUME NEW b \in BOOLEAN, CmdLock(b) \/ CmdHandtest(b) PROVE Goal
  BY <1>1, OutsideRides DEF CmdLock, CmdHandtest
<1>2. ASSUME NEW b \in BOOLEAN, ChargingStateRequest(b) PROVE Goal
  BY <1>2 DEF ChargingStateRequest
<1>3. CASE CmdFlywheelOff
  BY <1>3, OutsideRides DEF CmdFlywheelOff, FlywheelAllowed, FlywheelStop, SetDisabled
<1>4. ASSUME NEW k \in FlywheelCommands, NEW pitch \in PitchReadings,
             CmdFlywheelOn(k, pitch) \/ CmdFlywheelRefused(k, pitch)
      PROVE  Goal
  BY <1>4 DEF CmdFlywheelOn, CmdFlywheelRefused, FlywheelTune, Configs
<1>5. CASE CmdTuneDefaults \/ CmdRuntimeTune \/ CmdCfgSave
  BY <1>5 DEF CmdTuneDefaults, CmdCfgSave, CmdRuntimeTune, Configs
<1>6. /\ ~\E c \in UserConfigs : CmdTuneOther(c)
      /\ ~\E c \in UserConfigs, b \in BOOLEAN : SetCfg(c, b)
      /\ ~SetCfgRejected /\ ~CmdCfgRestore
  BY DEF CmdTuneOther, SetCfg, SetCfgRejected, CmdCfgRestore
<1>7. ~Restart
  BY DEF Restart, DataInit, SetDisabled
<1> QED BY <1>1, <1>2, <1>3, <1>4, <1>5, <1>6, <1>7 DEF Outside

(* check_faults in the upright branch: the timer of the open footpad is    *)
(* refreshed while it is not open, and stops the board once it is older    *)
(* than the delay, as long as no command changes the delay itself.         *)
THEOREM RiderOffIsStopped ==
  ASSUME Commands \cap {"SET_CFG", "CFG_RESTORE", "TUNE_OTHER"} = {}
  PROVE  Spec => []DeadMan
<1>1. Init => FootpadBound
  BY DEF Init, DataInit, SetDisabled, FootpadBound
<1>2. TypeOK /\ FootpadBound /\ [Next]_vars => FootpadBound'
  <2> SUFFICES ASSUME TypeOK, FootpadBound, [Next]_vars,
                      state' = "RUNNING", footpad' = "NONE", ~darkride',
                      ~conf'.moving_fault_disabled, age'["engage"] > 0
               PROVE  age'["switch"] <= conf'.delay_full
    BY DEF FootpadBound
  <2>1. CASE UNCHANGED vars
    BY <2>1 DEF vars, FootpadBound
  <2>2. CASE Outside
    BY <2>2, OutsideRides, OutsideKeepsDelay DEF FootpadBound
  <2>3. ASSUME NEW in \in SensorReadings, MainRide(in)
        PROVE  age'["switch"] <= conf'.delay_full
    <3>1. ~DarkrideNow(in)
      BY <2>3, Zenon DEF MainRide
    <3>2. conf' = conf /\ in.footpad = "NONE" /\ conf.delay_full \in Nat
      BY <2>3 DEF MainRide, Preamble, TypeOK, Configs
    <3>3. "switch" \in Timers /\ Aged["switch"] \in Nat
      BY AgedTypes DEF Timers
    <3>4. CASE "switch" \in FaultRefreshes(in)
      BY <2>3, <3>2, <3>3, <3>4 DEF MainRide, Refreshed
    <3>5. CASE "switch" \notin FaultRefreshes(in)
      <4>1. FootpadOpen(in)
        BY <3>1, <3>5 DEF FaultRefreshes, UprightRefreshes
      <4>2. ~Checks(in)[1]
        BY <2>3, <3>1 DEF MainRide, NoFault, Reached, Reasons
      <4>3. Checks(in)[1] = UprightChecks(in)[1]
        BY <3>1 DEF Checks, UprightChecks
      <4>4. UprightChecks(in)[1]
              = (FootpadOpen(in) /\ ~SwitchFaultsOff(in) /\
                   \/ Aged["switch"] > conf.delay_full
                   \/ /\ AbsErpm(in) < conf.half_erpm * 6
                      /\ Aged["switch"] > conf.delay_half)
        BY DEF UprightChecks
      <4>5. ~SwitchFaultsOff(in)
        BY <3>2 DEF SwitchFaultsOff
      <4>6. ~(Aged["switch"] > conf.delay_full)
        BY <4>1, <4>2, <4>3, <4>4, <4>5, Zenon
      <4>7. age'["switch"] = Aged["switch"]
        BY <2>3, <3>1, <3>3, <3>5 DEF MainRide, Refreshed
      <4> QED BY <3>2, <3>3, <4>6, <4>7
    <3> QED BY <3>4, <3>5
  <2>4. ASSUME NEW in \in SensorReadings, MainLoop(in)
        PROVE  age'["switch"] <= conf'.delay_full
    <3>1. ~(MainReady(in) /\ Engages(in))
      BY EngageAge
    <3> QED BY <2>3, <2>4, <3>1, MainRides
  <2> QED BY <2>1, <2>2, <2>4 DEF Next
<1>3. FootpadBound => DeadMan
  BY DEF FootpadBound, DeadMan
<1> QED BY <1>1, <1>2, <1>3, TypeCorrect, PTL DEF Spec
-----------------------------------------------------------------------------
(* The tolerance of the startup.  The commands that leave the tune of the  *)
(* handlers alone keep the tolerance in use between the one of Flywheel    *)
(* mode and the stored one, so that it only grows when a mode ends.  A     *)
(* ride and Flywheel mode have no wider tolerance than the configured one: *)
(* an engagement takes it back, and in Flywheel mode, which knows neither  *)
(* the open footpad nor the reverse stop, there is no full switch fault.   *)
ToleranceKept ==
  /\ conf.pitch_tol >= 1 /\ conf.pitch_tol <= eeprom.pitch_tol
  /\ mode = "FLYWHEEL" => /\ state \in {"READY", "RUNNING"}
                          /\ ~conf.reversestop
                          /\ state = "RUNNING" => sat # "REVERSESTOP"
  /\ mode = "FLYWHEEL" \/ state = "RUNNING"
     => startup_pitch_tolerance <= conf.pitch_tol
  /\ DirtyLandingWindow

LEMMA FlywheelTolerance ==
  ASSUME NEW c \in Configs, NEW k
  PROVE  FlywheelTune(c, k).pitch_tol = 1 /\ ~FlywheelTune(c, k).reversestop
BY DEF Configs, FlywheelTune

LEMMA NoSwitchFaultInFlywheel ==
  ASSUME TypeOK, ToleranceKept, mode = "FLYWHEEL", NEW in, MainStop(in)
  PROVE  stop_condition' # "SWITCH_FULL"
<1> SUFFICES ASSUME stop_condition' = "SWITCH_FULL" PROVE FALSE
  OBVIOUS
<1>1. state = "RUNNING" /\ sat # "REVERSESTOP"
  BY DEF MainStop, ToleranceKept
<1>2. PICK i \in 1 .. Len(Reasons(in)) :
        Checks(in)[i] /\ Reasons(in)[i] = "SWITCH_FULL"
  BY DEF MainStop, Fires
<1>3. ~DarkrideNow(in)
  BY <1>2 DEF Reasons
<1>4. i = 1 \/ i = 3
  BY <1>2, <1>3 DEF Reasons
<1>5. Checks(in)[1] = UprightChecks(in)[1] /\ Checks(in)[3] = UprightChecks(in)[3]
  BY <1>3 DEF Checks, UprightChecks
<1>6. ~UprightChecks(in)[3]
  <2>1. UprightChecks(in)[3] = (sat = "REVERSESTOP" /\ in.footpad = "NONE")
    BY DEF UprightChecks
  <2> QED BY <1>1, <2>1, Zenon
<1>7. ~UprightChecks(in)[1]
  <2>1. UprightChecks(in)[1]
          = (FootpadOpen(in) /\ ~SwitchFaultsOff(in) /\
               \/ Aged["switch"] > conf.delay_full
               \/ /\ AbsErpm(in) < conf.half_erpm * 6
                  /\ Aged["switch"] > conf.delay_half)
    BY DEF UprightChecks
  <2>2. ~FootpadOpen(in)
    BY DEF FootpadOpen
  <2> QED BY <2>1, <2>2, Zenon
<1> QED BY <1>2, <1>4, <1>5, <1>6, <1>7, Zenon

\* The window of DirtyLandingWindow while the timers of a READY board age.
LEMMA PitchAge ==
  ASSUME TypeOK
  PROVE  Aged["pitch"] \in Nat /\ "pitch" \in Timers
BY AgedTypes DEF Timers

LEMMA MainTolerance ==
  ASSUME TypeOK, ToleranceKept, ~EepromFails,
         NEW in \in SensorReadings, MainLoop(in)
  PROVE  ToleranceKept'
<1> USE DEF ToleranceKept, DirtyLandingWindow
<1>0. /\ conf \in Configs /\ eeprom \in Configs
      /\ conf.pitch_tol \in Nat /\ eeprom.pitch_tol \in Nat
      /\ startup_pitch_tolerance \in Nat /\ startup_pitch_trickmargin \in Nat
  BY TuneTypes DEF TypeOK
<1>1. CASE MainStartup(in) \/ MainDisabled(in)
  BY <1>0, <1>1 DEF MainStartup, MainDisabled, Preamble
<1>2. CASE MainFlywheelAbort(in)
  BY <1>0, <1>2 DEF MainFlywheelAbort, StateStop, Preamble
<1>3. CASE MainStop(in)
  <2>1. /\ state = "RUNNING" /\ state' = "READY"
        /\ UNCHANGED <<mode, conf, eeprom, sat>>
    BY <1>3 DEF MainStop, StateStop, Preamble
  <2> DEFINE dirty == stop_condition' = "SWITCH_FULL" /\ ~DarkrideNow(in)
  <2>2. CASE dirty
    <3>1. age'["pitch"] = 0
      BY <1>3, <2>2, PitchAge DEF MainStop, Refreshed
    <3>2. mode # "FLYWHEEL"
      BY <1>3, <2>2, NoSwitchFaultInFlywheel
    <3> QED BY <2>1, <2>2, <3>1, <3>2, TimeAssumption
  <2>3. CASE ~dirty
    <3>1. startup_pitch_tolerance' = startup_pitch_tolerance
      BY <1>3, <2>3, Zenon DEF MainStop
    <3> QED BY <1>0, <2>1, <3>1
  <2> QED BY <2>2, <2>3
<1>4. CASE MainRide(in)
  <2>1. mode = "FLYWHEEL" => NextSat(in) # "REVERSESTOP"
    BY <1>4 DEF MainRide, NextSat
  <2>2. UNCHANGED <<state, mode, conf, eeprom, startup_pitch_tolerance>>
    BY <1>4 DEF MainRide, Preamble
  <2>3. state' = "RUNNING" /\ sat' = NextSat(in)
    BY <1>4 DEF MainRide
  <2> QED BY <2>1, <2>2, <2>3
<1>5. CASE MainReady(in)
  <2>1. /\ state = "READY" /\ eeprom' = eeprom
        /\ mode' = ReadyMode(in) /\ conf' = ReadyConf(in)
    BY <1>5 DEF MainReady
  <2>2. /\ ReadyConf(in).pitch_tol \in Nat
        /\ ReadyConf(in).pitch_tol >= 1
        /\ ReadyConf(in).pitch_tol <= eeprom.pitch_tol
        /\ ReadyMode(in) = "FLYWHEEL" => ~ReadyConf(in).reversestop
    BY <1>0, FlywheelTolerance DEF ReadyConf, ReadyMode
  <2>3. CASE Engages(in)
    <3>1. /\ state' = "RUNNING" /\ sat' = "CENTERING"
          /\ startup_pitch_tolerance' = ReadyConf(in).pitch_tol
      BY <1>5, <2>3, Zenon DEF MainReady
    <3> QED BY <2>1, <2>2, <3>1
  <2>4. CASE ~Engages(in)
    <3>1. /\ state' = "READY" /\ stop_condition' = stop_condition
          /\ startup_pitch_tolerance' = ReadyTolerance(in)
          /\ age' = Aged
      BY <1>5, <2>1, <2>4, Zenon DEF MainReady
    <3>2. CASE Aged["pitch"] > Sec1
      <4>1. ReadyTolerance(in) = ReadyConf(in).pitch_tol
        BY <3>2 DEF ReadyTolerance
      <4> QED BY <2>1, <2>2, <3>1, <4>1
    <3>3. CASE ~(Aged["pitch"] > Sec1) /\ Konami(in)
      <4>1. ReadyTolerance(in) = 1
        BY <3>3, Zenon DEF ReadyTolerance
      <4> QED BY <2>1, <2>2, <3>1, <4>1
    <3>4. CASE ~(Aged["pitch"] > Sec1) /\ ~Konami(in)
      <4>1. ReadyTolerance(in) = startup_pitch_tolerance
        BY <3>4, Zenon DEF ReadyTolerance
      <4>2. ReadyConf(in) = conf /\ ReadyMode(in) = mode
        BY <3>4 DEF ReadyConf, ReadyMode
      <4>3. age'["pitch"] <= Sec1
        BY <3>1, <3>4, PitchAge, TimeAssumption
      <4> QED BY <1>0, <2>1, <2>2, <3>1, <4>1, <4>2, <4>3
    <3> QED BY <3>2, <3>3, <3>4
  <2> QED BY <2>3, <2>4
<1>6. CASE MainFlywheelStop(in)
  <2>1. PICK c \in Loaded :
          mode' = "NORMAL" /\ conf' = c /\ state' = SetDisabled(state, c.disabled)
    BY <1>6 DEF MainFlywheelStop, FlywheelStop
  <2>2. conf' = eeprom /\ eeprom' = eeprom
    BY <1>6, <2>1, ReadTypes DEF MainFlywheelStop, Preamble
  <2>3. mode = "FLYWHEEL" /\ startup_pitch_tolerance' = startup_pitch_tolerance
    BY <1>6 DEF MainFlywheelStop, FlywheelEnds
  <2>4. startup_pitch_tolerance' <= conf'.pitch_tol
    BY <1>0, <2>2, <2>3
  <2>5. startup_pitch_tolerance' \in Nat
    BY <1>0, <2>3
  <2> QED BY <1>0, <2>1, <2>2, <2>4, <2>5
<1> QED BY <1>1, <1>2, <1>3, <1>4, <1>5, <1>6 DEF MainLoop

TuneKeepers == {"SET_CFG", "CFG_RESTORE", "TUNE_OTHER", "TUNE_DEFAULTS", "LOCK"}

LEMMA OutsideTolerance ==
  ASSUME TypeOK, ToleranceKept, ~EepromFails, Commands \cap TuneKeepers = {},
         Outside
  PROVE  ToleranceKept'
<1> USE DEF ToleranceKept, DirtyLandingWindow
<1>0. /\ conf \in Configs /\ eeprom \in Configs
      /\ conf.pitch_tol \in Nat /\ eeprom.pitch_tol \in Nat
      /\ startup_pitch_tolerance \in Nat
  BY TuneTypes DEF TypeOK
<1>1. ASSUME NEW b \in BOOLEAN, CmdHandtest(b) PROVE ToleranceKept'
  <2>1. /\ state = "READY" /\ mode # "FLYWHEEL" /\ mode' # "FLYWHEEL"
        /\ UNCHANGED <<eeprom, stop_condition, startup_pitch_tolerance, age>>
    BY <1>1 DEF CmdHandtest, sensorVars
  <2>2. CASE b
    <3>1. conf' = HandtestTune(conf) /\ state' = state
      BY <1>1, <2>2 DEF CmdHandtest
    <3>2. conf'.pitch_tol = conf.pitch_tol
      BY <1>0, <3>1 DEF HandtestTune, Configs
    <3> QED BY <2>1, <3>1, <3>2
  <2>3. CASE ~b
    <3>1. conf' = eeprom /\ state' = SetDisabled(state, conf'.disabled)
      BY <1>1, <2>3, ReadTypes DEF CmdHandtest
    <3>2. state' # "RUNNING"
      BY <2>1, <3>1 DEF SetDisabled
    <3> QED BY <1>0, <2>1, <3>1, <3>2
  <2> QED BY <2>2, <2>3
<1>2. ASSUME NEW b \in BOOLEAN, ChargingStateRequest(b) PROVE ToleranceKept'
  <2>1. age'["pitch"] = age["pitch"]
    BY <1>2, PitchAge DEF ChargingStateRequest, Refreshed
  <2> QED BY <1>2, <2>1 DEF ChargingStateRequest
<1>3. CASE CmdFlywheelOff
  <2> DEFINE s == IF mode = "FLYWHEEL" THEN "READY" ELSE state
  <2>1. PICK c \in Loaded :
          mode' = "NORMAL" /\ conf' = c /\ state' = SetDisabled(s, c.disabled)
    BY <1>3 DEF CmdFlywheelOff, FlywheelStop
  <2>2. /\ conf' = eeprom
        /\ UNCHANGED <<eeprom, stop_condition, startup_pitch_tolerance, age>>
    BY <1>3, <2>1, ReadTypes DEF CmdFlywheelOff, sensorVars
  <2>3. s = "READY" /\ (mode = "FLYWHEEL" \/ state = "READY")
    BY <1>3 DEF CmdFlywheelOff, FlywheelAllowed
  <2>4. state' # "RUNNING"
    BY <2>1, <2>3 DEF SetDisabled
  <2> QED BY <1>0, <2>1, <2>2, <2>3, <2>4
<1>4. ASSUME NEW k \in FlywheelCommands, NEW pitch \in PitchReadings,
             CmdFlywheelOn(k, pitch)
      PROVE  ToleranceKept'
  <2>1. /\ conf' = FlywheelTune(conf, k) /\ startup_pitch_tolerance' = 1
        /\ UNCHANGED <<state, sat, eeprom>>
        /\ state = "READY" \/ mode = "FLYWHEEL"
    BY <1>4 DEF CmdFlywheelOn, FlywheelAllowed
  <2>2. conf'.pitch_tol = 1 /\ ~conf'.reversestop
    BY <1>0, <2>1, FlywheelTolerance
  <2> QED BY <1>0, <2>1, <2>2
<1>5. ASSUME NEW k \in FlywheelCommands, NEW pitch \in PitchReadings,
             CmdFlywheelRefused(k, pitch)
      PROVE  ToleranceKept'
  BY <1>5 DEF CmdFlywheelRefused, sensorVars
<1>6. CASE CmdRuntimeTune
  BY <1>6 DEF CmdRuntimeTune, sensorVars
<1>7. CASE CmdCfgSave
  <2>1. eeprom' = conf
    BY <1>7, WriteTypes, <1>0 DEF CmdCfgSave
  <2> QED BY <1>0, <1>7, <2>1 DEF CmdCfgSave, sensorVars
<1>8. CASE Restart
  <2>1. conf' = eeprom /\ eeprom' = eeprom /\ mode' = "NORMAL"
    BY <1>8 DEF Restart, DataInit
  <2>2. state' # "READY" /\ state' # "RUNNING"
    BY <1>8 DEF Restart, DataInit, SetDisabled
  <2> QED BY <1>0, <2>1, <2>2
<1>9. /\ ~\E b \in BOOLEAN : CmdLock(b)
      /\ ~\E c \in UserConfigs : CmdTuneOther(c)
      /\ ~\E c \in UserConfigs, b \in BOOLEAN : SetCfg(c, b)
      /\ ~SetCfgRejected /\ ~CmdTuneDefaults /\ ~CmdCfgRestore
  BY DEF TuneKeepers, CmdLock, CmdTuneOther, SetCfg, SetCfgRejected,
         CmdTuneDefaults, CmdCfgRestore
<1> QED BY <1>1, <1>2, <1>3, <1>4, <1>5, <1>6, <1>7, <1>8, <1>9 DEF Outside

(* check_faults and the READY state: the wider tolerance is granted by a   *)
(* full switch fault and taken back one second later.  The hypotheses name *)
(* what a user can do about it: store a tolerance narrower than the 0.2    *)
(* degrees of Flywheel mode, or have the configuration replaced between    *)
(* the two, by a write, a restore, a tune, or the lock, which reads the    *)
(* stored one back.                                                        *)
THEOREM DirtyLandingEnds ==
  ASSUME ~EepromFails,
         \A c \in UserConfigs : c.pitch_tol >= 1,
         Commands \cap TuneKeepers = {}
  PROVE  Spec => []DirtyLandingWindow
<1>1. Init => ToleranceKept
  <2> SUFFICES ASSUME Init PROVE ToleranceKept
    OBVIOUS
  <2>1. conf \in UserConfigs /\ conf \in Configs /\ eeprom = conf
    BY ConfigAssumption DEF Init
  <2>2. conf.pitch_tol \in Nat /\ conf.pitch_tol >= 1
    BY <2>1, TuneTypes
  <2>3. mode = "NORMAL" /\ state # "READY" /\ state # "RUNNING"
    BY DEF Init, DataInit, SetDisabled
  <2> QED BY <2>1, <2>2, <2>3 DEF ToleranceKept, DirtyLandingWindow
<1>2. TypeOK /\ ToleranceKept /\ [Next]_vars => ToleranceKept'
  <2> SUFFICES ASSUME TypeOK, ToleranceKept, [Next]_vars PROVE ToleranceKept'
    OBVIOUS
  <2>1. CASE \E in \in SensorReadings : MainLoop(in)
    BY <2>1, MainTolerance
  <2>2. CASE Outside
    BY <2>2, OutsideTolerance
  <2>3. CASE UNCHANGED vars
    BY <2>3 DEF vars, ToleranceKept, DirtyLandingWindow
  <2> QED BY <2>1, <2>2, <2>3 DEF Next
<1>3. ToleranceKept => DirtyLandingWindow
  BY DEF ToleranceKept
<1> QED BY <1>1, <1>2, <1>3, TypeCorrect, PTL DEF Spec
-----------------------------------------------------------------------------
(* The stored configuration.  cmd_lock stores what it has read back, with  *)
(* the flag changed, set_cfg stores what the user wrote, and nothing else  *)
(* but the save command writes the EEPROM at all: with a working EEPROM a  *)
(* tune of a special mode gets there by the save command only.             *)
LEMMA MainKeepsEeprom ==
  ASSUME NEW in \in SensorReadings, MainLoop(in)
  PROVE  eeprom' = eeprom
BY DEF MainLoop, MainStartup, MainStop, MainFlywheelAbort, MainRide,
       MainReady, MainFlywheelStop, MainDisabled, Preamble

LEMMA WhoWritesTheEeprom ==
  ASSUME Outside
  PROVE  \/ eeprom' = eeprom
         \/ CmdCfgSave
         \/ \E b \in BOOLEAN : CmdLock(b)
         \/ \E c \in UserConfigs, b \in BOOLEAN : SetCfg(c, b)
<1>1. (\E b \in BOOLEAN : CmdHandtest(b) \/ ChargingStateRequest(b))
      => eeprom' = eeprom
  BY DEF CmdHandtest, ChargingStateRequest
<1>2. CmdFlywheelOff \/ Restart => eeprom' = eeprom
  BY DEF CmdFlywheelOff, Restart
<1>3. (\E k \in FlywheelCommands, pitch \in PitchReadings :
         CmdFlywheelOn(k, pitch) \/ CmdFlywheelRefused(k, pitch))
      => eeprom' = eeprom
  BY DEF CmdFlywheelOn, CmdFlywheelRefused
<1>4. \/ \E c \in UserConfigs : CmdTuneOther(c)
      \/ SetCfgRejected \/ CmdTuneDefaults \/ CmdRuntimeTune \/ CmdCfgRestore
      => eeprom' = eeprom
  BY DEF CmdTuneOther, SetCfgRejected, CmdTuneDefaults, CmdRuntimeTune,
         CmdCfgRestore
<1> QED BY <1>1, <1>2, <1>3, <1>4 DEF Outside

LEMMA TempField ==
  ASSUME NEW c \in Configs, NEW b
  PROVE  [c EXCEPT !.disabled = b].temp = c.temp
BY DEF Configs

(* Spec => OnlySavePersistsTempTune: with a working EEPROM nothing but     *)
(* COMMAND_CFG_SAVE stores the tune of Flywheel or Handtest mode; the lock *)
(* (cmd_lock) and a configuration write (set_cfg) do not.                  *)
THEOREM TempTunesAreSavedOnPurpose ==
  ASSUME ~EepromFails
  PROVE  Spec => OnlySavePersistsTempTune
<1>1. TypeOK /\ [Next]_vars
      => [eeprom'.temp # {} /\ eeprom'.temp # eeprom.temp => CmdCfgSave]_vars
  <2> SUFFICES ASSUME TypeOK, Next, ~CmdCfgSave
               PROVE  eeprom'.temp = {} \/ eeprom'.temp = eeprom.temp
    OBVIOUS
  <2>1. CASE \E in \in SensorReadings : MainLoop(in)
    BY <2>1, MainKeepsEeprom
  <2>2. CASE Outside
    <3>1. ASSUME NEW b \in BOOLEAN, CmdLock(b)
          PROVE  eeprom'.temp = eeprom.temp
      <4>1. PICK c \in Loaded : conf' = [c EXCEPT !.disabled = b]
        BY <3>1 DEF CmdLock
      <4>2. c = eeprom /\ c \in Configs
        BY ReadTypes
      <4>3. conf' \in Configs /\ eeprom' = conf'
        BY <3>1, <4>1, <4>2, DisabledField, WriteTypes DEF CmdLock
      <4> QED BY <4>1, <4>2, <4>3, TempField
    <3>2. ASSUME NEW c \in UserConfigs, NEW b \in BOOLEAN, SetCfg(c, b)
          PROVE  eeprom'.temp = {}
      <4> DEFINE r == b /\ state # "RUNNING"
      <4>1. conf' = [c EXCEPT !.disabled = r] /\ eeprom' \in Stored(conf')
        BY <3>2 DEF SetCfg
      <4>2. c \in Configs /\ c.temp = {}
        BY ConfigAssumption
      <4>3. conf' \in Configs /\ eeprom' = conf'
        BY <4>1, <4>2, DisabledField, WriteTypes
      <4> QED BY <4>1, <4>2, <4>3, TempField
    <3> QED BY <2>2, <3>1, <3>2, WhoWritesTheEeprom
  <2> QED BY <2>1, <2>2 DEF Next
<1> QED BY <1>1, TypeCorrect, PTL DEF Spec, OnlySavePersistsTempTune
=============================================================================
