------------------------------ MODULE BoardRaces ------------------------------
(***************************************************************************)
(* The run state machine of BoardState taken apart: the main thread        *)
(* (refloat_thd), the thread that delivers app commands and configuration  *)
(* writes, and the IMU callback share the one Data struct without a lock.  *)
(* A step here is one access to shared state, or one run of accesses that  *)
(* no other thread tells apart; a thread may be preempted between any two. *)
(*                                                                         *)
(* A thread's remaining accesses are a sequence of their names (todo);     *)
(* the handlers are sequential within the command thread.  Of the balance  *)
(* board's pose only the raw pitch matters: 0 level, 90 on its end.  The   *)
(* timed faults are a choice of the main thread (BoardState has them).     *)
(* The configuration is its disabled flag and whether it holds the tune of *)
(* Flywheel mode.  It is copied through a buffer of the reading or writing *)
(* thread; of the words of its image the one of the flag decides on which  *)
(* side of another thread's access a copy is.                              *)
(***************************************************************************)
EXTENDS Integers, Sequences

CONSTANTS Commands,  \* the handlers that may be called
          MaxPitch   \* bound on the pitch: poses beyond it are not taken

ASSUME RaceAssumption ==
  /\ Commands \subseteq {"LOCK", "SET_CFG", "FLYWHEEL_OFF", "FLYWHEEL_ON"}
  /\ MaxPitch \in Nat /\ MaxPitch >= 90

Threads == {"main", "cmd"}
Poses == {0, 90}

VARIABLES
  state, mode,         \* State (state.h)
  conf, eeprom,        \* float_conf and its stored image
  flywheel_abort,
  pitch, offset,       \* imu.pitch, imu.flywheel_pitch_offset
  footpad,
  todo, arg,           \* of the main and the command thread
  buffer,              \* of read_cfg_from_eeprom and write_cfg_to_eeprom
  \* History, which no action reads:
  overlapped,          \* the last write and a read of the main thread overlap
  crossed              \* the main thread has tuned while a command ran

copies == <<buffer, overlapped, crossed>>
vars == <<state, mode, conf, eeprom, flywheel_abort, pitch, offset, footpad,
          todo, arg, copies>>

\* Of a configuration as received or stored.
Config(disabled) == [disabled |-> disabled, tuned |-> FALSE]

Init ==
  /\ state = "STARTUP" /\ mode = "NORMAL"
  /\ conf = Config(FALSE) /\ eeprom = Config(FALSE)
  /\ flywheel_abort = FALSE
  /\ pitch = 0 /\ offset = 0 /\ footpad = "NONE"
  /\ todo = [t \in Threads |-> <<>>]
  /\ arg = [t \in Threads |-> FALSE]
  /\ buffer = [t \in Threads |-> Config(FALSE)]
  /\ overlapped = FALSE /\ crossed = FALSE

-----------------------------------------------------------------------------
(* The accesses shared by both threads.  Does(t, a): the next access of t  *)
(* is a; Then(t, more): it is followed by more and by what was to follow.  *)

Does(t, access) == todo[t] # <<>> /\ Head(todo[t]) = access
Then(t, more) == todo' = [todo EXCEPT ![t] = more \o Tail(@)]
Done(t) == Then(t, <<>>)

\* The writes of the state: state_stop and the end of the startup, state_engage
\* and state_set_disabled.
StateWrites == [ready |-> "READY", engage |-> "RUNNING",
                disable |-> "DISABLED", enable |-> "STARTUP"]
SetState(t) ==
  /\ \E write \in DOMAIN StateWrites :
       Does(t, write) /\ state' = StateWrites[write]
  /\ Done(t)
  /\ UNCHANGED <<mode, conf, eeprom, flywheel_abort, pitch, offset, footpad,
                 arg, copies>>

\* state_flywheel_off
FlywheelOff(t) ==
  /\ Does(t, "flywheel_off")
  /\ IF mode = "FLYWHEEL" THEN Then(t, <<"ready">>) ELSE Done(t)
  /\ UNCHANGED <<state, mode, conf, eeprom, flywheel_abort, pitch, offset,
                 footpad, arg, copies>>

\* The assignments to the mode.
SetMode(t) ==
  /\ \/ Does(t, "normal_mode") /\ mode' = "NORMAL"
     \/ Does(t, "flywheel_mode") /\ mode' = "FLYWHEEL"
  /\ Done(t)
  /\ UNCHANGED <<state, conf, eeprom, flywheel_abort, pitch, offset, footpad,
                 arg, copies>>

\* read_cfg_from_eeprom: the stored words are read into a buffer, and the
\* configuration in use is deserialized from it.
ReadCfg(t) ==
  /\ Does(t, "read_cfg") /\ Then(t, <<"deserialize">>)
  /\ buffer' = [buffer EXCEPT ![t] = eeprom]
  /\ overlapped' = (overlapped \/ (t = "main" /\ Does("cmd", "store_words")))
  /\ UNCHANGED <<state, mode, conf, eeprom, flywheel_abort, pitch, offset,
                 footpad, arg, crossed>>

Deserialize(t) ==
  /\ Does(t, "deserialize") /\ Done(t)
  /\ conf' = buffer[t]
  /\ UNCHANGED <<state, mode, eeprom, flywheel_abort, pitch, offset, footpad,
                 arg, copies>>

\* state_set_disabled: the tests, which decide on the write.
SetDisabledTest(t) ==
  /\ \E disabled \in BOOLEAN :
       /\ \/ Does(t, "configure") /\ disabled = conf.disabled
          \/ Does(t, "set_disabled") /\ disabled = arg[t]
       /\ IF state # "RUNNING" /\ disabled THEN Then(t, <<"disable">>)
          ELSE IF state = "DISABLED" /\ ~disabled THEN Then(t, <<"enable">>)
          ELSE Done(t)
  /\ UNCHANGED <<state, mode, conf, eeprom, flywheel_abort, pitch, offset,
                 footpad, arg, copies>>

flywheel_stop == <<"normal_mode", "read_cfg", "configure">>

\* cmd_flywheel_toggle after the mode is set: the test of the pitch, its
\* capture, and the assignments that follow.  arg: a new capture is asked.
PitchTest(t) ==
  /\ Does(t, "pitch_test")
  /\ IF offset # 0 /\ ~arg[t] THEN Then(t, <<"no_abort", "tune">>)
     ELSE IF pitch \in -69 .. 69 THEN Then(t, <<"normal_mode">>)
     ELSE Then(t, <<"capture", "no_abort", "tune">>)
  /\ UNCHANGED <<state, mode, conf, eeprom, flywheel_abort, pitch, offset,
                 footpad, arg, copies>>

\* imu_set_flywheel_offsets
Capture(t) ==
  /\ Does(t, "capture") /\ Done(t)
  /\ offset' = pitch
  /\ UNCHANGED <<state, mode, conf, eeprom, flywheel_abort, pitch, footpad,
                 arg, copies>>

ClearAbort(t) ==
  /\ Does(t, "no_abort") /\ Done(t)
  /\ flywheel_abort' = FALSE
  /\ UNCHANGED <<state, mode, conf, eeprom, pitch, offset, footpad, arg,
                 copies>>

Tune(t) ==
  /\ Does(t, "tune") /\ Done(t)
  /\ conf' = [conf EXCEPT !.tuned = TRUE]
  /\ crossed' = (crossed \/ (t = "main" /\ todo["cmd"] # <<>>))
  /\ UNCHANGED <<state, mode, eeprom, flywheel_abort, pitch, offset, footpad,
                 arg, buffer, overlapped>>

Shared(t) ==
  \/ SetState(t) \/ FlywheelOff(t) \/ SetMode(t) \/ ReadCfg(t)
  \/ Deserialize(t) \/ SetDisabledTest(t) \/ PitchTest(t) \/ Capture(t)
  \/ ClearAbort(t) \/ Tune(t)

-----------------------------------------------------------------------------
(* The main thread.                                                        *)

\* The footpad is sampled, then the state switch reads the state.
Branches ==
  [STARTUP |-> <<"ready">>, RUNNING |-> <<"check_faults">>,
   READY |-> <<"flywheel_check", "konami", "conditions">>, DISABLED |-> <<>>]

MainSwitch ==
  /\ todo["main"] = <<>>
  /\ footpad' \in {"NONE", "BOTH"}
  /\ \E s \in DOMAIN Branches :
       state = s /\ todo' = [todo EXCEPT !["main"] = Branches[s]]
  /\ UNCHANGED <<state, mode, conf, eeprom, flywheel_abort, pitch, offset,
                 arg, copies>>

\* A timed fault, the flywheel abort, or none.
MainCheckFaults ==
  /\ Does("main", "check_faults")
  /\ \/ Then("main", <<"ready">>)
     \/ /\ mode = "FLYWHEEL" /\ footpad # "NONE"
        /\ Then("main", <<"flywheel_off", "abort">>)
     \/ ~(mode = "FLYWHEEL" /\ footpad # "NONE") /\ Done("main")
  /\ UNCHANGED <<state, mode, conf, eeprom, flywheel_abort, pitch, offset,
                 footpad, arg, copies>>

MainAbort ==
  /\ Does("main", "abort") /\ Done("main")
  /\ flywheel_abort' = TRUE
  /\ UNCHANGED <<state, mode, conf, eeprom, pitch, offset, footpad, arg,
                 copies>>

\* READY in Flywheel mode: flywheel_stop ends the iteration.
FlywheelEnds_OnPress == mode = "FLYWHEEL" /\ footpad # "NONE"
FlywheelEnds == mode = "FLYWHEEL" /\ (flywheel_abort \/ footpad # "NONE")

MainFlywheelCheck ==
  /\ Does("main", "flywheel_check")
  /\ IF FlywheelEnds THEN todo' = [todo EXCEPT !["main"] = flywheel_stop]
     ELSE Done("main")
  /\ UNCHANGED <<state, mode, conf, eeprom, flywheel_abort, pitch, offset,
                 footpad, arg, copies>>

\* The konami sequence runs cmd_flywheel_toggle in the main thread; its
\* guards on mode and state hold, as it is READY and mode # FLYWHEEL.
MainKonami ==
  /\ Does("main", "konami")
  /\ \/ Done("main") /\ UNCHANGED arg
     \/ /\ mode # "FLYWHEEL" /\ pitch \in 76 .. 104
        /\ Then("main", <<"flywheel_mode", "pitch_test">>)
        /\ arg' = [arg EXCEPT !["main"] = TRUE]
  /\ UNCHANGED <<state, mode, conf, eeprom, flywheel_abort, pitch, offset,
                 footpad, copies>>

\* The conditions to engage: level, and a foot on the pad or Flywheel mode.
MainConditions ==
  /\ Does("main", "conditions")
  /\ IF pitch = 0 /\ (footpad = "BOTH" \/ mode = "FLYWHEEL")
     THEN Then("main", <<"engage">>) ELSE Done("main")
  /\ UNCHANGED <<state, mode, conf, eeprom, flywheel_abort, pitch, offset,
                 footpad, arg, copies>>

Main ==
  \/ MainSwitch \/ MainCheckFaults \/ MainAbort
  \/ MainFlywheelCheck \/ MainKonami \/ MainConditions \/ Shared("main")

-----------------------------------------------------------------------------
(* The command thread.  A call makes the first tests of the handler, which *)
(* decide what it is going to do.                                          *)

Calls(handler, value, accesses) ==
  /\ handler \in Commands
  /\ todo["cmd"] = <<>>
  /\ todo' = [todo EXCEPT !["cmd"] = accesses]
  /\ arg' = [arg EXCEPT !["cmd"] = value]
  /\ UNCHANGED <<state, mode, conf, eeprom, flywheel_abort, pitch, offset,
                 footpad, copies>>

CallLock_Unsaved(disabled) ==
  /\ state # "RUNNING"
  /\ Calls("LOCK", disabled, <<"read_cfg", "assign", "set_disabled">>)
CallLock_KeepsTune(disabled) ==
  /\ state # "RUNNING"
  /\ Calls("LOCK", disabled, <<"assign", "set_disabled", "write_cfg">>)
CallLock(disabled) ==
  /\ state # "RUNNING"
  /\ Calls("LOCK", disabled,
           <<"read_cfg", "assign", "set_disabled", "write_cfg">>)

CallSetCfg(disabled) ==
  /\ mode = "NORMAL"
  /\ Calls("SET_CFG", disabled,
           <<"receive", "not_running", "write_cfg", "configure">>)

\* cmd_flywheel_toggle: allowed in READY, or in Flywheel mode.
CallFlywheel(on, capture) ==
  /\ state = "READY" \/ mode = "FLYWHEEL"
  /\ IF on
     THEN Calls("FLYWHEEL_ON", capture, <<"flywheel_mode", "pitch_test">>)
     ELSE Calls("FLYWHEEL_OFF", FALSE, <<"flywheel_off">> \o flywheel_stop)

\* cmd_lock: float_conf.disabled = cfg[0]
Assign ==
  /\ Does("cmd", "assign") /\ Done("cmd")
  /\ conf' = [conf EXCEPT !.disabled = arg["cmd"]]
  /\ UNCHANGED <<state, mode, eeprom, flywheel_abort, pitch, offset, footpad,
                 arg, copies>>

\* set_cfg: the deserialized configuration, not disabled while RUNNING.
Receive ==
  /\ Does("cmd", "receive") /\ Done("cmd")
  /\ conf' = Config(arg["cmd"])
  /\ UNCHANGED <<state, mode, eeprom, flywheel_abort, pitch, offset, footpad,
                 arg, copies>>

NotRunning ==
  /\ Does("cmd", "not_running") /\ Done("cmd")
  /\ conf' = [conf EXCEPT !.disabled = @ /\ state # "RUNNING"]
  /\ UNCHANGED <<state, mode, eeprom, flywheel_abort, pitch, offset, footpad,
                 arg, copies>>

\* write_cfg_to_eeprom: the configuration in use is serialized to a buffer,
\* and its words are stored.
WriteCfg ==
  /\ Does("cmd", "write_cfg") /\ Then("cmd", <<"store_words">>)
  /\ buffer' = [buffer EXCEPT !["cmd"] = conf]
  /\ overlapped' = Does("main", "deserialize")
  /\ UNCHANGED <<state, mode, conf, eeprom, flywheel_abort, pitch, offset,
                 footpad, arg, crossed>>

StoreWords ==
  /\ Does("cmd", "store_words") /\ Done("cmd")
  /\ eeprom' = buffer["cmd"]
  /\ UNCHANGED <<state, mode, conf, flywheel_abort, pitch, offset, footpad,
                 arg, copies>>

CmdProceeds ==
  Assign \/ Receive \/ NotRunning \/ WriteCfg \/ StoreWords \/ Shared("cmd")
CmdCalled ==
  \/ \E b \in BOOLEAN : CallLock(b) \/ CallSetCfg(b)
  \/ \E on, capture \in BOOLEAN : CallFlywheel(on, capture)

-----------------------------------------------------------------------------
(* The IMU callback.                                                       *)

\* imu_update: in Flywheel mode the pitch is relative to the offset.  One of
\* the two poses is within MaxPitch whatever the offset is.
Imu ==
  /\ \E raw \in Poses :
       /\ pitch' = IF mode = "FLYWHEEL" THEN offset - raw ELSE raw
       /\ pitch' \in -MaxPitch .. MaxPitch
  /\ UNCHANGED <<state, mode, conf, eeprom, flywheel_abort, offset, footpad,
                 todo, arg, copies>>

Next == Main \/ CmdCalled \/ CmdProceeds \/ Imu
Spec == Init /\ [][Next]_vars

\* No thread is stopped for good, whether a command comes is not fair.
FairSpec == Spec /\ WF_vars(Main) /\ WF_vars(CmdProceeds) /\ WF_vars(Imu)

-----------------------------------------------------------------------------
(* What holds in spite of the interleavings.                               *)

(* Between commands the configuration in use and the stored one agree on   *)
(* the lock, even if flywheel_stop of the main thread read the stored one  *)
(* in the middle of a lock command or a configuration write.  Excepted is  *)
(* that it is reading while the command is writing, between the two steps  *)
(* of each: then one of the two copies is older than the other.            *)
LockStored ==
  todo["cmd"] = <<>> /\ ~overlapped => conf.disabled = eeprom.disabled

(* The flywheel tune is never stored by a lock or a configuration write:   *)
(* each of them gets another configuration before it writes.  Excepted is  *)
(* that a konami sequence of the main thread tunes the configuration while *)
(* a command is under way.                                                 *)
TempTuneNotStored == eeprom.tuned => crossed

(* A pressed footpad ends Flywheel mode, also when the start commands race *)
(* with the main thread's reading of the abort flag.  This is so for every *)
(* start: cfg[5] of the command, which would forbid it, is never read.     *)
AbortEndsFlywheel ==
  mode = "FLYWHEEL" /\ flywheel_abort
  ~> mode # "FLYWHEEL" \/ ~flywheel_abort \/ state = "DISABLED"

(* What the interleavings break.                                           *)

(* settings.xml:4020, the disabled option: "Riding won't be possible with  *)
(* this set to true."                                                      *)
DisabledDoesNotRide ==
  state = "RUNNING" /\ todo["cmd"] = <<>> => ~conf.disabled
=============================================================================
