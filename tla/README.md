# A verification project for Refloat

Refloat is the package that turns a VESC motor controller into a
self-balancing board. This directory holds TLA+ models of the parts of it
that decide (the run state machine, the special modes, the lock, the alerts,
the recorder, the beeps and tones, the remote, the battery faults, the reverse
stop, the lights), the TLC configurations that check them on small instances, and theorems the TLA+ proof system checks for every instance.
Everything is translated from the C code under `src/`; where a doc or a
comment says something else, a run shows the difference.

Paths below are relative to the repository.

## The system

### Who runs

There is one `Data` struct (`src/data.h`) and no lock on it. It is shared by

| actor | code | what it does |
|---|---|---|
| main thread | `refloat_thd`, `main.c:692` | one iteration at the loop rate: samples footpad, motor and remote, switches on the run state, closes the alerts |
| IMU callback | `imu_ref_callback` in `main.c` | balance filter, pitch, PID, and what the motor is asked for |
| auxiliary thread | `aux_thd` | LEDs, the LCM, the odometer backup |
| command thread | `on_command_received`, `get_cfg`, `set_cfg` | app commands and VESC Tool reads and writes, one at a time |
| Lisp | `ext_bms`, `ext_set_fw_version` | pushes BMS values |
| life cycle | `INIT_FUN`, `stop` | allocates and frees the struct, starts and ends the threads |

The auxiliary thread lowers its own priority (`main.c:1112`); of the others the
repository says nothing, so a model with more than one of them
lets any of them be preempted between two of its steps. A step is one access to
shared state, or several that no other thread tells apart; "What is one step"
below lists the steps that are longer than that. What is assumed:
commands and configuration writes come from one thread and are handled one
after the other; a single aligned access is atomic.

### The components

| component | state | operations | what makes it correct | status |
|---|---|---|---|---|
| run state machine (`state.c`, `main.c` 240–1190) | run state, mode, setpoint adjustment, stop condition, charging, wheelslip, darkride and its three companions, startup tolerance, fault timers | the iterations in the four states, `check_faults`, engaging, `flywheel_stop`, `configure` | a rider who steps off is stopped; a locked board does not ride; flags of a ride end with it; what is temporary is not stored | `BoardState` |
| app commands and configuration (`main.c` 1200–2650) | `float_conf`, its EEPROM image | lock, handtest, flywheel, tunes, save, restore, `set_cfg`, charging | the same, in any order, interleaved with the main thread and with power cycles | `BoardState`, `BoardRaces` |
| charging (`charging.c`) | flag and timer | request, timeout | a board on its charger does not engage | `BoardState`; the race of flag and timer is not modelled |
| IMU and balance filter (`imu.c`, `balance_filter.c`) | attitude, flywheel offsets | update, capture | the pitch is in the frame the mode expects | offset in `BoardRaces` |
| motor control (`motor_control.c`) | requested current, tone and click counters, parking brake | request, apply, play, stop | a tone comes to an end | tones and clicks in `HapticFeedback`; request, parking brake and brake timer not modelled |
| alert tracker (`alert_tracker.c`) | two masks, fatal error, fault code, log | add, finalize, configure, clear, list | the log tells what is active; a fatal error lasts as long as configured | `AlertTracker` |
| circular buffer (`lib/circular_buffer.c`) | head, tail, empty, slots | push, get, size, clear, iterate | it is a log of the newest items | `CircularBuffer` |
| data recorder (`data_recorder.c`) | flags, sampling period, the buffer | trigger, sample, experiment data, download, configure | a download is one recording, in order | `DataRecorder` |
| haptic feedback (`haptic_feedback.c`) | pattern, beat, timers, strength | update | the pattern that is asked for is played, and ends | `HapticFeedback` |
| remote input (`remote.c`) | input, throttle, move timer | input, update, command | no input outlives its source | `RemoteInput` |
| BMS (`bms.c`) | values, age, fault mask | push, evaluate | a fault is on good data | `BmsFaults` |
| footpad and konami (`footpad_sensor.c`, `konami.c`) | ADCs, position in the sequence, timer | sample, check | only the full sequence in time fires | headlights sequences in `Konami`; an input of `BoardState` otherwise |
| reverse stop (`reverse_stop.c`) | distance, progress, active | update, stop | it comes to an end | `ReverseStop`; its decision is an input of `BoardState` |
| beeper (`main.c:90`) | beeps left, pin | alert, update, force | no alert starves, no beep sticks | `Beeper` |
| time (`time.c`) | 32 bit ticks | update, elapsed | a refreshed timer is fresh | saturating ages everywhere; the ticks in `Timers` |
| moving averages and trackers (`filters/`, `*_tracker.c`) | window, pending window | update, configure | the last configuration is used | `MovingAverage`, `FrequencyTracker`; the latency tracker only filters |
| life cycle (`main.c:2655`) | the struct, threads, callbacks | init, stop | nothing uses freed data | not modelled: what overlaps is decided by firmware that is not here |
| LEDs and LCM (`leds.c`, `led_driver.c`, `lcm.c`) | animation states, packets | update, commands | output only | bars and transitions in `Leds`; drawing, pins and packets not modelled |
| setpoint, tilts, PID (`atr.c`, `pid.c`, ...) | floats | update | control quality | not modelled: floating point arithmetic with no discrete state |
| motor data (`motor_data.c`) | filtered readings | update, alerts | faults are reported | the report in `AlertTracker` |
| configuration parser (`conf/`) | none | serialize, deserialize | byte order | not modelled: generated and conversions |
| VESC package library (`vesc_pkg_lib`) | — | — | — | not modelled: third-party code, external |
| user interface (`ui.qml.in`) | — | — | — | not modelled: a client of the commands |

### How they interact

The main thread reads the footpad, the motor and the attitude the IMU
callback wrote, and decides the run state. The IMU callback reads the run
state to decide whether it requests a current, and in Flywheel mode turns the pitch
into the frame of that mode. A command tests the run state or the mode and
then writes the mode, the configuration or the run state; most of it happens
while the main thread decides whether to engage. The alerts are reported and
closed by the main thread, configured, cleared and listed by commands. All of
this is shared memory, and there is no message or queue between the parts.

### What is hard

The repository has no automated test. Hard to test in any case are: a command
between the main thread's test of the state and its write, and the reverse;
the fault timers, shared by conditions that refresh them in different
branches; the darkride flags, which survive a ride; what is stored while a
mode has replaced the configuration; the buffer read while it is written;
flags read and written back while another thread clears them. The full list, with lines and the properties that cover each, is under
"hazards" in `PROJECT.json`.

## The modules

    BoardState ── BoardProperties ── MCBoardState      (TLC)
                       │      └───── RideHistory ─── MCBoardRide (TLC)
                       │                    └─────── BoardProofs (TLAPS)
                       └ refines ─── BoardLifecycle
    BoardRaces ───────────────────── (TLC)
         └────────────────────────── BoardRacesProofs  (TLAPS)
    CircularBuffer ── CircularBufferProofs             (TLAPS)
      │  ├ refines ─── BoundedLog
      │  ├ used by ─── AlertTracker                    (TLC)
      │  │                 └────────── AlertTrackerProofs (TLAPS)
      │  └ used by ─── DataRecorder ── MCDataRecorder  (TLC)
      │                       └─────── DataRecorderProofs (TLAPS)
      └─────┐
    Beeper ─┤  HapticFeedback ─┤  ReverseStop ─┤
    Konami ─┤  BmsFaults ──────┤  Leds ────────┤
    RemoteInput, MovingAverage, FrequencyTracker ┴ MCParts  (TLC)
         MCParts ── ThreadProofs (remote, average, tracker, BMS) (TLAPS)
               └─── RideProofs (reverse stop, konami, LEDs)      (TLAPS)
    Timers                                             (TLAPS)

A definition `X_Fault` before a definition `X` is `X` with a plausible mistake
(a dropped guard, a missing reset, a swapped order). No action uses it; it is
there to be put in the place of `X`, to see that the property it is paired
with ("mutants" in `PROJECT.json`) notices.

**BoardState** is the run state machine, an action for every handler and for
every outcome of an iteration of the main loop. `Checks`, `Reasons` and
`FaultRefreshes` are `check_faults`: its checks in order, the stop condition
each sets, and the timers that are refreshed on the way — a check that fires
ends the function, so the later refreshes do not happen. `MainStop`,
`MainFlywheelAbort`, `MainRide`, `MainReady`, `MainFlywheelStop`,
`MainStartup`, `MainDisabled` are the state switch; `Preamble`, `DarkrideNow`
and `ChargingNow` what every iteration does before it. `Outside` is everything
else: the commands, `set_cfg`, the charger, and `Restart`, after which only the
EEPROM survives. The configuration is a record of the fields the state machine
reads, and `temp`, the special modes whose temporary values are in it. A timer
is its age in iterations, saturated above the largest threshold it is
compared with. Readings (pitch, roll, speed, footpad) come from a small set.
Not in it: the values of the setpoint, haptics and beeps.

**RideHistory** adds to it two counters that watch an upside-down ride from the
outside: for how many iterations in a row it has gone the wrong way. They do not
read the fault timers, so that what is said about them holds of the ride and
not of a timer.

**BoardLifecycle** is what it promises on the whole: four phases, and a
stored lock that decides how a power cycle ends and can only be turned
when the board is not riding.

**BoardRaces** takes the lock command, `set_cfg`, the flywheel commands, the
konami sequence and `flywheel_stop` apart into single
accesses. What a thread still has to do is a sequence of access names
(`todo`); an access may replace itself by others (`Then`), which is how a test
decides. Reading and writing the stored configuration are two steps each, as both go
through a `buffer` (`ReadCfg` and `Deserialize`, `WriteCfg` and `StoreWords`). Only what
those races read is there: the timed faults of
`check_faults` are a choice of the main thread. `overlapped` and `crossed` remember that
a copy or a tune of the main thread met one of a command.

**CircularBuffer** is `lib/circular_buffer.c` with slots, head, tail and the
empty flag, and the unsigned arithmetic of its size modulo `WordSize`.
**BoundedLog** is the sequence of the newest items it stands for.

**AlertTracker** is `alert_tracker.c` with its users, access by access, on
such a buffer. There is one alert in the code, so a mask is a Boolean. A listing
goes through `circular_buffer_get` for every entry: it reads the head, then the tail
for the size (`ListGet`, `ListTest`), the tail again for the slot, and copies the
record, and the main thread may push between any two of these.

**DataRecorder** is `data_recorder.c` on such a buffer, access by access:
`Engage` and `Fault` are the ride that triggers it (main thread),
`Sample` … `Push` a sample of the IMU callback, and the rest the commands. Which access a
thread makes next is `at`. `circular_buffer_push` is taken apart as its text has it
(`PushStart`, `Copy`, `PushEnd`), the `increment` of an index included: `Load` and
`Store` add one, `Test` and `Wrap` subtract the length. The header reads the indices
(`ReadIndices`) and then the flag (`ReadEmpty`). A sample is its timestamp. The variables
`ride`, `clean`, `promised`, `fetching`, `spilled` and `overtold` only remember, for the
properties, which ride is on, whether the recording began while nothing else went on, what
the downloading client was told, and the two windows below.

**Beeper** is the beeper of `main.c`, a function a step. `Iteration` is what
one round of the main loop does with it: `beeper_update`, the warning of a
footpad that is off and the beep of a pushback, in this order.

**HapticFeedback** is `haptic_feedback_update` (`Update`) together with the
tone of `motor_control.c`, whose counters the main thread sets and the IMU
callback counts down without a lock (`Tone`, `Imu`, single accesses). Time is the
beat of the pattern, which an iteration finds changed or not. Which pattern the state of
the ride calls for (`haptic_feedback_get_type`) is a free choice in every iteration.

**ReverseStop** is `reverse_stop.c` with the part of `calculate_setpoint_target` and
`check_faults` that uses it. A board that rolls backward is leaned back over a
way (`Turn`, `Proceed`), and stopped after a while that is shorter the
further it got (`TimedOut`), or at once at the end (`Stops`). The board moves a step
at a time; the progress, a filtered value, is anything between what it was and
what the way covered says.

**Konami** is `konami.c` and the two sequences of the headlights, each with its own
recognizer, which the main loop feeds only while its sequence may apply
(`Recognize`). The app switches the headlights as well, whenever it likes.

**RemoteInput** is `remote.c`, access by access: the main thread (`TimeUpdate`,
`RemoteInput`, `MoveSpeed`, `Input`, `State`) and the command of the app
(`CommandInput` to `CommandTimer`), which tests the grace period, sets the speed and
refreshes its timer, in this order.

**BmsFaults** is `bms.c`: the values of a push are stored one by one (`PushStores`),
and the main loop reads them one by one (`EvaluateBegins` to `EvaluateEnds`), so that any
number of pushes may fall into an evaluation. `seen` and `quiet` remember
which ones did.

**MovingAverage** is `filters/sma.c`: the update of the main thread an access at a
time, the request for another window size of two threads as a test and a store.
Its floats are the integers modulo a prime, in which the equations between
the running value and the window hold as they do for the rational numbers.

**FrequencyTracker** is `frequency_tracker.c`: the check of the auxiliary thread
with its callback, and the command that configures the same components; both go
through them one by one.

**Leds** is the part of `leds.c` that decides which bar a strip shows: the fade
(`Fade`), the transition of the headlights, which can be turned back
(`Starts`, `Ends`), and the direction (`Faced`, `Cleared`), in the order of a frame. A
frame decides with one reading of the headlights switch (`FrameBegins`), and
`target_bar` reads it anew for every bar it chooses (`Choose`).

**Timers** are the 32 bit ticks of `time.h`, for the theorems that say when the
saturating ages of the other modules are the same as the difference of two ticks.

**MCParts** checks the ten machines that share nothing as one
specification: a behaviour is one of the machine its initial state names.

### What is one step

Where threads meet, a step is one access of one of them to what they share. The
steps that are longer, and why:

- A handler of `BoardState`: an iteration, a command, a configuration write. It asks what
  the handlers do in every order; what they do in the middle of each other is asked by
  `BoardRaces`.
- Each half of a read or a write of the EEPROM image, and a tune, in `BoardRaces`. They go word by
  word, but the properties are about one word, the lock, and about whether a tune was applied.
- The IMU callback of `BoardRaces`: reads the mode and the offset, writes the pitch. A mode or an
  offset that changes between gives a pitch in one of the two frames, as the call before or the next
  one does.
- An iteration of `Konami` (`Recognize`). What it shares is the headlights switch, which it reads before
  each recognizer; an app switch between the two reads is not modelled.
- A function of `Beeper`, with its callers in the main loop and in the commands in any order. An alert of a
  command in the middle of `beeper_update`'s decrement, which would lose one of the two, is not modelled.
- The part of a frame of `Leds` that decides with the one reading of the switch. Whether the LEDs are on it reads
  before (`leds.c:961`), and `Switch` leaves any combination of the two; the rest is the auxiliary thread's own, or
  the copy of the run state it made. Each later reading of the switch is a step.
- The decimation counter of `DataRecorder` (`Count`): it tells only which call of the callback is the next
  sample, and a reset that is lost moves the first one by less than a period.
- Head and tail in the header of `DataRecorder` (`ReadIndices`). The recording is off, so that at
  most one push is being finished, and this moves the tail before the head: what one reads of
  head and then of tail was, or will be, there at one moment.
- The increment of an index in `AlertTracker`: its intermediate value, one past the end, reads as the
  wrapped one in the size and is wrapped in the slot.
- The copy of a record or a sample (`memcpy`). A torn record is one that its slot held before or after, in parts;
  the properties except the entries and samples that are read while they may be written.

## The runs

| run | asks | states |
|---|---|---|
| `board_ride` | Is a rider who steps off stopped within the configured delay, does a darkride go the wrong way for no longer than 100 ms (above 1000 ERPM) or 600 ms (above 300), is the wide tolerance of a dirty landing over after its second, does the board engage upside down only within its grace period, and does charging keep an upright board from engaging? | 66,563 |
| `board_modes` | Do modes, lock, tunes, saves, the charger and power cycles in any order leave lock and configuration consistent, and is the machine a lifecycle? | 551,806 |
| `races` | Are the two copies of the lock equal between commands, and does no command store the flywheel tune, in every interleaving but those that a variable names? | 4.6 million |
| `races_abort` | Does the abort end Flywheel mode although the start commands race with it? | 85,777 |
| `alerts` | Does the log tell what is active, hold the newest records, and list in order while it is pushed to; is every fault signalled, and does a fatal error that is not persistent end with it? | 380,572 |
| `recorder` | Do the indices stay in the buffer until a start falls between the two writes of an increment, do timestamps of a recording increase, and do the samples of a download stay and are there as many as promised, with starts, stops, rides and the sampling callback in any interleaving? | 15.4 million |
| `parts` | Is the circular buffer a bounded log and do both ways of reading it agree? Is every beep alert played to its end, and does the beeper fall silent? Is the haptic pattern that is asked for played in the end, and do tones end whatever the clicks race with? Is a reverse stop earned by a second or by the way? Does no touch of the footpad count for two sequences? Does the remote leave a board alone that was just stepped off? Are battery faults those of messages that were there during the evaluation? Does the moving average stay the mean of its window through changes of its size? Are the filters of the frequency the tracker keeps? Do the lights show the bars that their state and the last transition say, and follow the headlights switch? | 711,201 |

Runs that end in a counterexample, each for one sentence of the repository:

| run | the sentence | what happens |
|---|---|---|
| `mode_change_while_running` | `main.c:1826` "Ensure PID won't run with the wrong pitch by stopping before mode change" | a start with a new capture, refused for lack of pitch, sets NORMAL while running |
| `temp_tune_stored` | `main.c:1424` "avoid accidentally writing temporary changes" | COMMAND_CFG_SAVE in a special mode stores its tune |
| `race_lock` | `settings.xml:4020` "Riding won't be possible with this set to true" | the board engages after the lock's test and rides on; `set_cfg` has the same window after `main.c:2629` |
| `footpad_beep` | `settings.xml:400` "beeps for as long as the sensor remains off" | after one pushback `duty_beeping` is never reset, so the setpoint of every later iteration of the ride takes the warning back (`main.c:669`) |
| `recorder_autostop` | `DATA_RECORD.md:38` "Autostop will automatically stop recording when disengaged" | the command that ends Flywheel mode ends the ride without the trigger |

`race_lock` needs an engage within a few instructions of a command: rare, not
impossible.

Disagreements met while modelling that no run is spent on: the capture of the
flywheel offsets may use a pitch in another frame than the test before it
(`main.c:1834`); an `alert_tracker_clear_fatal` between the read and the write of
finalize is lost; a recording that is restarted while a sample is written
may hold two equal timestamps (why `TimesIncrease` asks for `clean`); a beeper
that is disabled during a beep leaves the pin on (why `Silence` asks that it is
enabled); the default decimation is computed, where a comment says 1; of the command
that starts Flywheel mode `main.c:1821` says "Allow Abort via footpad (1 = do allow, 0 = don't
allow)" of `cfg[5]`, which the code never reads, so that the footpad ends the mode for 0
as well (`AbortEndsFlywheel` is about what the code does, for either value).

What a reader may expect and the code does not say: upside down at 300 ERPM or less, a board
may go the wrong way without end (`main.c:341` refreshes the timer), and `DarkrideReverseStop` is about
more than that.

Windows of the code that the properties except, each by a variable that records
that it was hit, because the code does leave them open:

- `late`, `flipped` (`ReverseStop`): the timer of the lean is only refreshed by a
  motion that began upright, so a motion that begins leaned back is stopped
  earlier (`reverse_stop.c:121`).
- `straddles` (`RemoteInput`): a command tests the grace period, a whole ride
  goes by, and it sets the speed (`remote.c:125`).
- `raced` (`MovingAverage`): two threads both find no window size pending, and the
  later one changes it in the middle of the update (`filters/sma.c:60`).
- `overlapped` (`FrequencyTracker`): a command between the callback and the
  assignment after it configures for the old frequency, and the tracker does not
  notice (`frequency_tracker.c:51`).
- `overlapped` (`BoardRaces`): `read_cfg` copies the stored words and deserializes them later,
  `write_cfg` serializes and stores later (`main.c:1072-1107`, `1147-1176`). When the main
  thread's `flywheel_stop` reads or has read while a command stores, lock in use and stored
  lock may differ, and stay so with no command under way.
- `crossed` (`BoardRaces`): the konami sequence tunes for Flywheel mode between a
  command's restore and its write, which stores the tune.
- `raced` (`AlertTracker`): `circular_buffer_get` computes a slot and copies it later
  (`lib/circular_buffer.c:63-72`); a push to a full log in between puts the newest record there, so
  that this one entry is out of order. The code knows (`main.c:2221`, "racey";
  `lib/circular_buffer.h:24-26`).
- `spilled` (`DataRecorder`): `increment` adds to the shared index and subtracts the length
  afterwards (`lib/circular_buffer.c:36-38`). If a start stores its 0 (line 23) between the two, the
  subtraction leaves 0 − length, outside of the buffer. `lib/circular_buffer.h:24` is only made for one thread
  that writes; a compiler that keeps the index in a register between the two does not have this
  window. What the callback does with such an index afterwards is undefined, and not modelled.
- `overtold` (`DataRecorder`): `circular_buffer_size` compares the indices and reads the flag
  afterwards (`lib/circular_buffer.c:46`). If the first sample of a recording is being written, it may return a
  full buffer; the header is sent while a sample may still be written, and only the comment
  at `data_recorder.c:267` says that this is over for the data. A start during a running
  recording or sample is excepted by `clean`, one during a download ends the promise.
- `Hasty` (`Konami`): the app switches the headlights there and back within half a second. The
  recognizer that was not fed meanwhile has kept its position and its timer has not run
  out, so the touches before count again.
- The faults of several messages (`BmsFaults`): `bms_update` reads the values one by one, and any number of pushes may
  come between (`bms.c:49-88`). It may tell of a mixture of faults, of a balance between a cell of one
  and a cell of another message, and of a connection by the age of one and the timer of
  another. `FaultsAreTold` says that each fault of one value is one of a message that was there
  during the evaluation, and that an evaluation which met no push tells of the last one.
- `torn` (`Leds`): a frame reads the switch at `leds.c:1091` for whether to change, and `target_bar` reads it
  anew for what to change to (`leds.c:749`). A command in between leaves the bars of the wrong
  headlights, until the next change.
- `stale` (`Leds`): engaging sets the direction while the bars of the
  headlights stay (`leds.c:1094`).

Left out, and not excepted by a variable: `flywheel_stop` reconfigures the frequency
tracker from the main thread (`main.c:180-189`), a third thread for `FrequencyTracker`,
whose property holds without it.

### Bounds, and why they are enough

- Ages saturate at `Cap`, one above the largest threshold each timer is compared with, so that no behaviour is cut off.
  `Sec1`, `Sec10`, `Ms100` and so on are a few iterations; `BoardRide` gives
  them different values (2, 5, 2 and delays of 2 and 1), so that two timers can
  run out in either order. The runs about modes set all delays to 0: any fault may then
  happen in any iteration, which is more than the code allows.
- `MCBoardState` has two configurations, the default and one with every
  riding feature on, and readings on both sides of every threshold
  `check_faults` compares with. `Outside` takes the flywheel commands 1, 2
  and 5: start, start with a new capture, start with a wider roll fault.
- `MaxPitch` (90) bounds the pitch in `BoardRaces`; one of the two poses is
  always within it, so the callback never stops.
- `MaxRecords` (6, three times the log of `LogSize` 2) bounds the records:
  `FirmwareFault` stops one before it, to leave room for the last end record,
  and the buffer has wrapped several times by then.
- `MaxTime` 3 bounds the clock of `DataRecorder`: three timestamps for two slots
  (`Length` 2), so that the buffer wraps. `MCSettings` is the default and each
  of the three settings changed from it, the decimation to 2; every change
  goes through the default.
- `MaxClicks` 2 bounds the clicks of `HapticFeedback`, two rides that may
  overlap in their tones; `Byte` 4 is the width of the counters, above every tone
  (`VibrateTicks` 2, `ClickTicks` 1) and just above the 3 toggles of a click, so that
  a decrement at zero wraps. `Alerts` {1, 3} are a short and a long alert, `Types`
  one pattern of each kind: continuous, two beats, more beats.
- `Length` 3 with `WordSize` 8 for the buffer: the size's unsigned difference
  wraps, every combination of head and tail is reached. The theorems are for
  all lengths.

- `ReverseStop`: an `Angle` of 3 steps, a `Slack` of 1 for the change of direction and
  `MaxBack` 3 let a board turn before, at and after the middle of the way;
  its timer is exact up to `Old` 4 seconds, above the 3 of the code, and `held`
  up to 2, above the second that is asked for.
- `Konami`: `Shortest` 1 and `Longest` 4 leave room to be too early, in time and too
  late; `Enough` 4 touches after the switch are a sequence of five whose first may be
  the last of the one before.
- `RemoteInput`: `Grace` 3 half seconds, below the 4 of the command, so that
  the shorter grace is the receiver's. The theorem is for every value.
- `BmsFaults`: a `BmsTimeout` of 1 second; a message without a fault, and one whose cells are out of balance and
  too low and which is too hot, with ages on both sides of the timeout. Pushes follow each other
  in any number during an evaluation; the theorem is for every set of messages.
- `MovingAverage`: `Allocated` 3 sizes, targets 0 and 1, `Prime` 5, above
  every size; two configurers, the threads that there are.
- `FrequencyTracker`: frequencies 1 to 4 with a `Tolerance` of 2, and two components, so that
  a change can be found and a reconfiguration can be half done.
- `Leds` has no bound; a split is at one of its ends or between them.

`CHECK_DEADLOCK` is on in every run.

### Fairness

`BoardRaces` assumes that the main thread goes on iterating
and that the IMU's startup ends (`FairSpec`): the loop in `refloat_thd` only
ends when the package stops. A command that began is finished and the IMU callback
is called again. `BoardState` is checked for safety alone. No command, no reading of a sensor and no fault is
fair. `AlertTracker` and
`Beeper` assume the same of the main thread alone (`Plays`: time passes, so
that a half beep expires). `HapticFeedback` assumes that the main thread and the IMU
callback finish what they do, and, as strong fairness (`Passes`), that the beat
passes infinitely often: iterations in between that find the same
beat disable it for a while, but cannot keep it from passing. An iteration that changes
nothing would satisfy no fairness condition, and weak fairness would then force changes
nobody makes; `odd` and `even` flip with each iteration for this reason only.
`Leds` assumes that the auxiliary thread goes on drawing frames (its loop ends only
with the package); its `even` flips for the same reason. The other parts of `MCParts`
are checked for safety alone.

The fair specifications are used by `races_abort`, `alerts` and `parts`, where liveness is checked; the other runs check `Spec`.

## The proofs

Each theorem is for every value of the constants that satisfies the named
assumptions of its module and the hypotheses in its statement. Every safety
property the runs check is stated by one of them; "theorems" in `PROJECT.json` lists
them with what each establishes.

**CircularBufferProofs**, for every length and item set, and every word size
that holds two lengths: `SlotsInBounds` (`Spec => []TypeOK`: no access outside of the
buffer), `Implementation` (`Spec => ImplementsLog`) and `IteratingIsReading` (the two
ways to read the buffer, by index and by iterating, agree). The inductive
invariant is `TypeOK` and "an empty buffer has its head at its tail";
without the second part a push to a cleared buffer could not be shown to begin a
new log. Under it, `Size` and `Contents` of the next state are computed
for each of push and clear from those of this state (the lemmas on `Size`
first, because the contents are a function on `1 .. Size`), and each is the
step of `BoundedLog` of the same name.

**DataRecorderProofs**, for every length, setting and bound of the clock. The recorder
shares its buffer between three threads without a lock, and a start may reset head and
tail between any two accesses of a push.

- `SlotsInBounds` (`Spec => []TypeOK`). `AtInv` says which accesses each thread may be at, `WrapInv` that
  an index which is about to be wrapped is one past the end, unless a start set it to 0
  meanwhile (`spilled`): an index leaves the buffer there and nowhere else.
- `TimestampsIncrease` (`TimesIncrease`). A clean start keeps the others out until the buffer is cleared;
  from then on the stored timestamps are sorted, and all of them are below the one
  that is being stored (`Order`). A push is followed through the states in which the
  tail has left the oldest sample and the head has not reached the newest, and an index
  one past the end is taken as the slot it will be (`Hd`, `Tl`, and `Stored`, the number of
  samples between them). `Places` is the arithmetic of the ring.
- `DownloadIsStable` (`DownloadStable`). The header may be sent in the middle of a push, so
  it cannot promise the size of the buffer: the invariant says it promises at most
  `Final`, the size once the push is over, unless it was `overtold`. `RegInv`, `Cleared` and
  `TailLeft` are about a push under which a start cleared the buffer, and each access
  leaves `Final` as it is or larger (`FinalGrows`). The data are asked for when the push is
  over, and then `Final` is the size.

**BoardProofs**, for all readings, configurations and delays that
satisfy the assumptions of `BoardState`:

- `TypeCorrect`: `Spec => []TypeOK`, an action at a time; the ages need that
  `Cap` is a natural number.
- `WheelslipOnlyWhileRiding`: the flag is down when no ride is on. It is
  inductive by itself, every action that leaves RUNNING goes through
  `StateStop` or `state_flywheel_off`.
- `LocksAgree`: `LockAgreement` under `~EepromFails`. Not inductive by itself: a
  `flywheel_stop` reads the stored configuration, so the proof needs that
  Flywheel or Handtest mode, or a temporary tune, leave the lock as it is.
- `LockIsKept`: leaving DISABLED takes a command or a configuration write, a power cycle does not do.
- `Implementation`: with an EEPROM that works, every step is a step or a
  stutter of `BoardLifecycle`, with the stored flag as the lock.
- `TempTunesAreSavedOnPurpose` (`OnlySavePersistsTempTune`), with an EEPROM that works: of all
  actions four write the EEPROM (`WhoWritesTheEeprom`); the lock stores what it has just
  read with the flag changed, a configuration write has no temporary tune.
- `WrongWayIsStopped` (`DarkrideReverseStop`), of `HistorySpec`: the counts do not read the timers, so
  the invariant (`StretchesTimed`) relates them. While the board goes the wrong way neither timer is
  refreshed by what shares it, so that the count of the fast stretch is at most the age of
  the switch timer; the slow stretch is at most the age of the roll timer, or that
  is past its 500 ms and the board has been fast since, which the first count bounds.
- `RiderOffIsStopped` (`DeadMan`), by way of `FootpadBound`, for a ride during which
  nobody writes another configuration (`Commands` without SET_CFG, CFG_RESTORE and
  TUNE_OTHER): a delay that is shortened would make the timer look too old, up
  to the next iteration. `OutsideKeepsDelay` says that every other command leaves the
  delay alone.
- `DirtyLandingEnds` (`DirtyLandingWindow`), by way of `ToleranceKept`: a tolerance wider than
  the configured one is the one a full switch fault granted, and its second is not over. It assumes
  what the code does: the tolerances of users are not narrower than the 0.2° of Flywheel
  mode, whose abort would otherwise leave a wider one behind, and nothing replaces the configuration
  in between, which would leave the tolerance that was computed from the old one: `TuneKeepers`
  are the writes, restores and tunes, and the lock, which reads the stored configuration back.
- `ChargingBoardStays` (`ChargingBlocksEngage`) and `DarkrideEngagesInTime`
  (`DarkrideEngage`), from the conditions to engage. The second one assumes of the readings
  that a board on its end, where the konami of Flywheel mode is entered, is not
  level for the balance filter.

**BoardRacesProofs**, for every set of commands and every interleaving of
single accesses: `LockIsStored` (`LockStored`, unless `overlapped`) and `TuneIsNotStored`
(`TempTuneNotStored`, unless `crossed`). An invariant over the sequence of accesses a thread has left is
needed: `Stores` (every assignment to the lock is followed by a write to the
EEPROM) and `Fetches` (every such write comes after a read or a received
configuration), which the suffix of a sequence inherits (`StoresStays`), and which every
replacement of an access by others keeps. `BufferInv` is what a copy holds between its two halves,
and with it `LockInv` and `TuneInv` are inductive. One lemma is about one access of
any thread, the rest about the main thread, the commands and the calls.

**AlertTrackerProofs**, for every set of fault codes, size of the log and number of
records: `ActiveIsTold` (`LogTellsActive`), `NewestAreKept` (`LogIsRecent`) and
`ListingsAreInOrder` (`ListInOrder`, of the entries that are not `raced`). The main thread is followed by its next access
(`Stage`) and its last one (`Goal`): `TodoOK` lists the rests of an iteration, and
`Stages` says what each access leaves. `IndexInv` ties head and tail to the serials of the
records in the slots and allows for the access between tail and head; `ClaimInv` is what the log
owes to the masks at each stage. A listing walks the buffer while records are
written: its n-th entry is at most n records past the oldest when it was copied, and the tail only moves
on (`TailMovesOn`), so that the next one is newer. For the copy this needs the slot that was computed to be that of the
entry still (`GetIsInPlace`), which a push to the full log breaks: `raced`.

**ThreadProofs**, the parts of `MCParts` in which two threads meet:

- `GraceIsHonoured` (`MoveHonoursGrace`), for every grace period. Inductive with what a
  ride leaves behind (`RideInv`: no speed, no move that idles), what holds of a
  move between rides (`RestInv`), and of a command that passed its test (`StraddleInv`).
- `StaysInBounds` (`WindowInBounds`), for every allocated size and any number of threads
  that configure, also when they race.
- `MeanIsOfTheWindow` (`ValueIsMean`). The value is never computed anew, so that it is the mean by
  the history of all updates. `MeanInv` says what value and window are to each other
  between the steps of a change of size; under it are the laws of a sum (`SumIs`, `SumSplits`,
  `SumOfEqual`, ...), and under these the arithmetic of remainders (`SameIsCongruence`). The hypothesis
  `DivisionHypothesis` is that floats can be divided by the sizes of the window, as
  numbers can: it holds when `Prime` is a prime above `Allocated`, as in the run.
- `FiltersAreTuned` (`FrequencyApplied`), for all frequencies, tolerances and numbers of
  components. Its invariant says how far a thread has got (`Progress`) and that
  without an overlap only one is on its way (`AloneInv`).
- `FaultsAreOfTheBattery` (`FaultsAreTold`), with pushes before, in and after an evaluation: every stored value is of
  the last message or of the one that is pushed, according to how far the push has got, and
  both are among those `seen`; a fault that was found is one of these. While the evaluation is
  `quiet`, what it has read so far is what the last message says.
- `PartsKeepTheirSpecs`: a behaviour of the composition that the run checks is one of each of
  these parts, so that the theorems about a part hold of it.

**RideProofs**, the parts of `MCParts` that follow the ride:

- `StopsAreEarned` (`StopIsEarned`), for every angle and slack that are not zero. The way to go
  is only there while the board leans back (`WaitingInv`), a way back up starts the timer anew (`BackInv`), and on the way
  down the setpoint is where the progress has it at most and the timer no older than the lean (`LeanInv`).
- `SequencesTakeTouches` (`SequencesApart`), if four touches take longer than a
  recognizer waits for one (`KonamiTimes`, 0.6 s against 0.5 s in `main.c`): the recognizer that
  is not fed stays where it was (`FrozenInv`), and it is too late for its next touch before
  the other one is through (`RaceInv`). With other times the property would be wrong, and so it is after
  two switches of the app within half a second (`Hasty`).
- `BarsAreRight` (`BarsMatch`) and `ChangesArrive` (`ChangesEndWhereTheyWent`): without a transition the bars are those of headlights and
  direction (`BarsInv`), a transition goes to those of the headlights switched over (`TargetInv`), and
  the direction is that of the split as long as the headlights depend on it (`DirectionInv`). The bars are chosen one
  by one, and what is said of them in the middle of a frame is about those already chosen, unless the
  switch was read differently (`torn`).
- `RidePartsKeepTheirSpecs`, as above.

**Timers**, for every width of the word: `OlderIsOlder` (a timer that is refreshed within
one word of ticks, 2^32, is older than a time exactly when its age is, also across a wrap of the
clock), `WrappedIsFresh` (beyond that it looks fresh) and `ExpiredIsOld` (what
`timer_expire` leaves is as old as it says, also right after the start).

An induction over data is put as one over a set of numbers: a set that holds 0
and with each number the next one holds them all (`Induction`), by the least
number outside of it.

Assumptions: the named `ASSUME`s of the modules, which TLC evaluates on every
run; `~EepromFails` where it says so, since a failed write does leave the stored lock
behind the one in use; and the hypotheses of a theorem, which are part of its statement.

Only model-checked are the liveness properties: `AlertsEnd`, `Silence`, `WantedIsPlayed`,
`FeedbackEnds`, `HeadlightsFollow`, `FatalEnds`, `FatalRaised` and `AbortEndsFlywheel`. Liveness
under fairness, and ENABLED, are out of reach of the prover.

## Not modelled, and why

- Floating point control (setpoints, tilts, PID, the balance filter, the filters of the
  motor data): no discrete state, and TLC has no reals.
- The drawing of the LEDs, the pin timing of the strips and the LCM packets: output only.
- The configuration parser (generated) and the interface (a client of the commands).
- `vesc_pkg_lib`: third-party headers and drivers, most of the lines of the
  repository, which Refloat calls and does not decide with. Of Refloat's own code about
  a third is mapped; of the whole repository, for this reason, a few percent.
- The life cycle: `stop` frees the struct that callbacks use, but whether the
  firmware lets one run meanwhile is not to be seen here.
- The EEPROM word by word: writes are one step. A power loss between two words leaves a
  mixed image behind a signature that vouches for it; what it then decodes to depends
  on the generated layout of the configuration.
- The flag of the charger and its timer as two accesses (`charging.c:53`): a flag that the
  main thread clears in between is set again by the next request of the charger.
- The parking brake and the brake timer of `motor_control.c`: they decide on the
  measured speed which of two ways to brake, and reset at every engage.
- The current that is requested (`motor_control.c:53-63`, `121`): that a request is kept while the board is disabled
  is one test and one assignment, which a model would only repeat.
- The choice of the haptic pattern (`haptic_feedback_get_type`): any pattern may be called for in
  any iteration, which is more than the code does.
- The thresholds of the footpad: the state of the pad is an input.

## What is left

In this order: `ReverseStop` composed with `BoardState` instead of its
decision as an input; saves, restores and tunes access by access in `BoardRaces`;
the parking brake.
