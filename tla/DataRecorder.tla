---------------------------- MODULE DataRecorder ----------------------------
(***************************************************************************)
(* The data recorder (data_recorder.c): the IMU callback samples into a    *)
(* circular buffer, the main thread starts and stops the recording with    *)
(* the ride, the command thread controls and downloads it, and nothing is  *)
(* locked.  A step is one access, or a run of accesses no other thread     *)
(* tells apart; "at" is the access a thread makes next.  The decimation    *)
(* counter, which only tells which sample is the next, counts in one step. *)
(*                                                                         *)
(* The index that is incremented is read and written as the C text has it: *)
(* once to add one and, when it reached the end, once more to subtract the *)
(* length.  If a start stores its 0 in between ("spilled"), the result is  *)
(* huge (below 0 here) and the callback writes outside of the buffer; what *)
(* comes of that is not modelled, it makes no access after the index.      *)
(*                                                                         *)
(* A sample is its timestamp, NoSample a slot that was never written.  The *)
(* firmware has the recording buffer (enabled is TRUE): without it every   *)
(* function returns at once.                                               *)
(***************************************************************************)
EXTENDS Integers

CONSTANTS Length,       \* sample_count
          InitialDecimation,  \* what data_recorder_init computes
          Settings,     \* bound on <<autostart, autostop, decimation>>
          MaxTime       \* bound on the timestamps

ASSUME RecorderAssumption ==
  /\ Length \in Nat \ {0} /\ MaxTime \in Nat
  /\ InitialDecimation \in 0 .. 255
  /\ Settings \subseteq BOOLEAN \X BOOLEAN \X (1 .. 255)

NoSample == 0

VARIABLES
  recording, autostart, autostop, decimation, decimation_counter, last_time,
  head, tail, empty, buffer,  \* the circular buffer
  clock,      \* the system tick
  at,         \* the next access of each thread, "rest" between operations
  time,       \* the timestamp of the sample the IMU callback handles
  reg,        \* the incremented index it has not stored yet
  spilled,    \* an index was set to 0 when it was about to be wrapped
  ride,       \* the ride that is on: "none", "normal" or "flywheel"
  clean,      \* the recording was started while nothing was recorded
  promised,   \* the samples of the header that was sent; -1: there was none
              \* since a recording was started
  overtold,   \* it told a full buffer, the first sample being written
  fetching    \* data was requested since

control == <<autostart, autostop, decimation>>
ring == <<head, tail, empty, buffer>>
imu == <<time, reg, spilled>>
download == <<promised, overtold, fetching>>
vars == <<recording, control, decimation_counter, last_time, ring, clock,
          at, imu, ride, clean, download>>

Threads == {"imu", "main", "cmd"}
Slots == 0 .. Length - 1

Ring == INSTANCE CircularBuffer
          WITH Items <- Nat, WordSize <- 2 * Length + 1

\* data_recorder_init
Init ==
  /\ recording = FALSE /\ autostart = TRUE /\ autostop = TRUE
  /\ decimation = InitialDecimation /\ decimation_counter = 0 /\ last_time = 0
  /\ head = 0 /\ tail = 0 /\ empty = TRUE
  /\ buffer = [slot \in Slots |-> NoSample]
  /\ clock = 1
  /\ at = [t \in Threads |-> "rest"]
  /\ time = NoSample /\ reg = 0 /\ spilled = FALSE
  /\ ride = "none" /\ clean = TRUE
  /\ promised = -1 /\ overtold = FALSE /\ fetching = FALSE

Idle(t) == at[t] = "rest"
Goes(t, from, to) == at[t] = from /\ at' = [at EXCEPT ![t] = to]

Tick ==
  /\ clock < MaxTime
  /\ clock' = clock + 1
  /\ UNCHANGED <<recording, control, decimation_counter, last_time, ring,
                 at, imu, ride, clean, download>>

-----------------------------------------------------------------------------
(* start_recording, of the main and the command thread.                    *)

\* The access that follows each one; the first follows "rest".
start_recording_FlagFirst ==
  [rest |-> "record", record |-> "head_0", head_0 |-> "tail_0",
   tail_0 |-> "empty", empty |-> "reset", reset |-> "rest"]
start_recording ==
  [rest |-> "head_0", head_0 |-> "tail_0", tail_0 |-> "empty",
   empty |-> "reset", reset |-> "record", record |-> "rest"]

StartAccesses == {"head_0", "tail_0", "empty", "reset", "record"}
Starting == \E t \in {"main", "cmd"} : at[t] \in StartAccesses

Starts(t) ==
  /\ Goes(t, "rest", start_recording["rest"])
  /\ clean' = (~recording /\ ~Starting /\ Idle("imu"))
  /\ promised' = -1 /\ overtold' = FALSE /\ fetching' = FALSE

StartAccess(access) ==
  /\ head' = IF access = "head_0" THEN 0 ELSE head
  /\ tail' = IF access = "tail_0" THEN 0 ELSE tail
  /\ empty' = IF access = "empty" THEN TRUE ELSE empty
  /\ IF access = "reset" THEN decimation_counter' = 0 /\ last_time' = 0
     ELSE UNCHANGED <<decimation_counter, last_time>>
  /\ recording' = IF access = "record" THEN TRUE ELSE recording
  /\ spilled' = IF <<access, at["imu"]>> \in
                     {<<"head_0", "wrap_head">>, <<"tail_0", "wrap_tail">>}
                THEN TRUE ELSE spilled

StartRecording(t) ==
  /\ at[t] \in StartAccesses
  /\ Goes(t, at[t], start_recording[at[t]])
  /\ StartAccess(at[t])
  /\ UNCHANGED <<control, buffer, clock, time, reg, ride, clean, download>>

-----------------------------------------------------------------------------
(* data_recorder_sample, of the IMU callback.                              *)

ImuGoes(from, to) == ~spilled /\ Goes("imu", from, to)

Sample ==
  /\ ImuGoes("rest", "count")
  /\ recording
  /\ last_time < MaxTime
  /\ time' = clock
  /\ UNCHANGED <<recording, control, decimation_counter, last_time, ring,
                 clock, reg, spilled, ride, clean, download>>

\* ++decimation_counter < decimation, the counter being a byte.
Count ==
  /\ LET count == (decimation_counter + 1) % 256
     IN \/ /\ count < decimation
           /\ ImuGoes("count", "rest") /\ decimation_counter' = count
        \/ /\ count >= decimation
           /\ ImuGoes("count", "stamp") /\ decimation_counter' = 0
  /\ UNCHANGED <<recording, control, last_time, ring, clock, imu, ride, clean,
                 download>>

Later(now, last) == IF now <= last THEN last + 1 ELSE now

Stamp ==
  /\ ImuGoes("stamp", "keep_time")
  /\ time' = Later(time, last_time)
  /\ UNCHANGED <<recording, control, decimation_counter, last_time, ring,
                 clock, reg, spilled, ride, clean, download>>

KeepTime ==
  /\ ImuGoes("keep_time", "push")
  /\ last_time' = time
  /\ UNCHANGED <<recording, control, decimation_counter, ring, clock, imu,
                 ride, clean, download>>

\* circular_buffer_push: a full buffer loses its oldest sample.
PushStart ==
  /\ ImuGoes("push", IF ~empty /\ head = tail THEN "load_tail" ELSE "copy")
  /\ UNCHANGED <<ring, reg, spilled>>

\* increment, of the tail and of the head.
Load ==
  /\ \/ ImuGoes("load_tail", "store_tail") /\ reg' = tail + 1
     \/ ImuGoes("load_head", "store_head") /\ reg' = head + 1
  /\ UNCHANGED <<ring, spilled>>

Store ==
  /\ \/ ImuGoes("store_tail", "test_tail") /\ tail' = reg /\ head' = head
     \/ ImuGoes("store_head", "test_head") /\ head' = reg /\ tail' = tail
  /\ reg' = 0
  /\ UNCHANGED <<empty, buffer, spilled>>

PastTheEnd_OffByOne(i) == i > Length
PastTheEnd(i) == i >= Length
Test ==
  /\ \/ ImuGoes("test_tail", IF PastTheEnd(tail) THEN "wrap_tail" ELSE "copy")
     \/ ImuGoes("test_head",
                IF PastTheEnd(head) THEN "wrap_head" ELSE "not_empty")
  /\ UNCHANGED <<ring, reg, spilled>>

Wrap ==
  /\ \/ /\ Goes("imu", "wrap_tail", "copy")
        /\ tail' = tail - Length /\ head' = head
     \/ /\ Goes("imu", "wrap_head", "not_empty")
        /\ head' = head - Length /\ tail' = tail
  /\ UNCHANGED <<empty, buffer, reg, spilled>>

Copy ==
  /\ ImuGoes("copy", "load_head")
  /\ buffer' = [buffer EXCEPT ![head] = time]
  /\ UNCHANGED <<head, tail, empty, reg, spilled>>

PushEnd ==
  /\ ImuGoes("not_empty", "rest")
  /\ empty' = FALSE
  /\ UNCHANGED <<head, tail, buffer, reg, spilled>>

Push ==
  /\ PushStart \/ Load \/ Store \/ Test \/ Wrap \/ Copy \/ PushEnd
  /\ time' = IF at["imu"] = "not_empty" THEN NoSample ELSE time
  /\ UNCHANGED <<recording, control, decimation_counter, last_time, clock,
                 ride, clean, download>>

Imu == Sample \/ Count \/ Stamp \/ KeepTime \/ Push

-----------------------------------------------------------------------------
(* The main thread and the ride: data_recorder_trigger.                    *)

Engage ==
  /\ Idle("main") /\ ride = "none"
  /\ ride' \in {"normal", "flywheel"}
  /\ IF autostart THEN Starts("main") ELSE UNCHANGED <<at, clean, download>>
  /\ UNCHANGED <<recording, control, decimation_counter, last_time, ring,
                 clock, imu>>

Trigger == recording' = (recording /\ ~autostop)

\* A fault of check_faults.
Fault ==
  /\ Idle("main") /\ ride # "none"
  /\ ride' = "none"
  /\ Trigger
  /\ UNCHANGED <<control, decimation_counter, last_time, ring, clock, at,
                 imu, clean, download>>

\* cmd_flywheel_toggle: state_flywheel_off ends the ride.
FlywheelOff ==
  /\ Idle("cmd") /\ ride = "flywheel"
  /\ ride' = "none"
  /\ UNCHANGED <<recording, control, decimation_counter, last_time, ring,
                 clock, at, imu, clean, download>>

-----------------------------------------------------------------------------
(* The command thread: data_recorder_request.                              *)

StartCommand ==
  /\ Idle("cmd")
  /\ Starts("cmd")
  /\ UNCHANGED <<recording, control, decimation_counter, last_time, ring,
                 clock, imu, ride>>

StopCommand ==
  /\ Idle("cmd")
  /\ recording' = FALSE
  /\ UNCHANGED <<control, decimation_counter, last_time, ring, clock, at,
                 imu, ride, clean, download>>

\* sub_mode 2 to 4; a decimation of 0 is taken for 1.
SetControl ==
  /\ Idle("cmd")
  /\ \/ autostart' \in BOOLEAN /\ UNCHANGED <<autostop, decimation>>
     \/ autostop' \in BOOLEAN /\ UNCHANGED <<autostart, decimation>>
     \/ decimation' \in {s[3] : s \in Settings} /\ UNCHANGED <<autostart, autostop>>
  /\ control' \in Settings
  /\ UNCHANGED <<recording, decimation_counter, last_time, ring, clock, at,
                 imu, ride, clean, download>>

Header_KeepsOn == UNCHANGED recording
Header == recording' = FALSE

\* The header pauses the recording and tells its size: circular_buffer_size
\* reads the indices and then, if they are equal, the flag.  The recording is
\* off and a push moves the tail before the head, so the head and the tail that
\* are read one after the other are those of one moment.
SendHeader ==
  /\ Goes("cmd", "rest", "indices")
  /\ Header
  /\ promised' = IF Idle("main") THEN 0 ELSE -1
  /\ overtold' = FALSE /\ fetching' = FALSE
  /\ UNCHANGED <<control, decimation_counter, last_time, ring, clock, imu,
                 ride, clean>>

Promises(size) == promised' = IF promised < 0 THEN -1 ELSE size

ReadIndices ==
  /\ \/ /\ head # tail
        /\ Goes("cmd", "indices", "rest") /\ Promises(Ring!Size)
     \/ /\ head = tail
        /\ Goes("cmd", "indices", IF empty THEN "was_empty" ELSE "was_full")
        /\ UNCHANGED promised
  /\ UNCHANGED <<recording, control, decimation_counter, last_time, ring,
                 clock, imu, ride, clean, overtold, fetching>>

ReadEmpty ==
  /\ \/ Goes("cmd", "was_empty", "rest") /\ overtold' = ~empty
     \/ Goes("cmd", "was_full", "rest") /\ overtold' = FALSE
  /\ Promises(IF empty THEN 0 ELSE Length)
  /\ UNCHANGED <<recording, control, decimation_counter, last_time, ring,
                 clock, imu, ride, clean, fetching>>

\* The samples are sent by index.  The first request comes when a sample that
\* was being written is done, as the comment in data_recorder_request assumes.
SendData ==
  /\ Idle("cmd") /\ promised > 0
  /\ ~fetching => Idle("imu")
  /\ fetching' = TRUE
  /\ UNCHANGED <<recording, control, decimation_counter, last_time, ring,
                 clock, at, imu, ride, clean, promised, overtold>>

Next ==
  \/ Tick \/ Imu \/ Engage \/ Fault \/ FlywheelOff
  \/ \E t \in {"main", "cmd"} : StartRecording(t)
  \/ StartCommand \/ StopCommand \/ SetControl
  \/ SendHeader \/ ReadIndices \/ ReadEmpty \/ SendData
Spec == Init /\ [][Next]_vars

-----------------------------------------------------------------------------
(* No access outside of the buffer, however the clear of a start and the   *)
(* push of a sample are interleaved, until a start stores its 0 between    *)
(* the two writes of an increment: an index is past the end only there.    *)
TypeOK ==
  /\ ~spilled =>
       /\ head \in Slots \/ (head = Length /\ at["imu"] \in {"test_head", "wrap_head"})
       /\ tail \in Slots \/ (tail = Length /\ at["imu"] \in {"test_tail", "wrap_tail"})
  /\ {head, tail} \subseteq -Length .. Length /\ reg \in 0 .. Length
  /\ buffer \in [Slots -> Nat]
  /\ {recording, autostart, autostop, empty, spilled} \subseteq BOOLEAN
  /\ {decimation, decimation_counter} \subseteq 0 .. 255
  /\ {clock, time, last_time} \subseteq Nat

Increasing(times) == \A i, j \in DOMAIN times : i < j => times[i] < times[j]

(* The timestamps of a recording strictly increase, also of samples that   *)
(* share a tick, if it was not started while another one was on.           *)
TimesIncrease == clean /\ ~Starting => Increasing(Ring!Contents)

(* While the data are fetched the samples stay where they are, and as many *)
(* as the header promised are there, unless a recording is started         *)
(* meanwhile (DATA_RECORD.md: "there is no safeguard") or the header was   *)
(* sent while the first sample was written: circular_buffer_size that read *)
(* equal indices before it and the flag after it returns a full buffer.    *)
DownloadStable ==
  [][fetching /\ fetching' =>
       Ring!Contents' = Ring!Contents /\ (overtold \/ promised <= Ring!Size)]_vars

(* DATA_RECORD.md: "Autostop will automatically stop recording when        *)
(* disengaged."                                                            *)
AutostopStops ==
  [][ride # "none" /\ ride' = "none" /\ autostop => ~recording']_vars
=============================================================================
