------------------------- MODULE DataRecorderProofs -------------------------
(***************************************************************************)
(* The data recorder for every size of the buffer, every setting and every *)
(* interleaving of the three threads: it never leaves its buffer but by a  *)
(* start between the two writes of an increment, the timestamps of a       *)
(* recording that was started cleanly increase, and what is downloaded     *)
(* stays what the header told.                                             *)
(***************************************************************************)
EXTENDS DataRecorder, TLAPS

Starters == {"main", "cmd"}
HeaderReads == {"indices", "was_empty", "was_full"}
ImuAccesses ==
  {"count", "stamp", "keep_time", "push", "load_tail", "store_tail", "test_tail",
   "wrap_tail", "copy", "load_head", "store_head", "test_head", "wrap_head",
   "not_empty"}
Accesses == {"rest"} \cup StartAccesses \cup HeaderReads \cup ImuAccesses

(* Where the threads are.  An index that is to be wrapped is one past the  *)
(* end, unless a start set it to 0; then the callback does not come to     *)
(* its end.                                                                *)
AtInv ==
  /\ at \in [Threads -> Accesses]
  /\ at["imu"] \in {"rest"} \cup ImuAccesses
  /\ at["main"] \in {"rest"} \cup StartAccesses
  /\ at["cmd"] \in {"rest"} \cup StartAccesses \cup HeaderReads
WrapInv ==
  /\ ~spilled /\ at["imu"] = "wrap_tail" => tail = Length
  /\ ~spilled /\ at["imu"] = "wrap_head" => head = Length
  /\ spilled => at["imu"] \in {"wrap_tail", "wrap_head", "copy", "not_empty"}
  /\ spilled /\ at["imu"] = "wrap_tail" => tail = 0
  /\ spilled /\ at["imu"] = "wrap_head" => head = 0
TypeInv == TypeOK /\ AtInv /\ WrapInv

(* A thread goes from one access to another, the others stay.              *)
LEMMA Walks ==
  ASSUME AtInv, NEW t \in Threads, NEW from, NEW to, Goes(t, from, to)
  PROVE  /\ at[t] = from /\ at'[t] = to
         /\ \A u \in Threads \ {t} : at'[u] = at[u]
         /\ to \in Accesses => at' \in [Threads -> Accesses]
BY DEF AtInv, Goes

(* Each step of the IMU callback by the access it makes.                   *)
LEMMA ImuAccess ==
  ASSUME AtInv, Imu
  PROVE  /\ AtInv'
         /\ \A u \in Starters : at'[u] = at[u]
         /\ UNCHANGED <<control, ride, clean, download, clock, recording, spilled>>
         /\ at["imu"] \notin {"wrap_tail", "wrap_head"} => ~spilled
         /\ \/ Sample /\ at["imu"] = "rest" /\ at'["imu"] = "count"
            \/ Count /\ at["imu"] = "count" /\ at'["imu"] \in {"rest", "stamp"}
            \/ Stamp /\ at["imu"] = "stamp" /\ at'["imu"] = "keep_time"
            \/ KeepTime /\ at["imu"] = "keep_time" /\ at'["imu"] = "push"
            \/ /\ Push /\ at["imu"] = "push" /\ UNCHANGED <<ring, reg, time>>
               /\ at'["imu"] = IF ~empty /\ head = tail THEN "load_tail" ELSE "copy"
            \/ /\ Push /\ at["imu"] = "load_tail" /\ at'["imu"] = "store_tail"
               /\ reg' = tail + 1 /\ UNCHANGED <<ring, time>>
            \/ /\ Push /\ at["imu"] = "store_tail" /\ at'["imu"] = "test_tail"
               /\ tail' = reg /\ reg' = 0 /\ UNCHANGED <<head, empty, buffer, time>>
            \/ /\ Push /\ at["imu"] = "test_tail" /\ UNCHANGED <<ring, reg, time>>
               /\ at'["imu"] = IF tail >= Length THEN "wrap_tail" ELSE "copy"
            \/ /\ Push /\ at["imu"] = "wrap_tail" /\ at'["imu"] = "copy"
               /\ tail' = tail - Length /\ UNCHANGED <<head, empty, buffer, reg, time>>
            \/ /\ Push /\ at["imu"] = "copy" /\ at'["imu"] = "load_head"
               /\ buffer' = [buffer EXCEPT ![head] = time]
               /\ UNCHANGED <<head, tail, empty, reg, time>>
            \/ /\ Push /\ at["imu"] = "load_head" /\ at'["imu"] = "store_head"
               /\ reg' = head + 1 /\ UNCHANGED <<ring, time>>
            \/ /\ Push /\ at["imu"] = "store_head" /\ at'["imu"] = "test_head"
               /\ head' = reg /\ reg' = 0 /\ UNCHANGED <<tail, empty, buffer, time>>
            \/ /\ Push /\ at["imu"] = "test_head" /\ UNCHANGED <<ring, reg, time>>
               /\ at'["imu"] = IF head >= Length THEN "wrap_head" ELSE "not_empty"
            \/ /\ Push /\ at["imu"] = "wrap_head" /\ at'["imu"] = "not_empty"
               /\ head' = head - Length /\ UNCHANGED <<tail, empty, buffer, reg, time>>
            \/ /\ Push /\ at["imu"] = "not_empty" /\ at'["imu"] = "rest"
               /\ empty' = FALSE /\ UNCHANGED <<head, tail, buffer, reg>>
<1> USE DEF ImuGoes, PastTheEnd
<1>1. ASSUME NEW from, NEW to \in {"rest"} \cup ImuAccesses, Goes("imu", from, to)
      PROVE  /\ AtInv' /\ at["imu"] = from /\ at'["imu"] = to
             /\ \A u \in Starters : at'[u] = at[u]
  <2>1. /\ at["imu"] = from /\ at'["imu"] = to
        /\ \A u \in Threads \ {"imu"} : at'[u] = at[u]
        /\ to \in Accesses => at' \in [Threads -> Accesses]
    BY <1>1, Walks DEF Threads
  <2> QED
    BY <2>1 DEF AtInv, Accesses, Starters, Threads
<1>2. CASE Sample
  BY <1>1, <1>2 DEF Sample, ImuAccesses
<1>3. CASE Count
  <2>1. CASE Goes("imu", "count", "rest")
    BY <1>1, <1>3, <2>1 DEF Count, ImuAccesses, imu
  <2>2. CASE Goes("imu", "count", "stamp")
    BY <1>1, <1>3, <2>2 DEF Count, ImuAccesses, imu
  <2> QED
    BY <1>3, <2>1, <2>2 DEF Count
<1>4. CASE Stamp
  BY <1>1, <1>4 DEF Stamp, ImuAccesses
<1>5. CASE KeepTime
  BY <1>1, <1>5 DEF KeepTime, ImuAccesses, imu
<1>6. CASE Push
  <2>1. UNCHANGED <<control, ride, clean, download, clock, recording>>
    BY <1>6 DEF Push
  <2>2. at["imu"] # "not_empty" => time' = time
    BY <1>6 DEF Push
  <2>3. CASE PushStart
    <3>1. Goes("imu", "push", "load_tail") \/ Goes("imu", "push", "copy")
      BY <2>3 DEF PushStart
    <3>2. AtInv' /\ at["imu"] = "push" /\ \A u \in Starters : at'[u] = at[u]
      BY <1>1, <3>1 DEF ImuAccesses
    <3>3. at'["imu"] = IF ~empty /\ head = tail THEN "load_tail" ELSE "copy"
      BY <1>1, <2>3 DEF PushStart, ImuAccesses
    <3> QED
      BY <1>6, <2>1, <2>2, <2>3, <3>2, <3>3 DEF PushStart
  <2>4. CASE Load
    <3>1. CASE Goes("imu", "load_tail", "store_tail")
      <4>1. AtInv' /\ at["imu"] = "load_tail" /\ at'["imu"] = "store_tail" /\ \A u \in Starters : at'[u] = at[u]
        BY <1>1, <3>1 DEF ImuAccesses
      <4> QED
        BY <1>6, <2>1, <2>2, <2>4, <4>1 DEF Load, Goes
    <3>2. CASE Goes("imu", "load_head", "store_head")
      <4>1. AtInv' /\ at["imu"] = "load_head" /\ at'["imu"] = "store_head" /\ \A u \in Starters : at'[u] = at[u]
        BY <1>1, <3>2 DEF ImuAccesses
      <4> QED
        BY <1>6, <2>1, <2>2, <2>4, <4>1 DEF Load, Goes
    <3> QED
      BY <2>4, <3>1, <3>2 DEF Load
  <2>5. CASE Store
    <3>1. CASE Goes("imu", "store_tail", "test_tail")
      <4>1. AtInv' /\ at["imu"] = "store_tail" /\ at'["imu"] = "test_tail" /\ \A u \in Starters : at'[u] = at[u]
        BY <1>1, <3>1 DEF ImuAccesses
      <4> QED
        BY <1>6, <2>1, <2>2, <2>5, <4>1 DEF Store, Goes
    <3>2. CASE Goes("imu", "store_head", "test_head")
      <4>1. AtInv' /\ at["imu"] = "store_head" /\ at'["imu"] = "test_head" /\ \A u \in Starters : at'[u] = at[u]
        BY <1>1, <3>2 DEF ImuAccesses
      <4> QED
        BY <1>6, <2>1, <2>2, <2>5, <4>1 DEF Store, Goes
    <3> QED
      BY <2>5, <3>1, <3>2 DEF Store
  <2>6. CASE Test
    <3>1. PICK i \in {"test_tail", "test_head"}, to \in {"wrap_tail", "wrap_head", "copy", "not_empty"} :
            /\ Goes("imu", i, to) /\ ~spilled /\ UNCHANGED <<ring, reg, spilled>>
            /\ i = "test_tail" => to = IF tail >= Length THEN "wrap_tail" ELSE "copy"
            /\ i = "test_head" => to = IF head >= Length THEN "wrap_head" ELSE "not_empty"
      BY <2>6 DEF Test
    <3>2. AtInv' /\ at["imu"] = i /\ at'["imu"] = to /\ \A u \in Starters : at'[u] = at[u]
      BY <1>1, <3>1 DEF ImuAccesses
    <3> QED
      BY <1>6, <2>1, <2>2, <3>1, <3>2
  <2>7. CASE Wrap
    <3>1. CASE Goes("imu", "wrap_tail", "copy")
      <4>1. AtInv' /\ at["imu"] = "wrap_tail" /\ at'["imu"] = "copy" /\ \A u \in Starters : at'[u] = at[u]
        BY <1>1, <3>1 DEF ImuAccesses
      <4> QED
        BY <1>6, <2>1, <2>2, <2>7, <4>1 DEF Wrap, Goes
    <3>2. CASE Goes("imu", "wrap_head", "not_empty")
      <4>1. AtInv' /\ at["imu"] = "wrap_head" /\ at'["imu"] = "not_empty" /\ \A u \in Starters : at'[u] = at[u]
        BY <1>1, <3>2 DEF ImuAccesses
      <4> QED
        BY <1>6, <2>1, <2>2, <2>7, <4>1 DEF Wrap, Goes
    <3> QED
      BY <2>7, <3>1, <3>2 DEF Wrap
  <2>8. CASE Copy
    <3>1. AtInv' /\ at["imu"] = "copy" /\ at'["imu"] = "load_head" /\ \A u \in Starters : at'[u] = at[u]
      BY <1>1, <2>8 DEF Copy, ImuAccesses
    <3> QED
      BY <1>6, <2>1, <2>2, <2>8, <3>1 DEF Copy
  <2>9. CASE PushEnd
    <3>1. AtInv' /\ at["imu"] = "not_empty" /\ at'["imu"] = "rest" /\ \A u \in Starters : at'[u] = at[u]
      BY <1>1, <2>9 DEF PushEnd, ImuAccesses
    <3> QED
      BY <1>6, <2>1, <2>2, <2>9, <3>1 DEF PushEnd
  <2> QED
    BY <1>6, <2>3, <2>4, <2>5, <2>6, <2>7, <2>8, <2>9 DEF Push
<1> QED
  BY <1>2, <1>3, <1>4, <1>5, <1>6 DEF Imu

(* A push is at one of the accesses of circular_buffer_push.               *)
LEMMA ImuSteps ==
  ASSUME AtInv, Push
  PROVE  at["imu"] \in {"push", "load_tail", "store_tail", "test_tail", "wrap_tail",
                       "copy", "load_head", "store_head", "test_head", "wrap_head",
                       "not_empty"}
BY DEF Push, PushStart, Load, Store, Test, Wrap, Copy, PushEnd, ImuGoes, Goes

(* An access of start_recording: what it writes, and which one is next.    *)
LEMMA StartWalks ==
  ASSUME AtInv, NEW t \in Starters, StartRecording(t)
  PROVE  /\ AtInv' /\ at[t] \in StartAccesses
         /\ \A u \in Threads \ {t} : at'[u] = at[u]
         /\ UNCHANGED <<control, buffer, clock, time, reg, ride, clean, download>>
         /\ \/ /\ at[t] = "head_0" /\ at'[t] = "tail_0" /\ head' = 0
               /\ spilled' = IF at["imu"] = "wrap_head" THEN TRUE ELSE spilled
               /\ UNCHANGED <<tail, empty, recording, decimation_counter, last_time>>
            \/ /\ at[t] = "tail_0" /\ at'[t] = "empty" /\ tail' = 0
               /\ spilled' = IF at["imu"] = "wrap_tail" THEN TRUE ELSE spilled
               /\ UNCHANGED <<head, empty, recording, decimation_counter, last_time>>
            \/ /\ at[t] = "empty" /\ at'[t] = "reset" /\ empty' = TRUE
               /\ UNCHANGED <<head, tail, recording, decimation_counter, last_time, spilled>>
            \/ /\ at[t] = "reset" /\ at'[t] = "record"
               /\ decimation_counter' = 0 /\ last_time' = 0
               /\ UNCHANGED <<head, tail, empty, recording, spilled>>
            \/ /\ at[t] = "record" /\ at'[t] = "rest" /\ recording' = TRUE
               /\ UNCHANGED <<head, tail, empty, decimation_counter, last_time, spilled>>
<1>1. /\ at[t] \in StartAccesses /\ StartAccess(at[t]) /\ t \in Threads
      /\ UNCHANGED <<control, buffer, clock, time, reg, ride, clean, download>>
  BY DEF StartRecording, Threads, Starters
<1>2. /\ at'[t] = start_recording[at[t]]
      /\ \A u \in Threads \ {t} : at'[u] = at[u]
      /\ start_recording[at[t]] \in Accesses => at' \in [Threads -> Accesses]
  BY <1>1, Walks DEF StartRecording
<1>3. /\ at[t] = "head_0" => at'[t] = "tail_0"
      /\ at[t] = "tail_0" => at'[t] = "empty"
      /\ at[t] = "empty" => at'[t] = "reset"
      /\ at[t] = "reset" => at'[t] = "record"
      /\ at[t] = "record" => at'[t] = "rest"
  BY <1>2 DEF start_recording
<1>4. at'[t] \in {"rest"} \cup StartAccesses
  BY <1>1, <1>3 DEF StartAccesses
<1>5. AtInv'
  BY <1>2, <1>4 DEF AtInv, Accesses, Starters, Threads
<1>6. CASE at[t] = "head_0"
  BY <1>1, <1>2, <1>3, <1>5, <1>6 DEF StartAccess
<1>7. CASE at[t] = "tail_0"
  BY <1>1, <1>2, <1>3, <1>5, <1>7 DEF StartAccess
<1>8. CASE at[t] = "empty"
  BY <1>1, <1>2, <1>3, <1>5, <1>8 DEF StartAccess
<1>9. CASE at[t] = "reset"
  BY <1>1, <1>2, <1>3, <1>5, <1>9 DEF StartAccess
<1>10. CASE at[t] = "record"
  BY <1>1, <1>2, <1>3, <1>5, <1>10 DEF StartAccess
<1> QED
  BY <1>1, <1>6, <1>7, <1>8, <1>9, <1>10 DEF StartAccesses

(* A start goes to its first access.                                       *)
LEMMA StartBegins ==
  ASSUME AtInv, NEW t \in Starters, Starts(t)
  PROVE  /\ AtInv' /\ at[t] = "rest" /\ at'[t] = "head_0"
         /\ \A u \in Threads \ {t} : at'[u] = at[u]
<1>1. start_recording["rest"] = "head_0" /\ t \in Threads
  BY DEF start_recording, Starters, Threads
<1>2. Goes(t, "rest", "head_0")
  BY <1>1 DEF Starts
<1>3. /\ at[t] = "rest" /\ at'[t] = "head_0" /\ at' \in [Threads -> Accesses]
      /\ \A u \in Threads \ {t} : at'[u] = at[u]
  BY <1>1, <1>2, Walks DEF Accesses, StartAccesses
<1> QED
  BY <1>3 DEF AtInv, StartAccesses, Starters, Threads

\* A step of the command thread in circular_buffer_size, for the header.
HeaderStep == SendHeader \/ ReadIndices \/ ReadEmpty

(* The header leaves the buffer and the other threads alone.               *)
LEMMA HeaderWalks ==
  ASSUME AtInv, HeaderStep
  PROVE  /\ AtInv' /\ at["cmd"] \in {"rest"} \cup HeaderReads
         /\ at'["cmd"] \in {"rest"} \cup HeaderReads
         /\ at'["imu"] = at["imu"] /\ at'["main"] = at["main"]
         /\ UNCHANGED <<decimation_counter, last_time, ring, imu, clean>>
         /\ recording' = FALSE \/ UNCHANGED recording
<1>1. PICK from, to \in {"rest"} \cup HeaderReads :
            /\ Goes("cmd", from, to) /\ from \in {"rest"} \cup HeaderReads
            /\ UNCHANGED <<decimation_counter, last_time, ring, imu, clean>>
            /\ recording' = FALSE \/ UNCHANGED recording
  <2>1. CASE SendHeader
    BY <2>1 DEF SendHeader, Header, HeaderReads
  <2>2. CASE ReadIndices
    BY <2>2 DEF ReadIndices, HeaderReads
  <2>3. CASE ReadEmpty
    BY <2>3 DEF ReadEmpty, HeaderReads
  <2> QED
    BY <2>1, <2>2, <2>3 DEF HeaderStep
<1>2. /\ at["cmd"] = from /\ at'["cmd"] = to
      /\ \A u \in Threads \ {"cmd"} : at'[u] = at[u]
      /\ at' \in [Threads -> Accesses]
  BY <1>1, Walks DEF Threads, Accesses
<1> QED
  BY <1>1, <1>2 DEF AtInv, Threads

(* Every step is one of the IMU callback, one of a start, the beginning of *)
(* a start, one of the header, or leaves the buffer and the threads alone. *)
LEMMA Moves ==
  ASSUME AtInv, [Next]_vars
  PROVE  /\ AtInv'
         /\ \/ Imu
            \/ \E t \in Starters : StartRecording(t)
            \/ /\ \E t \in Starters : Starts(t)
               /\ UNCHANGED <<recording, decimation_counter, last_time, ring, imu>>
            \/ HeaderStep
            \/ /\ UNCHANGED <<decimation_counter, last_time, ring, imu, at, clean>>
               /\ recording' = FALSE \/ UNCHANGED recording
               /\ UNCHANGED download \/ SendData
<1>1. CASE Imu
  BY <1>1, ImuAccess
<1>2. CASE \E t \in Starters : StartRecording(t)
  BY <1>2, StartWalks
<1>3. CASE Engage
  <2>1. CASE autostart
    BY <1>3, <2>1, StartBegins DEF Engage, Starters
  <2>2. CASE ~autostart
    BY <1>3, <2>2 DEF Engage, AtInv
  <2> QED
    BY <2>1, <2>2
<1>4. CASE StartCommand
  BY <1>4, StartBegins DEF StartCommand, Starters
<1>5. CASE HeaderStep
  BY <1>5, HeaderWalks
<1>6. CASE \/ Tick \/ Fault \/ FlywheelOff \/ StopCommand \/ SetControl
            \/ SendData \/ UNCHANGED vars
  <2>1. UNCHANGED <<decimation_counter, last_time, ring, imu, at, clean>>
    BY <1>6 DEF Tick, Fault, FlywheelOff, StopCommand, SetControl, SendData, vars
  <2>2. UNCHANGED download \/ SendData
    BY <1>6 DEF Tick, Fault, FlywheelOff, StopCommand, SetControl, SendData, vars
  <2>3. recording' = FALSE \/ UNCHANGED recording
    <3>1. Fault => recording' = (recording /\ ~autostop)
      BY DEF Fault, Trigger
    <3>2. CASE ~Fault
      BY <1>6, <3>2 DEF Tick, FlywheelOff, StopCommand, SetControl, SendData, vars
    <3>3. CASE Fault
      BY <3>1, <3>3, Zenon
    <3> QED
      BY <3>2, <3>3
  <2> QED
    BY <2>1, <2>2, <2>3 DEF AtInv
<1> QED
  BY <1>1, <1>2, <1>3, <1>4, <1>5, <1>6 DEF Next, HeaderStep, Starters

(* The types and the places of the threads, however the steps follow each  *)
(* other.                                                                  *)
LEMMA TypeKept ==
  ASSUME TypeInv, [Next]_vars
  PROVE  TypeInv'
<1> USE RecorderAssumption DEF TypeInv
<1>1. AtInv'
  BY Moves
<1>2. /\ {autostart', autostop'} \subseteq BOOLEAN /\ decimation' \in 0 .. 255
      /\ clock' \in Nat
  <2>1. CASE SetControl
    BY <2>1 DEF SetControl, control, TypeOK
  <2>2. CASE Tick
    BY <2>2 DEF Tick, control, TypeOK
  <2>3. CASE UNCHANGED <<control, clock>>
    BY <2>3 DEF control, TypeOK
  <2> QED
    BY <2>1, <2>2, <2>3, ImuAccess
       DEF Next, vars, StartRecording, Engage, Fault, FlywheelOff, StartCommand,
           StopCommand, SendHeader, ReadIndices, ReadEmpty, SendData
<1> DEFINE Placed == /\ head \in Slots \/ (head = Length /\ at["imu"] \in {"test_head", "wrap_head"})
                     /\ tail \in Slots \/ (tail = Length /\ at["imu"] \in {"test_tail", "wrap_tail"})
           Bounded == {head, tail} \subseteq -Length .. Length /\ reg \in 0 .. Length
           Stores == /\ buffer \in [Slots -> Nat]
                     /\ {recording, empty, spilled} \subseteq BOOLEAN
                     /\ decimation_counter \in 0 .. 255
                     /\ {time, last_time} \subseteq Nat
<1>3. (~spilled => Placed) /\ Bounded /\ Stores
  BY DEF TypeOK
<1>4. SUFFICES (~spilled' => Placed') /\ Bounded' /\ Stores' /\ WrapInv'
  BY <1>1, <1>2 DEF TypeOK
<1>5. CASE Imu
  <2> DEFINE now == at["imu"]
             next == at'["imu"]
  <2>1. UNCHANGED <<recording, spilled>> /\ (now \notin {"wrap_tail", "wrap_head"} => ~spilled)
    BY <1>5, ImuAccess
  <2>2. CASE Sample /\ now = "rest" /\ next = "count"
    BY <1>3, <2>1, <2>2 DEF Sample, ring, WrapInv, TypeOK
  <2>3. CASE Count /\ now = "count" /\ next \in {"rest", "stamp"}
    <3>1. decimation_counter' \in 0 .. 255 /\ UNCHANGED <<ring, imu, last_time>>
      BY <1>3, <2>3 DEF Count
    <3> QED
      BY <1>3, <2>1, <2>3, <3>1 DEF ring, imu, WrapInv
  <2>4. CASE Stamp /\ now = "stamp" /\ next = "keep_time"
    <3>1. time' \in Nat /\ UNCHANGED <<ring, reg, last_time, decimation_counter>>
      BY <1>3, <2>4 DEF Stamp, Later
    <3> QED
      BY <1>3, <2>1, <2>4, <3>1 DEF ring, WrapInv
  <2>5. CASE KeepTime /\ now = "keep_time" /\ next = "push"
    BY <1>3, <2>1, <2>5 DEF KeepTime, ring, imu, WrapInv
  <2>6. CASE Push /\ now \notin {"rest", "count", "stamp", "keep_time"}
    <3>1. /\ UNCHANGED <<recording, decimation_counter, last_time>>
          /\ time' \in Nat
      BY <1>3, <2>6 DEF Push, NoSample
    <3>2. CASE UNCHANGED <<ring, reg, time>> /\ now \in {"push", "test_tail", "test_head"}
      <4>1. ~spilled
        BY <2>1, <3>2
      <4>2. /\ now = "push" => next \in {"load_tail", "copy"}
            /\ now = "test_tail" => next = IF tail >= Length THEN "wrap_tail" ELSE "copy"
            /\ now = "test_head" => next = IF head >= Length THEN "wrap_head" ELSE "not_empty"
        BY <1>5, <3>2, ImuAccess
      <4> QED
        BY <1>3, <2>1, <3>1, <3>2, <4>1, <4>2 DEF ring, WrapInv, Slots
    <3>3. CASE \/ now = "load_tail" /\ next = "store_tail" /\ reg' = tail + 1
               \/ now = "load_head" /\ next = "store_head" /\ reg' = head + 1
      <4>1. ~spilled /\ UNCHANGED ring
        BY <1>5, <2>1, <3>3, ImuAccess
      <4>2. reg' \in 0 .. Length
        BY <1>3, <3>3, <4>1 DEF Slots
      <4> QED
        BY <1>3, <2>1, <3>1, <3>3, <4>1, <4>2 DEF ring, WrapInv
    <3>4. CASE now = "store_tail" /\ next = "test_tail" /\ tail' = reg /\ reg' = 0
      <4>1. ~spilled /\ UNCHANGED <<head, empty, buffer>>
        BY <1>5, <2>1, <3>4, ImuAccess
      <4>2. tail' \in 0 .. Length /\ head \in Slots
        BY <1>3, <3>4, <4>1
      <4>3. tail' \in Slots \/ tail' = Length
        BY <4>2 DEF Slots
      <4> QED
        BY <1>3, <2>1, <3>1, <3>4, <4>1, <4>2, <4>3 DEF WrapInv
    <3>5. CASE now = "store_head" /\ next = "test_head" /\ head' = reg /\ reg' = 0
      <4>1. ~spilled /\ UNCHANGED <<tail, empty, buffer>>
        BY <1>5, <2>1, <3>5, ImuAccess
      <4>2. head' \in 0 .. Length /\ tail \in Slots
        BY <1>3, <3>5, <4>1
      <4>3. head' \in Slots \/ head' = Length
        BY <4>2 DEF Slots
      <4> QED
        BY <1>3, <2>1, <3>1, <3>5, <4>1, <4>2, <4>3 DEF WrapInv
    <3>6. CASE now = "wrap_tail" /\ next = "copy" /\ tail' = tail - Length
      <4>1. UNCHANGED <<head, empty, buffer, reg>>
        BY <1>5, <3>6, ImuAccess
      <4>2. IF spilled THEN tail' = -Length ELSE tail' = 0 /\ head \in Slots
        BY <1>3, <3>6 DEF WrapInv
      <4> QED
        BY <1>3, <2>1, <3>1, <3>6, <4>1, <4>2 DEF WrapInv, Slots
    <3>7. CASE now = "wrap_head" /\ next = "not_empty" /\ head' = head - Length
      <4>1. UNCHANGED <<tail, empty, buffer, reg>>
        BY <1>5, <3>7, ImuAccess
      <4>2. IF spilled THEN head' = -Length ELSE head' = 0 /\ tail \in Slots
        BY <1>3, <3>7 DEF WrapInv
      <4> QED
        BY <1>3, <2>1, <3>1, <3>7, <4>1, <4>2 DEF WrapInv, Slots
    <3>8. CASE now = "copy" /\ next = "load_head"
      <4>1. /\ ~spilled /\ buffer' = [buffer EXCEPT ![head] = time]
            /\ UNCHANGED <<head, tail, empty, reg>>
        BY <1>5, <2>1, <3>8, ImuAccess
      <4>2. buffer' \in [Slots -> Nat]
        BY <1>3, <4>1
      <4> QED
        BY <1>3, <2>1, <3>1, <3>8, <4>1, <4>2 DEF WrapInv
    <3>9. CASE now = "not_empty" /\ next = "rest"
      <4>1. ~spilled /\ empty' = FALSE /\ UNCHANGED <<head, tail, buffer, reg>>
        BY <1>5, <2>1, <3>9, ImuAccess
      <4> QED
        BY <1>3, <2>1, <3>1, <3>9, <4>1 DEF WrapInv
    <3>10. \/ UNCHANGED <<ring, reg, time>> /\ now \in {"push", "test_tail", "test_head"}
           \/ now = "load_tail" /\ next = "store_tail" /\ reg' = tail + 1
           \/ now = "load_head" /\ next = "store_head" /\ reg' = head + 1
           \/ now = "store_tail" /\ next = "test_tail" /\ tail' = reg /\ reg' = 0
           \/ now = "store_head" /\ next = "test_head" /\ head' = reg /\ reg' = 0
           \/ now = "wrap_tail" /\ next = "copy" /\ tail' = tail - Length
           \/ now = "wrap_head" /\ next = "not_empty" /\ head' = head - Length
           \/ now = "copy" /\ next = "load_head"
           \/ now = "not_empty" /\ next = "rest"
      <4>1. now \in {"push", "load_tail", "store_tail", "test_tail", "wrap_tail", "copy",
                     "load_head", "store_head", "test_head", "wrap_head", "not_empty"}
        BY <1>5, <2>6, ImuAccess
      <4>2. now \in {"push", "test_tail", "test_head"} => UNCHANGED <<ring, reg, time>>
        BY <1>5, ImuAccess
      <4>3. /\ now = "load_tail" => next = "store_tail" /\ reg' = tail + 1
            /\ now = "load_head" => next = "store_head" /\ reg' = head + 1
        BY <1>5, ImuAccess
      <4>4. /\ now = "store_tail" => next = "test_tail" /\ tail' = reg /\ reg' = 0
            /\ now = "store_head" => next = "test_head" /\ head' = reg /\ reg' = 0
        BY <1>5, ImuAccess
      <4>5. /\ now = "wrap_tail" => next = "copy" /\ tail' = tail - Length
            /\ now = "wrap_head" => next = "not_empty" /\ head' = head - Length
        BY <1>5, ImuAccess
      <4>6. /\ now = "copy" => next = "load_head"
            /\ now = "not_empty" => next = "rest"
        BY <1>5, ImuAccess
      <4> HIDE DEF now, next
      <4> QED
        BY <4>1, <4>2, <4>3, <4>4, <4>5, <4>6
    <3> HIDE DEF now, next, Placed, Bounded, Stores
    <3> QED
      BY <3>2, <3>3, <3>4, <3>5, <3>6, <3>7, <3>8, <3>9, <3>10
  <2> HIDE DEF now, next
  <2> QED
    BY <1>5, <2>2, <2>3, <2>4, <2>5, <2>6, ImuAccess DEF now, next
<1>6. CASE \E t \in Starters : StartRecording(t)
  <2>1. PICK t \in Starters : StartRecording(t)
    BY <1>6
  <2>2. at'["imu"] = at["imu"] /\ UNCHANGED <<buffer, time, reg>>
    BY <2>1, StartWalks DEF Threads, Starters
  <2>3. Stores' /\ 0 \in Slots
    <3>1. spilled' \in BOOLEAN /\ recording' \in BOOLEAN /\ empty' \in BOOLEAN
      <4>1. /\ UNCHANGED spilled \/ spilled' = TRUE
            /\ UNCHANGED recording \/ recording' = TRUE
            /\ UNCHANGED empty \/ empty' = TRUE
        BY <2>1, StartWalks
      <4>2. spilled \in BOOLEAN /\ recording \in BOOLEAN /\ empty \in BOOLEAN
        BY <1>3
      <4> QED
        BY <4>1, <4>2, Zenon
    <3>2. decimation_counter' \in {0, decimation_counter} /\ last_time' \in {0, last_time}
      BY <2>1, StartWalks
    <3> QED
      BY <1>3, <2>2, <3>1, <3>2 DEF Slots
  <2>4. CASE /\ head' = 0 /\ tail' = tail
             /\ spilled' = IF at["imu"] = "wrap_head" THEN TRUE ELSE spilled
    <3>1. (~spilled' => Placed') /\ Bounded'
      BY <1>3, <2>2, <2>3, <2>4
    <3>2. WrapInv'
      <4>1. CASE at["imu"] = "wrap_head"
        BY <2>2, <2>4, <4>1 DEF WrapInv
      <4>2. CASE at["imu"] # "wrap_head"
        BY <2>2, <2>4, <4>2 DEF WrapInv
      <4> QED
        BY <4>1, <4>2
    <3> QED
      BY <2>3, <3>1, <3>2
  <2>5. CASE /\ tail' = 0 /\ head' = head
             /\ spilled' = IF at["imu"] = "wrap_tail" THEN TRUE ELSE spilled
    <3>1. (~spilled' => Placed') /\ Bounded'
      BY <1>3, <2>2, <2>3, <2>5
    <3>2. WrapInv'
      <4>1. CASE at["imu"] = "wrap_tail"
        BY <2>2, <2>5, <4>1 DEF WrapInv
      <4>2. CASE at["imu"] # "wrap_tail"
        BY <2>2, <2>5, <4>2 DEF WrapInv
      <4> QED
        BY <4>1, <4>2
    <3> QED
      BY <2>3, <3>1, <3>2
  <2>6. CASE UNCHANGED <<head, tail, spilled>>
    BY <1>3, <2>2, <2>3, <2>6 DEF WrapInv
  <2> QED
    BY <2>1, <2>4, <2>5, <2>6, StartWalks
<1>7. CASE /\ UNCHANGED <<decimation_counter, last_time, ring, imu>>
           /\ at'["imu"] = at["imu"]
           /\ recording' = FALSE \/ UNCHANGED recording
  <2>1. decimation_counter' \in 0 .. 255 /\ recording' \in BOOLEAN
    BY <1>3, <1>7
  <2> QED
    BY <1>3, <1>7, <2>1 DEF ring, imu, WrapInv
<1> QED
  BY <1>5, <1>6, <1>7, Moves, HeaderWalks, StartBegins DEF Starters, Threads

(* All threads are at rest at first.                                       *)
LEMMA InitialState == Init => TypeInv
<1> SUFFICES ASSUME Init PROVE TypeInv
  OBVIOUS
<1>1. TypeOK
  <2>1. 0 \in Slots /\ 0 \in -Length .. Length /\ 0 \in 0 .. Length
    BY RecorderAssumption DEF Slots
  <2>2. buffer \in [Slots -> Nat]
    BY DEF Init, NoSample
  <2>3. {recording, autostart, autostop, empty, spilled} \subseteq BOOLEAN
    BY DEF Init
  <2>4. {clock, time, last_time} \subseteq Nat
    BY DEF Init, NoSample
  <2>5. {decimation, decimation_counter} \subseteq 0 .. 255
    BY RecorderAssumption DEF Init
  <2> QED
    BY <2>1, <2>2, <2>3, <2>4, <2>5 DEF Init, TypeOK
<1>2. AtInv /\ WrapInv
  BY DEF Init, AtInv, WrapInv, Threads, Accesses
<1> QED
  BY <1>1, <1>2 DEF TypeInv

(* Spec => []TypeOK: head and tail are always slots, but one past the end  *)
(* between the two writes of an increment, although a start may clear the  *)
(* buffer between any two accesses of circular_buffer_push, until it does  *)
(* so between these two writes.                                            *)
THEOREM SlotsInBounds == Spec => []TypeOK
<1>1. TypeInv => TypeOK
  BY DEF TypeInv
<1> QED
  BY <1>1, InitialState, TypeKept, PTL DEF Spec

-----------------------------------------------------------------------------
(* An index that is incremented stays one of the buffer.                   *)
LEMMA IncrementedStays ==
  ASSUME NEW i \in Slots
  PROVE  Ring!Incremented(i) \in Slots
BY RecorderAssumption DEF Slots, Ring!Incremented

\* How far a head is ahead of a tail, the whole buffer when they meet, and the
\* slot of a sample.
Ahead(h, t) == IF h > t THEN h - t ELSE h - t + Length
Place(t, i) == IF t + i >= Length THEN t + i - Length ELSE t + i

\* An index that is incremented, with the subtraction that is still to come;
\* what is stored when head and tail are taken so.
Settled(i) == IF i = Length THEN 0 ELSE i
Hd == Settled(head)
Tl == Settled(tail)
Stored == IF Hd = Tl /\ empty THEN 0 ELSE Ahead(Hd, Tl)

(* The arithmetic of the ring: a head that advances is one further ahead,  *)
(* a tail that advances one less, no two samples share a slot, and the     *)
(* slot after the newest is the head.                                      *)
LEMMA Places ==
  ASSUME NEW h \in Slots, NEW t \in Slots
  PROVE  /\ Ahead(h, t) \in 1 .. Length
         /\ Ahead(h, t) = Length <=> h = t
         /\ h # t => Ahead(Ring!Incremented(h), t) = Ahead(h, t) + 1
         /\ Ahead(Ring!Incremented(t), t) = 1
         /\ Length > 1 => /\ Ring!Incremented(t) # t
                          /\ Ahead(t, Ring!Incremented(t)) = Length - 1
         /\ \A i \in Slots : Place(t, i) \in Slots
         /\ \A i, j \in Slots : Place(t, i) = Place(t, j) => i = j
         /\ h # t => Ahead(h, t) \in Slots /\ Place(t, Ahead(h, t)) = h
         /\ Place(t, 0) = t
         /\ \A i \in Slots :
              i < Length - 1 => Place(Ring!Incremented(t), i) = Place(t, i + 1)
BY RecorderAssumption DEF Slots, Ahead, Place, Ring!Incremented

(* Head and tail, settled, are slots; but at the two writes of their        *)
(* increments they are settled.                                            *)
LEMMA SettledSlots ==
  ASSUME TypeInv, ~spilled
  PROVE  /\ Hd \in Slots /\ Tl \in Slots
         /\ head \in 0 .. Length /\ tail \in 0 .. Length
         /\ at["imu"] \notin {"test_head", "wrap_head"} => head \in Slots /\ Hd = head
         /\ at["imu"] \notin {"test_tail", "wrap_tail"} => tail \in Slots /\ Tl = tail
         /\ Stored \in 0 .. Length
         /\ Stored = Length <=> Hd = Tl /\ ~empty
<1>1. /\ head \in Slots \/ (head = Length /\ at["imu"] \in {"test_head", "wrap_head"})
      /\ tail \in Slots \/ (tail = Length /\ at["imu"] \in {"test_tail", "wrap_tail"})
      /\ empty \in BOOLEAN
  BY DEF TypeInv, TypeOK
<1>2. \A i \in Slots : Settled(i) = i
  BY RecorderAssumption DEF Slots, Settled
<1>3. Settled(Length) = 0 /\ 0 \in Slots
  BY RecorderAssumption DEF Slots, Settled
<1>4. Hd \in Slots /\ Tl \in Slots
  BY <1>1, <1>2, <1>3 DEF Hd, Tl
<1>5. head \in 0 .. Length /\ tail \in 0 .. Length
  BY <1>1, RecorderAssumption DEF Slots
<1>6. /\ Stored \in 0 .. Length
      /\ Stored = Length <=> Hd = Tl /\ ~empty
  BY <1>4, Places, RecorderAssumption DEF Stored
<1> QED
  BY <1>1, <1>2, <1>4, <1>5, <1>6 DEF Hd, Tl

(* circular_buffer_size, modulo the word, also of an index that is one     *)
(* past the end.                                                           *)
LEMMA SizeIsDifference ==
  ASSUME head \in 0 .. Length, tail \in 0 .. Length
  PROVE  Ring!Size = IF head = tail THEN IF empty THEN 0 ELSE Length
                     ELSE IF head > tail THEN head - tail ELSE head - tail + Length
<1> USE RecorderAssumption
<1>1. CASE head >= tail
  <2>1. Ring!Difference = head - tail
    BY <1>1 DEF Ring!Difference
  <2> QED
    BY <1>1, <2>1 DEF Ring!Size
<1>2. CASE head < tail
  <2>1. Ring!Difference = head - tail + (2 * Length + 1)
    BY <1>2 DEF Ring!Difference
  <2>2. (Ring!Difference + Length) % (2 * Length + 1) = head - tail + Length
    BY <1>2, <2>1
  <2> QED
    BY <1>2, <2>1, <2>2 DEF Ring!Size
<1>3. head >= tail \/ head < tail
  OBVIOUS
<1> QED
  BY <1>1, <1>2, <1>3

(* The timestamps in the buffer, oldest first. *)
Sorted(times, t, n) ==
  \A i, j \in Slots : i < j /\ j < n => times[Place(t, i)] < times[Place(t, j)]
Before(times, t, n, limit) ==
  \A i \in Slots : i < n => times[Place(t, i)] < limit

(* A sample that is pushed waits in the slot at the head, in which nothing *)
(* is stored, until the head passes it.                                    *)
Writing == {"test_tail", "wrap_tail", "copy", "load_head", "store_head"}
Dated == {"push", "load_tail", "store_tail"} \cup Writing
Passed == {"test_head", "wrap_head", "not_empty"}
Order ==
  /\ Sorted(buffer, Tl, Stored)
  /\ Before(buffer, Tl, Stored,
            IF at["imu"] \in {"keep_time"} \cup Dated THEN time ELSE last_time + 1)
  /\ at["imu"] \in Dated \cup Passed => last_time = time
  /\ at["imu"] \in {"load_tail", "store_tail"} => Stored = Length
  /\ at["imu"] = "store_tail" => reg = tail + 1
  /\ at["imu"] \in Writing => Stored < Length
  /\ at["imu"] \in {"load_head", "store_head"} => buffer[head] = time
  /\ at["imu"] = "store_head" => reg = head + 1
  /\ IF at["imu"] \in Passed THEN Stored > 0 ELSE empty => Hd = Tl

(* A later timestamp behind the newest keeps the order.                    *)
LEMMA Appends ==
  ASSUME NEW times \in [Slots -> Nat], NEW t \in Slots, NEW n \in Slots, NEW now \in Nat,
         Sorted(times, t, n), Before(times, t, n, now), times[Place(t, n)] = now
  PROVE  Sorted(times, t, n + 1) /\ Before(times, t, n + 1, now + 1)
<1> USE DEF Slots
<1>1. \A i \in Slots : Place(t, i) \in Slots /\ times[Place(t, i)] \in Nat
  BY Places
<1>2. \A i \in Slots : i < n + 1 => i < n \/ i = n
  BY RecorderAssumption
<1>3. \A i \in Slots : i < n + 1 => times[Place(t, i)] < now + 1
  <2> SUFFICES ASSUME NEW i \in Slots, i < n + 1 PROVE times[Place(t, i)] < now + 1
    OBVIOUS
  <2>1. CASE i < n
    <3>1. times[Place(t, i)] < now
      BY <2>1 DEF Before
    <3> QED
      BY <1>1, <3>1
  <2>2. CASE i = n
    BY <2>2
  <2> QED
    BY <1>2, <2>1, <2>2
<1>4. ASSUME NEW i \in Slots, NEW j \in Slots, i < j, j < n + 1
      PROVE  times[Place(t, i)] < times[Place(t, j)]
  <2>1. i < n
    BY <1>4
  <2>2. CASE j < n
    BY <1>4, <2>2 DEF Sorted
  <2>3. CASE j = n
    BY <2>1, <2>3 DEF Before
  <2> QED
    BY <1>2, <1>4, <2>2, <2>3
<1> QED
  BY <1>3, <1>4 DEF Sorted, Before

(* Dropping the oldest sample of a full buffer keeps the order.            *)
LEMMA Drops ==
  ASSUME NEW times \in [Slots -> Nat], NEW t \in Slots, NEW now,
         Length > 1, Sorted(times, t, Length), Before(times, t, Length, now)
  PROVE  /\ Sorted(times, Ring!Incremented(t), Length - 1)
         /\ Before(times, Ring!Incremented(t), Length - 1, now)
<1>1. \A i \in Slots : i < Length - 1 =>
        i + 1 \in Slots /\ Place(Ring!Incremented(t), i) = Place(t, i + 1)
  BY Places, RecorderAssumption DEF Slots
<1>2. \A i, j \in Slots : i < j => i + 1 < j + 1
  BY RecorderAssumption DEF Slots
<1>3. \A i \in Slots : i < Length
  BY RecorderAssumption DEF Slots
<1>4. \A i, j \in Slots : i < j /\ j < Length - 1 => i < Length - 1
  BY RecorderAssumption DEF Slots
<1> QED
  BY <1>1, <1>2, <1>3, <1>4 DEF Sorted, Before

(* Sampling keeps the order: a timestamp is made later than the last one   *)
(* kept (Later), the slot it is copied to holds nothing that is stored,    *)
(* and head and tail move past it only then.                               *)
LEMMA OrderKept ==
  ASSUME TypeInv, ~spilled, Length > 1, Order, Imu
  PROVE  Order'
<1> USE RecorderAssumption
<1> DEFINE now == at["imu"]
           next == at'["imu"]
           n == Stored
<1>1. /\ Hd \in Slots /\ Tl \in Slots /\ time \in Nat /\ last_time \in Nat
      /\ buffer \in [Slots -> Nat] /\ empty \in BOOLEAN /\ n \in 0 .. Length
  BY SettledSlots DEF TypeOK, TypeInv
<1>2. n = Length <=> Hd = Tl /\ ~empty
  BY SettledSlots
<1>3. /\ now \notin {"test_head", "wrap_head"} => head \in Slots /\ Hd = head
      /\ now \notin {"test_tail", "wrap_tail"} => tail \in Slots /\ Tl = tail
      /\ now = "wrap_tail" => tail = Length
      /\ now = "wrap_head" => head = Length
  BY SettledSlots DEF TypeInv, WrapInv
<1>4. \A i \in Slots : Settled(i + 1) = Ring!Incremented(i)
  BY DEF Slots, Settled, Ring!Incremented
<1>5. ASSUME UNCHANGED ring PROVE UNCHANGED <<head, tail, empty, buffer, Hd, Tl, Stored>>
  BY <1>5 DEF ring, Stored, Hd, Tl
<1>6. AtInv /\ (now \notin {"wrap_tail", "wrap_head"} => ~spilled)
  BY DEF TypeInv
<1> USE DEF Order, Dated, Writing, Passed, Sorted, Before
<1>11. CASE Sample /\ now = "rest" /\ next = "count"
  <2>1. UNCHANGED <<head, tail, empty, buffer, Hd, Tl, Stored, last_time>>
    BY <1>5, <1>11 DEF Sample
  <2> QED
    BY <1>11, <2>1
<1>12. CASE Count /\ now = "count" /\ next \in {"rest", "stamp"}
  <2>1. UNCHANGED <<head, tail, empty, buffer, Hd, Tl, Stored, last_time>>
    BY <1>5, <1>12 DEF Count
  <2> QED
    BY <1>12, <2>1
<1>13. CASE Stamp /\ now = "stamp" /\ next = "keep_time"
  <2>1. UNCHANGED <<head, tail, empty, buffer, Hd, Tl, Stored>>
    BY <1>5, <1>13 DEF Stamp
  <2>2. time' >= last_time + 1 /\ time' \in Nat
    BY <1>1, <1>13 DEF Stamp, Later
  <2>3. Before(buffer, Tl, n, last_time + 1) => Before(buffer, Tl, n, time')
    BY <1>1, <2>2, Places
  <2> QED
    BY <1>13, <2>1, <2>3
<1>14. CASE KeepTime /\ now = "keep_time" /\ next = "push"
  <2>1. UNCHANGED <<head, tail, empty, buffer, Hd, Tl, Stored, time>> /\ last_time' = time
    BY <1>5, <1>14 DEF KeepTime, imu
  <2> QED
    BY <1>14, <2>1
<1>15. CASE Push
  <2>1. last_time' = last_time
    BY <1>15 DEF Push
  <2>2. CASE now \in {"push", "load_tail", "test_tail", "load_head", "test_head"}
    <3>1. /\ UNCHANGED <<ring, time>>
          /\ now = "push" => next = IF ~empty /\ head = tail THEN "load_tail" ELSE "copy"
          /\ now = "load_tail" => next = "store_tail" /\ reg' = tail + 1
          /\ now = "load_head" => next = "store_head" /\ reg' = head + 1
          /\ now = "test_tail" => next \in {"wrap_tail", "copy"}
          /\ now = "test_head" => next \in {"wrap_head", "not_empty"}
      BY <1>6, <2>2, ImuAccess
    <3>2. UNCHANGED <<head, tail, empty, buffer, Hd, Tl, Stored, time>>
      BY <1>5, <3>1
    <3>3. CASE now = "push"
      <4>1. \/ next = "load_tail" /\ n = Length
            \/ next = "copy" /\ n < Length
        <5>1. Hd = head /\ Tl = tail
          BY <1>3, <3>3
        <5>2. n = Length \/ n < Length
          BY <1>1
        <5>3. next = IF Hd = Tl /\ ~empty THEN "load_tail" ELSE "copy"
          BY <3>1, <3>3, <5>1
        <5> HIDE DEF n, next
        <5> QED
          BY <1>2, <5>2, <5>3
      <4> QED
        BY <2>1, <3>2, <3>3, <4>1
    <3>4. CASE now # "push"
      BY <2>1, <2>2, <3>1, <3>2, <3>4
    <3> QED
      BY <3>3, <3>4
  <2>3. CASE now = "store_tail"
    <3>1. /\ tail' = reg /\ next = "test_tail"
          /\ UNCHANGED <<head, empty, buffer, time>>
      BY <1>6, <2>3, ImuAccess
    <3>2. /\ reg = tail + 1 /\ n = Length /\ last_time = time
          /\ tail \in Slots /\ Tl = tail /\ Hd = Tl /\ ~empty
      BY <1>2, <1>3, <2>3
    <3>3. Tl' = Ring!Incremented(Tl) /\ Hd' = Hd
      BY <1>4, <3>1, <3>2 DEF Tl, Hd
    <3>4. Hd' # Tl' /\ Stored' = Length - 1
      BY <1>1, <3>1, <3>2, <3>3, Places DEF Stored
    <3>5. Sorted(buffer, Tl, Length) /\ Before(buffer, Tl, Length, time)
      BY <2>3, <3>2
    <3>6. Sorted(buffer, Tl', Stored') /\ Before(buffer, Tl', Stored', time)
      BY <1>1, <3>3, <3>4, <3>5, Drops
    <3> QED
      BY <2>1, <2>3, <3>1, <3>2, <3>4, <3>6
  <2>4. CASE now \in {"wrap_tail", "wrap_head"}
    <3>1. /\ now = "wrap_tail" => tail' = tail - Length /\ next = "copy" /\ head' = head
          /\ now = "wrap_head" => head' = head - Length /\ next = "not_empty" /\ tail' = tail
          /\ UNCHANGED <<empty, buffer, time>>
      BY <1>6, <2>4, ImuAccess
    <3>2. UNCHANGED <<Hd, Tl>>
      BY <1>3, <2>4, <3>1 DEF Hd, Tl, Settled
    <3>3. UNCHANGED Stored
      BY <3>1, <3>2 DEF Stored
    <3> QED
      BY <2>1, <2>4, <3>1, <3>2, <3>3
  <2>5. CASE now = "copy"
    <3>1. /\ buffer' = [buffer EXCEPT ![head] = time] /\ next = "load_head"
          /\ UNCHANGED <<head, tail, empty, time>>
      BY <1>6, <2>5, ImuAccess
    <3>2. /\ n < Length /\ last_time = time /\ head \in Slots /\ Hd = head
          /\ UNCHANGED <<Hd, Tl>>
      BY <1>3, <2>5, <3>1 DEF Hd, Tl
    <3>3. Stored' = n
      BY <3>1, <3>2 DEF Stored
    <3>4. ASSUME NEW i \in Slots, i < n
          PROVE  buffer'[Place(Tl, i)] = buffer[Place(Tl, i)]
      <4>1. Place(Tl, i) # Hd
        <5>1. Hd # Tl
          <6>1. n # Length /\ n # 0
            BY <1>1, <3>2, <3>4 DEF Slots
          <6>2. Hd = Tl /\ empty => n = 0
            BY DEF Stored
          <6> QED
            BY <1>2, <6>1, <6>2
        <5>2. n \in Slots /\ Place(Tl, n) = Hd
          BY <1>1, <5>1, Places DEF Stored
        <5> QED
          BY <1>1, <3>4, <5>2, Places DEF Slots
      <4> QED
        BY <1>1, <3>1, <3>2, <3>4, <4>1, Places
    <3>5. Sorted(buffer, Tl, n) /\ Before(buffer, Tl, n, time)
      BY <2>5, <3>2
    <3>6. Sorted(buffer', Tl, n) /\ Before(buffer', Tl, n, time)
      <4>1. \A i, j \in Slots : i < j /\ j < n => i < n
        BY <1>1 DEF Slots
      <4> QED
        BY <3>4, <3>5, <4>1
    <3>7. buffer'[head] = time
      BY <1>1, <3>1, <3>2
    <3> QED
      BY <2>1, <2>5, <3>1, <3>2, <3>3, <3>6, <3>7
  <2>6. CASE now = "store_head"
    <3>1. /\ head' = reg /\ next = "test_head"
          /\ UNCHANGED <<tail, empty, buffer, time>>
      BY <1>6, <2>6, ImuAccess
    <3>2. /\ reg = head + 1 /\ n < Length /\ last_time = time /\ buffer[Hd] = time
          /\ head \in Slots /\ Hd = head /\ (empty => Hd = Tl)
      BY <1>3, <2>6
    <3>3. Hd' = Ring!Incremented(Hd) /\ Tl' = Tl
      BY <1>4, <3>1, <3>2 DEF Tl, Hd
    <3>4. n \in Slots /\ Place(Tl, n) = Hd
      <4>1. CASE Hd = Tl
        <5>1. n = 0 /\ 0 \in Slots
          BY <1>1, <1>2, <3>2, <4>1 DEF Stored, Slots
        <5> QED
          BY <1>1, <4>1, <5>1, Places
      <4>2. CASE Hd # Tl
        BY <1>1, <4>2, Places DEF Stored
      <4> QED
        BY <4>1, <4>2
    <3>5. Stored' = n + 1
      <4>1. CASE Hd = Tl
        <5>1. empty /\ n = 0
          BY <1>1, <1>2, <3>2, <4>1 DEF Stored
        <5>2. Hd' # Tl' /\ Ahead(Hd', Tl') = 1
          BY <1>1, <3>3, <4>1, Places
        <5> QED
          BY <5>1, <5>2 DEF Stored
      <4>2. CASE Hd # Tl
        <5>1. ~empty /\ Ahead(Hd', Tl') = n + 1
          BY <1>1, <3>2, <3>3, <4>2, Places DEF Stored
        <5> QED
          BY <3>1, <5>1 DEF Stored
      <4> QED
        BY <4>1, <4>2
    <3>6. Sorted(buffer, Tl, n) /\ Before(buffer, Tl, n, time)
      BY <2>6, <3>2
    <3>7. Sorted(buffer, Tl, n + 1) /\ Before(buffer, Tl, n + 1, time + 1)
      BY <1>1, <3>2, <3>4, <3>6, Appends
    <3>8. Stored' > 0
      BY <1>1, <3>5
    <3> QED
      BY <2>1, <2>6, <3>1, <3>2, <3>3, <3>5, <3>7, <3>8
  <2>7. CASE now = "not_empty"
    <3>1. empty' = FALSE /\ UNCHANGED <<head, tail, buffer>> /\ next = "rest" /\ n > 0
      BY <1>6, <2>7, ImuAccess
    <3>2. UNCHANGED <<Hd, Tl>>
      BY <3>1 DEF Hd, Tl
    <3>3. Stored' = n
      BY <3>1, <3>2 DEF Stored
    <3> QED
      BY <2>1, <2>7, <3>1, <3>2, <3>3
  <2> HIDE DEF Order, now
  <2>8. now \in Dated \cup Passed
    BY <1>6, <1>15, ImuSteps DEF now
  <2> QED
    BY <2>2, <2>3, <2>4, <2>5, <2>6, <2>7, <2>8 DEF Dated, Writing, Passed
<1> HIDE DEF now, next, Order, Dated, Writing, Passed, Sorted, Before
<1> QED
  BY <1>6, <1>11, <1>12, <1>13, <1>14, <1>15, ImuAccess DEF now, next

-----------------------------------------------------------------------------
(* A clean start: nothing is recorded and nobody else is at work until t   *)
(* has cleared the buffer, the timestamp of the last sample included.      *)
Fresh(t) ==
  /\ ~recording /\ Idle("imu") /\ \A u \in Starters \ {t} : at[u] \notin StartAccesses
  /\ at[t] \in {"tail_0", "empty", "reset", "record"} => head = 0
  /\ at[t] \in {"empty", "reset", "record"} => tail = 0
  /\ at[t] \in {"reset", "record"} => empty
CleanInv ==
  clean => /\ ~spilled
           /\ IF Starting THEN \A t \in Starters : at[t] \in StartAccesses => Fresh(t)
              ELSE Length > 1 => Order

TimesInv == TypeInv /\ CleanInv

(* An empty buffer is in order.                                            *)
LEMMA EmptyIsInOrder ==
  ASSUME Idle("imu"), head = 0, tail = 0, empty
  PROVE  Order
<1>1. Hd = Tl /\ Stored = 0 /\ at["imu"] = "rest"
  BY DEF Stored, Hd, Tl, Idle
<1>2. \A j \in Slots : ~(j < 0)
  BY RecorderAssumption DEF Slots
<1> QED
  BY <1>1, <1>2 DEF Order, Sorted, Before, Dated, Writing, Passed

(* A clean recording stays one: while its start is going on nobody         *)
(* samples, and from its last access on the samples are in order.          *)
LEMMA CleanKept ==
  ASSUME TypeInv, CleanInv, [Next]_vars
  PROVE  CleanInv'
<1>1. AtInv /\ AtInv'
  BY Moves DEF TypeInv
<1> SUFFICES ASSUME clean'
             PROVE  /\ ~spilled'
                    /\ IF Starting' THEN \A t \in Starters : at'[t] \in StartAccesses => Fresh(t)'
                       ELSE Length > 1 => Order'
  BY DEF CleanInv
<1>2. CASE Imu
  <2>1. clean /\ ~spilled' /\ ~spilled /\ \A u \in Starters : at'[u] = at[u]
    <3>1. UNCHANGED <<clean, spilled>> /\ \A u \in Starters : at'[u] = at[u]
      BY <1>1, <1>2, ImuAccess
    <3> QED
      BY <3>1 DEF CleanInv
  <2>2. ~Starting
    <3>1. recording \/ ~Idle("imu")
      BY <1>1, <1>2, ImuAccess DEF Sample, Idle
    <3> QED
      BY <2>1, <3>1 DEF CleanInv, Starting, Fresh, Starters
  <2>3. Length > 1 => Order'
    BY <1>2, <2>1, <2>2, OrderKept DEF CleanInv
  <2> QED
    BY <2>1, <2>2, <2>3 DEF Starting, Starters
<1>3. CASE \E t \in Starters : StartRecording(t)
  <2>1. PICK t \in Starters : StartRecording(t)
    BY <1>3
  <2>2. /\ clean /\ at[t] \in StartAccesses
        /\ \A u \in Threads \ {t} : at'[u] = at[u]
    BY <1>1, <2>1, StartWalks
  <2>3. Fresh(t) /\ ~spilled
    BY <2>2 DEF CleanInv, Starting, Starters
  <2>4. /\ at["imu"] = "rest" /\ at'["imu"] = "rest"
        /\ \A u \in Starters \ {t} : at'[u] \notin StartAccesses
    BY <2>2, <2>3 DEF Fresh, Idle, Threads, Starters
  <2>5. ~spilled'
    BY <1>1, <2>1, <2>3, <2>4, StartWalks
  <2>6. CASE at[t] # "record"
    <3>1. at'[t] \in StartAccesses /\ Fresh(t)'
      BY <1>1, <2>1, <2>3, <2>4, <2>6, StartWalks DEF Fresh, Idle, StartAccesses
    <3> QED
      BY <2>4, <2>5, <3>1 DEF Starting, Starters
  <2>7. CASE at[t] = "record"
    <3>1. at'[t] = "rest" /\ UNCHANGED <<head, tail, empty>>
      BY <1>1, <2>1, <2>7, StartWalks
    <3>2. head' = 0 /\ tail' = 0 /\ empty' /\ Idle("imu")'
      BY <2>3, <2>4, <2>7, <3>1 DEF Fresh, Idle
    <3>3. Order'
      <4>1. (Hd = Tl /\ Stored = 0)' /\ at'["imu"] = "rest"
        BY <3>2 DEF Stored, Hd, Tl, Idle
      <4>2. \A j \in Slots : ~(j < 0)
        BY RecorderAssumption DEF Slots
      <4> QED
        BY <4>1, <4>2 DEF Order, Sorted, Before, Dated, Writing, Passed
    <3>4. ~Starting'
      BY <2>4, <3>1 DEF Starting, Starters, StartAccesses
    <3> QED
      BY <2>5, <3>3, <3>4
  <2> QED
    BY <2>6, <2>7
<1>4. CASE /\ \E t \in Starters : Starts(t)
           /\ UNCHANGED <<recording, decimation_counter, last_time, ring, imu>>
  <2>1. PICK t \in Starters : Starts(t)
    BY <1>4
  <2>2. /\ at'[t] = "head_0" /\ \A u \in Threads \ {t} : at'[u] = at[u]
    BY <1>1, <2>1, StartBegins
  <2>3. ~recording /\ ~Starting /\ at["imu"] = "rest"
    BY <2>1 DEF Starts, Idle
  <2>4. ~spilled'
    BY <1>4, <2>3 DEF TypeInv, WrapInv, imu
  <2>5. \A u \in Starters \ {t} : at'[u] \notin StartAccesses
    BY <2>2, <2>3 DEF Starting, Starters, Threads
  <2>6. ~recording' /\ at'["imu"] = "rest"
    BY <1>4, <2>2, <2>3 DEF Threads, Starters
  <2> QED
    BY <2>2, <2>4, <2>5, <2>6 DEF Starting, StartAccesses, Fresh, Idle, Starters
<1> DEFINE Elsewhere ==
             /\ UNCHANGED <<decimation_counter, last_time, ring, imu, clean>>
             /\ at'["imu"] = at["imu"]
             /\ \A u \in Starters :
                  at'[u] = at[u] \/ (at[u] \notin StartAccesses /\ at'[u] \notin StartAccesses)
             /\ recording' = FALSE \/ UNCHANGED recording
<1>5. CASE Elsewhere
  <2>1. clean /\ UNCHANGED <<head, tail, empty, buffer, time, reg, spilled, last_time>>
    BY <1>5 DEF ring, imu
  <2>2. UNCHANGED <<Hd, Tl, Stored>> /\ Starting' = Starting
    BY <1>5, <2>1 DEF Stored, Hd, Tl, Starting, Starters
  <2>3. Order => Order'
    BY <1>5, <2>1, <2>2 DEF Order, Sorted, Before, Dated, Writing, Passed
  <2>4. \A t \in Starters : /\ at'[t] \in StartAccesses => at[t] \in StartAccesses
                            /\ at'[t] \in StartAccesses /\ Fresh(t) => Fresh(t)'
    BY <1>5, <2>1 DEF Fresh, Idle
  <2> QED
    BY <2>1, <2>2, <2>3, <2>4 DEF CleanInv
<1>6. HeaderStep => Elsewhere
  BY <1>1, HeaderWalks DEF Starters, HeaderReads, StartAccesses
<1>7. /\ UNCHANGED <<decimation_counter, last_time, ring, imu, at, clean>>
      /\ recording' = FALSE \/ UNCHANGED recording
      => Elsewhere
  OBVIOUS
<1> HIDE DEF Elsewhere
<1> QED
  BY <1>1, <1>2, <1>3, <1>4, <1>5, <1>6, <1>7, Moves

(* The order of the slots is that of what circular_buffer_get returns.     *)
LEMMA IncreasingWhenInOrder == TimesInv => TimesIncrease
<1> SUFFICES ASSUME TimesInv, clean, ~Starting PROVE Increasing(Ring!Contents)
  BY DEF TimesIncrease
<1> USE RecorderAssumption
<1>1. /\ TypeInv /\ ~spilled /\ (Length > 1 => Order)
      /\ head \in 0 .. Length /\ tail \in 0 .. Length
  BY SettledSlots DEF TimesInv, CleanInv
<1>2. Ring!Size \in 0 .. Length
  BY <1>1, SizeIsDifference
<1>3. SUFFICES ASSUME NEW i \in 1 .. Ring!Size, NEW j \in 1 .. Ring!Size, i < j
               PROVE  Ring!Contents[i] < Ring!Contents[j]
  BY <1>2 DEF Increasing, Ring!Contents
<1>4. Length > 1 /\ i - 1 \in Slots /\ j - 1 \in Slots /\ i - 1 < j - 1
  BY <1>2, <1>3 DEF Slots
<1>5. Order
  BY <1>1, <1>4
<1>6. /\ tail \in Slots \/ (tail = Length /\ at["imu"] \in {"test_tail", "wrap_tail"})
      /\ head \in Slots \/ (head = Length /\ at["imu"] \in {"test_head", "wrap_head"})
  BY <1>1 DEF TypeInv, TypeOK
<1>7. Ring!Size = Stored
  <2>1. /\ at["imu"] \in Passed => Stored > 0
        /\ at["imu"] \in Writing => Stored < Length
    BY <1>5 DEF Order
  <2>2. Stored = IF Hd = Tl /\ empty THEN 0 ELSE Ahead(Hd, Tl)
    BY DEF Stored
  <2>3. CASE head = Length
    <3>1. tail \in Slots /\ Hd = 0 /\ Tl = tail /\ Stored > 0
      BY <1>6, <2>1, <2>3 DEF Hd, Tl, Settled, Slots, Passed
    <3>2. Ring!Size = Length - tail
      BY <1>1, <2>3, <3>1, SizeIsDifference DEF Slots
    <3> QED
      BY <2>2, <3>1, <3>2 DEF Ahead, Slots
  <2>4. CASE tail = Length
    <3>1. head \in Slots /\ Hd = head /\ Tl = 0 /\ Stored < Length
      BY <1>6, <2>1, <2>4 DEF Hd, Tl, Settled, Slots, Writing
    <3>2. Ring!Size = head
      BY <1>1, <2>4, <3>1, SizeIsDifference DEF Slots
    <3> QED
      BY <2>2, <3>1, <3>2 DEF Ahead, Slots
  <2>5. CASE head \in Slots /\ tail \in Slots
    <3>1. Hd = head /\ Tl = tail
      BY <2>5 DEF Hd, Tl, Settled, Slots
    <3> QED
      BY <1>1, <2>2, <3>1, SizeIsDifference DEF Ahead
  <2> QED
    BY <1>6, <2>3, <2>4, <2>5
<1>8. /\ Ring!Contents[i] = buffer[Ring!Slot(i - 1)]
      /\ Ring!Contents[j] = buffer[Ring!Slot(j - 1)]
  BY <1>2 DEF Ring!Contents
<1>9. \A k \in Slots : Ring!Slot(k) = Place(Tl, k)
  BY <1>1, <1>6 DEF Ring!Slot, Place, Tl, Settled, Slots
<1>10. Sorted(buffer, Tl, Stored)
  BY <1>5 DEF Order
<1> QED
  BY <1>2, <1>3, <1>4, <1>7, <1>8, <1>9, <1>10 DEF Sorted

(* Spec => []TimesIncrease: the timestamps of a recording that was started *)
(* cleanly strictly increase for every size of the buffer, also of samples *)
(* that share a tick and also when the oldest ones are overwritten.        *)
THEOREM TimestampsIncrease == Spec => []TimesIncrease
<1>1. Init => TimesInv
  <2> SUFFICES ASSUME Init PROVE TimesInv
    OBVIOUS
  <2>1. TypeInv
    BY InitialState
  <2>2. Order /\ ~Starting /\ ~spilled
    BY <2>1, EmptyIsInOrder DEF Init, Idle, Starting, StartAccesses, Threads
  <2> QED
    BY <2>1, <2>2 DEF TimesInv, CleanInv
<1>2. TimesInv /\ [Next]_vars => TimesInv'
  BY TypeKept, CleanKept DEF TimesInv
<1> QED
  BY <1>1, <1>2, IncreasingWhenInOrder, PTL DEF Spec

-----------------------------------------------------------------------------
(* A push that a start cleared the buffer under.  The index the callback   *)
(* is about to store is the one after the head, or the buffer was cleared  *)
(* since, or the tail was set to 0 after the buffer was found full.        *)
StartAt(accesses) == \E t \in Starters : at[t] \in accesses
Clearing == {"head_0", "tail_0", "empty"}
Cleared ==
  /\ head = 0
  /\ tail = 0 \/ StartAt({"head_0", "tail_0"})
  /\ empty \/ StartAt(Clearing)
TailLeft == tail = 0 /\ (empty \/ StartAt(Clearing))
RegInv ==
  /\ at["imu"] = "load_tail" => head = tail \/ Cleared \/ TailLeft
  /\ at["imu"] = "store_tail"
       => \/ Settled(reg) = Ring!Incremented(Hd) \/ Cleared
          \/ TailLeft /\ Settled(reg) = Ring!Incremented(0)
  /\ at["imu"] = "store_head" => Settled(reg) = Ring!Incremented(Hd) \/ Cleared
  /\ at["imu"] \in Writing /\ Length > 1 => Hd # Tl \/ empty \/ StartAt(Clearing)

\* What will be stored when the push that is going on is done.
Final ==
  CASE at["imu"] = "load_tail" -> Ahead(Ring!Incremented(Hd), Ring!Incremented(Tl))
    [] at["imu"] = "store_tail" -> Ahead(Ring!Incremented(Hd), Settled(reg))
    [] at["imu"] \in {"test_tail", "wrap_tail", "copy", "load_head"} ->
         Ahead(Ring!Incremented(Hd), Tl)
    [] at["imu"] = "store_head" -> Ahead(Settled(reg), Tl)
    [] at["imu"] \in Passed -> Ahead(Hd, Tl)
    [] OTHER -> Stored

(* A header that still counts was sent with no start under way and the     *)
(* recording off, and promised no more than what will be stored; data that *)
(* were requested since found the callback at rest.                        *)
DownInv ==
  /\ promised \in Int /\ overtold \in BOOLEAN
  /\ promised >= 0 => ~recording /\ ~Starting
  /\ promised >= 0 /\ ~spilled =>
       /\ at["cmd"] \in HeaderReads \/ overtold \/ promised <= Final
       /\ at["cmd"] = "was_full" => Length <= Final
  /\ fetching => promised > 0 /\ Idle("imu") /\ Idle("cmd")

DownloadInv == TypeInv /\ (~spilled => RegInv) /\ DownInv

(* RegInv however a push and the starts are interleaved.                   *)
LEMMA RegKept ==
  ASSUME TypeInv, TypeInv', ~spilled, ~spilled', RegInv, [Next]_vars
  PROVE  RegInv'
<1> DEFINE now == at["imu"]
           next == at'["imu"]
<1>1. /\ AtInv
      /\ now \notin {"test_head", "wrap_head"} => head \in Slots /\ Hd = head
      /\ now \notin {"test_tail", "wrap_tail"} => tail \in Slots /\ Tl = tail
      /\ now = "wrap_tail" => tail = Length
      /\ now = "wrap_head" => head = Length
  BY SettledSlots DEF TypeInv, WrapInv
<1>2. \A i \in Slots : /\ Settled(i + 1) = Ring!Incremented(i)
                       /\ Length > 1 => Ring!Incremented(i) # i
  BY RecorderAssumption, Places DEF Slots, Settled, Ring!Incremented
<1>3. CASE Imu
  <2>1. \A accesses : StartAt(accesses)' = StartAt(accesses)
    BY <1>1, <1>3, ImuAccess DEF StartAt
  <2>2. CASE now \in {"rest", "count", "stamp", "keep_time", "copy", "test_tail", "test_head"}
    <3>1. UNCHANGED <<head, tail, empty>>
      BY <1>1, <1>3, <2>2, ImuAccess DEF Sample, Count, Stamp, KeepTime, ring
    <3>2. /\ now \in {"rest", "count", "stamp", "keep_time"}
               => next \in {"rest", "count", "stamp", "keep_time", "push"}
          /\ now = "copy" => next = "load_head"
          /\ now = "test_tail" => next \in {"wrap_tail", "copy"}
          /\ now = "test_head" => next \in {"wrap_head", "not_empty"}
      BY <1>1, <1>3, ImuAccess
    <3> QED
      BY <2>1, <2>2, <3>1, <3>2 DEF RegInv, Writing, Hd, Tl
  <2>3. CASE now = "push"
    <3>1. /\ UNCHANGED <<head, tail, empty>>
          /\ next = IF ~empty /\ head = tail THEN "load_tail" ELSE "copy"
      BY <1>1, <1>3, <2>3, ImuAccess DEF ring
    <3>2. CASE ~empty /\ head = tail
      BY <3>1, <3>2 DEF RegInv, Writing
    <3>3. CASE ~(~empty /\ head = tail)
      <4>1. empty' \/ Hd' # Tl'
        BY <1>1, <2>3, <3>1, <3>3 DEF Hd, Tl
      <4>2. next = "copy"
        BY <3>1, <3>3, Zenon
      <4> QED
        BY <4>1, <4>2 DEF RegInv
    <3> QED
      BY <3>2, <3>3
  <2>4. CASE now = "load_tail"
    <3>1. UNCHANGED <<head, tail, empty>> /\ next = "store_tail" /\ reg' = tail + 1
      BY <1>1, <1>3, <2>4, ImuAccess DEF ring
    <3>2. head = tail => Settled(reg') = Ring!Incremented(Hd)
      BY <1>1, <1>2, <2>4, <3>1
    <3>3. (Cleared => Cleared') /\ (TailLeft => TailLeft')
      BY <2>1, <3>1 DEF Cleared, TailLeft
    <3>4. TailLeft => Settled(reg') = Ring!Incremented(0)
      BY <1>1, <1>2, <2>4, <3>1 DEF TailLeft
    <3> QED
      BY <2>4, <3>1, <3>2, <3>3, <3>4 DEF RegInv, Writing, Hd
  <2>5. CASE now = "store_tail"
    <3>1. UNCHANGED <<head, empty>> /\ next = "test_tail" /\ tail' = reg
      BY <1>1, <1>3, <2>5, ImuAccess DEF ring
    <3>2. CASE Settled(reg) = Ring!Incremented(Hd)
      <4>1. Length > 1 => Hd' # Tl'
        BY <1>1, <1>2, <2>5, <3>1, <3>2 DEF Hd, Tl
      <4> QED
        BY <3>1, <4>1 DEF RegInv
    <3>3. CASE Cleared
      BY <2>1, <3>1, <3>3 DEF RegInv, Cleared
    <3>4. CASE TailLeft
      BY <2>1, <3>1, <3>4 DEF RegInv, TailLeft
    <3> QED
      BY <2>5, <3>2, <3>3, <3>4 DEF RegInv
  <2>6. CASE now \in {"wrap_tail", "wrap_head"}
    <3>1. /\ now = "wrap_tail" => tail' = tail - Length /\ next = "copy" /\ head' = head
          /\ now = "wrap_head" => head' = head - Length /\ next = "not_empty" /\ tail' = tail
          /\ UNCHANGED empty
      BY <1>1, <1>3, <2>6, ImuAccess
    <3>2. UNCHANGED <<Hd, Tl>>
      BY <1>1, <2>6, <3>1, RecorderAssumption DEF Hd, Tl, Settled
    <3> QED
      BY <2>1, <2>6, <3>1, <3>2 DEF RegInv, Writing
  <2>7. CASE now = "load_head"
    <3>1. UNCHANGED <<head, tail, empty>> /\ next = "store_head" /\ reg' = head + 1
      BY <1>1, <1>3, <2>7, ImuAccess DEF ring
    <3>2. Settled(reg') = Ring!Incremented(Hd')
      BY <1>1, <1>2, <2>7, <3>1 DEF Hd
    <3> QED
      BY <2>1, <2>7, <3>1, <3>2 DEF RegInv, Writing, Hd, Tl
  <2>8. CASE now \in {"store_head", "not_empty"}
    <3>1. next \in {"test_head", "rest"}
      BY <1>1, <1>3, <2>8, ImuAccess
    <3> QED
      BY <3>1 DEF RegInv, Writing
  <2>9. now \in {"rest"} \cup ImuAccesses
    BY <1>1 DEF AtInv
  <2> QED
    BY <2>2, <2>3, <2>4, <2>5, <2>6, <2>7, <2>8, <2>9 DEF ImuAccesses
<1>4. CASE \E t \in Starters : StartRecording(t)
  <2>1. PICK t \in Starters : StartRecording(t)
    BY <1>4
  <2>2. /\ reg' = reg /\ next = now
        /\ \A u \in Starters \ {t} : at'[u] = at[u]
    BY <1>1, <2>1, StartWalks DEF Threads, Starters
  <2>3. CASE at[t] = "head_0"
    <3>1. at'[t] = "tail_0" /\ head' = 0
      BY <1>1, <2>1, <2>3, StartWalks
    <3>2. \E u \in Starters : at'[u] = "tail_0"
      BY <3>1
    <3> QED
      BY <2>2, <3>1, <3>2 DEF RegInv, Cleared, StartAt, Clearing
  <2>4. CASE at[t] = "tail_0"
    <3>1. at'[t] = "empty" /\ tail' = 0 /\ head' = head
      BY <1>1, <2>1, <2>4, StartWalks
    <3>2. \E u \in Starters : at'[u] = "empty"
      BY <3>1
    <3>3. Cleared => Cleared'
      BY <3>1, <3>2 DEF Cleared, StartAt, Clearing
    <3>4. TailLeft'
      BY <3>1, <3>2 DEF TailLeft, StartAt, Clearing
    <3> QED
      BY <2>2, <3>1, <3>2, <3>3, <3>4 DEF RegInv, StartAt, Clearing, Hd
  <2>5. CASE at[t] = "empty"
    <3>1. empty' = TRUE /\ UNCHANGED <<head, tail>>
      BY <1>1, <2>1, <2>5, StartWalks
    <3>2. StartAt({"head_0", "tail_0"}) => StartAt({"head_0", "tail_0"})'
      BY <2>2, <2>5 DEF StartAt
    <3>3. (Cleared => Cleared') /\ (TailLeft => TailLeft')
      BY <3>1, <3>2 DEF Cleared, TailLeft
    <3> QED
      BY <2>2, <3>1, <3>3 DEF RegInv, Hd
  <2>6. CASE at[t] \in {"reset", "record"}
    <3>1. UNCHANGED <<head, tail, empty>>
      BY <1>1, <2>1, <2>6, StartWalks
    <3>2. /\ StartAt({"head_0", "tail_0"}) => StartAt({"head_0", "tail_0"})'
          /\ StartAt(Clearing) => StartAt(Clearing)'
      BY <2>2, <2>6 DEF StartAt, Clearing
    <3>3. (Cleared => Cleared') /\ (TailLeft => TailLeft')
      BY <3>1, <3>2 DEF Cleared, TailLeft
    <3> QED
      BY <2>2, <3>1, <3>2, <3>3 DEF RegInv, Hd, Tl
  <2> QED
    BY <1>1, <2>1, <2>3, <2>4, <2>5, <2>6, StartWalks DEF StartAccesses
<1> DEFINE Elsewhere == /\ UNCHANGED <<head, tail, empty, reg>> /\ next = now
                        /\ \A u \in Starters : at'[u] = at[u] \/ at[u] \notin StartAccesses
<1>5. CASE Elsewhere
  <2>1. /\ StartAt({"head_0", "tail_0"}) => StartAt({"head_0", "tail_0"})'
        /\ StartAt(Clearing) => StartAt(Clearing)'
    BY <1>5 DEF StartAt, Clearing, StartAccesses
  <2>2. (Cleared => Cleared') /\ (TailLeft => TailLeft')
    BY <1>5, <2>1 DEF Cleared, TailLeft
  <2> QED
    BY <1>5, <2>1, <2>2 DEF RegInv, Hd, Tl
<1>6. /\ \E t \in Starters : Starts(t)
      /\ UNCHANGED <<recording, decimation_counter, last_time, ring, imu>>
      => Elsewhere
  BY <1>1, StartBegins DEF ring, imu, Threads, Starters, StartAccesses
<1>7. HeaderStep => Elsewhere
  BY <1>1, HeaderWalks DEF ring, imu, Starters, StartAccesses, HeaderReads
<1>8. UNCHANGED <<decimation_counter, last_time, ring, imu, at, clean>> => Elsewhere
  BY DEF ring, imu
<1> HIDE DEF now, next, Elsewhere
<1> QED
  BY <1>1, <1>3, <1>4, <1>5, <1>6, <1>7, <1>8, Moves

(* A push that is going on never ends with fewer samples than were         *)
(* foreseen.                                                               *)
LEMMA FinalGrows ==
  ASSUME TypeInv, ~spilled, Imu
  PROVE  Final' = Final \/ (Final' \in Int /\ Final <= Final')
<1> DEFINE now == at["imu"]
           next == at'["imu"]
<1>1. /\ AtInv /\ Hd \in Slots /\ Tl \in Slots /\ Stored \in 0 .. Length
      /\ now \notin {"test_head", "wrap_head"} => head \in Slots /\ Hd = head
      /\ now \notin {"test_tail", "wrap_tail"} => tail \in Slots /\ Tl = tail
      /\ now = "wrap_tail" => tail = Length
      /\ now = "wrap_head" => head = Length
  BY SettledSlots DEF TypeInv, WrapInv
<1>2. /\ \A i \in Slots : /\ Settled(i + 1) = Ring!Incremented(i)
                          /\ Ring!Incremented(i) \in Slots
      /\ Settled(Length) = 0 /\ Settled(0) = 0 /\ Length - Length = 0
  BY RecorderAssumption DEF Slots, Settled, Ring!Incremented
<1>3. CASE now \in {"rest", "count", "stamp", "keep_time"}
  <2>1. UNCHANGED <<head, tail, empty>>
    BY <1>1, <1>3, ImuAccess DEF Sample, Count, Stamp, KeepTime, ring
  <2>2. next \in {"rest", "count", "stamp", "keep_time", "push"}
    BY <1>1, <1>3, ImuAccess
  <2>3. Final = Stored /\ Final' = Stored'
    BY <1>3, <2>2 DEF Final, Passed
  <2> QED
    BY <2>1, <2>3 DEF Stored, Ahead, Hd, Tl
<1>4. CASE now = "push"
  <2>1. /\ UNCHANGED <<head, tail, empty>>
        /\ next = IF ~empty /\ head = tail THEN "load_tail" ELSE "copy"
    BY <1>1, <1>4, ImuAccess DEF ring
  <2>2. Final = Stored /\ Hd' = Hd /\ Tl' = Tl
    BY <1>4, <2>1 DEF Final, Passed, Hd, Tl
  <2>3. CASE ~empty /\ head = tail
    <3>0. next = "load_tail"
      BY <2>1, <2>3, Zenon
    <3>1. Final' = Ahead(Ring!Incremented(Hd), Ring!Incremented(Tl))
      BY <2>2, <3>0 DEF Final, Passed, Ahead, Ring!Incremented
    <3>2. Final' = Length
      BY <1>1, <1>2, <1>4, <2>3, <3>1, Places
    <3> QED
      BY <1>1, <2>2, <3>2, RecorderAssumption
  <2>4. CASE ~(~empty /\ head = tail)
    <3>1. next = "copy"
      BY <2>1, <2>4, Zenon
    <3>2. Final' = Ahead(Ring!Incremented(Hd), Tl)
      BY <2>2, <3>1 DEF Final, Passed, Ahead, Ring!Incremented
    <3>3. Ahead(Ring!Incremented(Hd), Tl) \in 1 .. Length
      BY <1>1, <1>2, Places
    <3>4. Stored <= Ahead(Ring!Incremented(Hd), Tl)
      <4>1. CASE Hd = Tl
        <5>1. Stored = 0
          BY <1>1, <1>4, <2>4, <4>1 DEF Stored
        <5> QED
          BY <3>3, <5>1, RecorderAssumption
      <4>2. CASE Hd # Tl
        BY <1>1, <4>2, Places, RecorderAssumption DEF Stored
      <4> QED
        BY <4>1, <4>2
    <3> QED
      BY <2>2, <3>2, <3>3, <3>4, RecorderAssumption
  <2> QED
    BY <2>3, <2>4
<1>5. CASE now = "load_tail"
  <2>1. UNCHANGED <<head, tail, empty>> /\ next = "store_tail" /\ reg' = tail + 1
    BY <1>1, <1>5, ImuAccess DEF ring
  <2>2. Settled(reg') = Ring!Incremented(Tl) /\ Hd' = Hd
    BY <1>1, <1>2, <1>5, <2>1 DEF Hd
  <2>3. Final = Ahead(Ring!Incremented(Hd), Ring!Incremented(Tl))
    BY <1>5 DEF Final, Passed
  <2>4. Final' = Ahead(Ring!Incremented(Hd), Ring!Incremented(Tl))
    BY <2>1, <2>2 DEF Final, Passed, Ahead, Ring!Incremented
  <2> QED
    BY <2>3, <2>4
<1>6. CASE now = "store_tail"
  <2>1. head' = head /\ tail' = reg /\ next = "test_tail"
    BY <1>1, <1>6, ImuAccess
  <2>2. Hd' = Hd /\ Tl' = Settled(reg)
    BY <2>1 DEF Hd, Tl, Settled
  <2> QED
    BY <1>6, <2>1, <2>2 DEF Final, Passed, Ahead, Ring!Incremented
<1>7. CASE now \in {"test_tail", "copy"}
  <2>1. UNCHANGED <<head, tail>> /\ next \in {"wrap_tail", "copy", "load_head"}
    BY <1>1, <1>7, ImuAccess DEF ring
  <2>2. Hd' = Hd /\ Tl' = Tl
    BY <2>1 DEF Hd, Tl
  <2> QED
    BY <1>7, <2>1, <2>2 DEF Final, Passed, Ahead, Ring!Incremented
<1>8. CASE now = "wrap_tail"
  <2>1. head' = head /\ tail' = tail - Length /\ next = "copy"
    BY <1>1, <1>8, ImuAccess
  <2>2. Hd' = Hd /\ Tl' = Tl
    BY <1>1, <1>2, <1>8, <2>1 DEF Hd, Tl
  <2> QED
    BY <1>8, <2>1, <2>2 DEF Final, Passed, Ahead, Ring!Incremented
<1>9. CASE now = "load_head"
  <2>1. UNCHANGED <<head, tail, empty>> /\ next = "store_head" /\ reg' = head + 1
    BY <1>1, <1>9, ImuAccess DEF ring
  <2>2. Settled(reg') = Ring!Incremented(Hd) /\ Tl' = Tl
    BY <1>1, <1>2, <1>9, <2>1 DEF Tl
  <2>3. Final = Ahead(Ring!Incremented(Hd), Tl)
    BY <1>9 DEF Final, Passed
  <2>4. Final' = Ahead(Ring!Incremented(Hd), Tl)
    BY <2>1, <2>2 DEF Final, Passed, Ahead
  <2> QED
    BY <2>3, <2>4
<1>10. CASE now = "store_head"
  <2>1. tail' = tail /\ head' = reg /\ next = "test_head"
    BY <1>1, <1>10, ImuAccess
  <2>2. Tl' = Tl /\ Hd' = Settled(reg)
    BY <2>1 DEF Hd, Tl, Settled
  <2> QED
    BY <1>10, <2>1, <2>2 DEF Final, Ahead, Passed
<1>11. CASE now = "test_head"
  <2>1. UNCHANGED <<head, tail>> /\ next \in {"wrap_head", "not_empty"}
    BY <1>1, <1>11, ImuAccess DEF ring
  <2>2. Hd' = Hd /\ Tl' = Tl
    BY <2>1 DEF Hd, Tl
  <2> QED
    BY <1>11, <2>1, <2>2 DEF Final, Ahead, Passed
<1>12. CASE now = "wrap_head"
  <2>1. tail' = tail /\ head' = head - Length /\ next = "not_empty"
    BY <1>1, <1>12, ImuAccess
  <2>2. Hd' = Hd /\ Tl' = Tl
    BY <1>1, <1>2, <1>12, <2>1 DEF Hd, Tl
  <2> QED
    BY <1>12, <2>1, <2>2 DEF Final, Ahead, Passed
<1>13. CASE now = "not_empty"
  <2>1. empty' = FALSE /\ UNCHANGED <<head, tail>> /\ next = "rest"
    BY <1>1, <1>13, ImuAccess
  <2>2. Hd' = Hd /\ Tl' = Tl
    BY <2>1 DEF Hd, Tl
  <2>3. Final = Ahead(Hd, Tl)
    BY <1>13 DEF Final, Passed
  <2>4. Final' = Stored' /\ Stored' = Ahead(Hd', Tl')
    BY <2>1 DEF Final, Passed, Stored, Ahead
  <2>5. Ahead(Hd', Tl') = Ahead(Hd, Tl)
    BY <2>2 DEF Ahead
  <2> QED
    BY <2>3, <2>4, <2>5
<1>14. now \in {"rest"} \cup ImuAccesses
  BY <1>1 DEF AtInv
<1> QED
  BY <1>3, <1>4, <1>5, <1>6, <1>7, <1>8, <1>9, <1>10, <1>11, <1>12, <1>13, <1>14
     DEF ImuAccesses

(* No start being under way, the push that is going on adds to what is     *)
(* stored (or replaces the oldest), so that a header promises no more than *)
(* there will be.                                                          *)
LEMMA StoredIsLessThanFinal ==
  ASSUME TypeInv, ~spilled, RegInv, ~Starting
  PROVE  Stored <= Final /\ Final \in Int
<1> DEFINE now == at["imu"]
<1>1. /\ Hd \in Slots /\ Tl \in Slots /\ Stored \in 0 .. Length
      /\ now \notin {"test_head", "wrap_head"} => Hd = head
      /\ now \notin {"test_tail", "wrap_tail"} => Tl = tail
  BY SettledSlots
<1>2. /\ \A i \in 0 .. Length : Settled(i) \in Slots
      /\ Settled(0) = 0 /\ reg \in 0 .. Length /\ 0 \in Slots
  BY RecorderAssumption DEF Slots, Settled, TypeInv, TypeOK
<1>3. /\ Length \in Nat \ {0} /\ Ring!Incremented(Hd) \in Slots
      /\ Ahead(Hd, Tl) \in 1 .. Length
      /\ Ahead(Ring!Incremented(Hd), Ring!Incremented(Tl)) = Ahead(Hd, Tl)
      /\ Ahead(Ring!Incremented(Hd), Ring!Incremented(Hd)) = Length
      /\ Ahead(Ring!Incremented(Hd), Tl) \in 1 .. Length
      /\ Hd # Tl => Ahead(Ring!Incremented(Hd), Tl) = Ahead(Hd, Tl) + 1
      /\ Ahead(Ring!Incremented(Hd), Settled(reg)) \in 1 .. Length
      /\ Ahead(Settled(reg), Tl) \in 1 .. Length
  <2>1. Settled(reg) \in Slots /\ Ring!Incremented(Hd) \in Slots
    BY <1>1, <1>2, IncrementedStays
  <2>2. Ahead(Ring!Incremented(Hd), Ring!Incremented(Tl)) = Ahead(Hd, Tl)
    BY <1>1, RecorderAssumption DEF Slots, Ahead, Ring!Incremented
  <2> QED
    BY <1>1, <2>1, <2>2, Places, RecorderAssumption
<1>4. Stored <= Ahead(Hd, Tl)
  <2>1. CASE Hd = Tl /\ empty
    BY <1>3, <2>1 DEF Stored
  <2>2. CASE ~(Hd = Tl /\ empty)
    BY <1>3, <2>2 DEF Stored
  <2> QED
    BY <2>1, <2>2
<1>5. ~StartAt(Clearing) /\ ~StartAt({"head_0", "tail_0"})
  BY DEF StartAt, Clearing, Starting, StartAccesses, Starters
<1>6. Cleared => Stored = 0
  <2>1. Cleared => head = 0 /\ tail = 0 /\ empty
    BY <1>5 DEF Cleared
  <2> QED
    BY <2>1 DEF Stored, Hd, Tl
<1>7. CASE now = "load_tail"
  <2>1. Final = Ahead(Ring!Incremented(Hd), Ring!Incremented(Tl))
    BY <1>7 DEF Final, Passed
  <2> QED
    BY <1>1, <1>3, <1>4, <2>1
<1>8. CASE now = "store_tail"
  <2>1. Final = Ahead(Ring!Incremented(Hd), Settled(reg))
    BY <1>8 DEF Final, Passed
  <2>2. CASE Settled(reg) = Ring!Incremented(Hd)
    BY <1>1, <1>3, <2>1, <2>2, RecorderAssumption
  <2>3. CASE Cleared
    BY <1>1, <1>2, <1>3, <1>6, <2>1, <2>3, RecorderAssumption
  <2>4. CASE TailLeft /\ Settled(reg) = Ring!Incremented(0)
    <3>1. Tl = 0
      BY <1>1, <1>8, <2>4 DEF TailLeft
    <3> QED
      BY <1>1, <1>2, <1>3, <1>4, <2>1, <2>4, <3>1
  <2> QED
    BY <1>8, <2>2, <2>3, <2>4 DEF RegInv
<1>9. CASE now \in Writing
  <2>1. CASE Cleared
    <3>1. \/ Final = Ahead(Ring!Incremented(Hd), Tl)
          \/ Final = Ahead(Settled(reg), Tl)
      BY <1>9 DEF Final, Passed, Writing
    <3> QED
      BY <1>1, <1>2, <1>3, <1>6, <2>1, <3>1, RecorderAssumption
  <2>2. CASE ~Cleared
    <3>1. Final = Ahead(Ring!Incremented(Hd), Tl)
      BY <1>9, <2>2 DEF Final, Passed, Writing, RegInv
    <3>2. Ahead(Ring!Incremented(Hd), Tl) \in 1 .. Length
      BY <1>1, <1>3
    <3>3. CASE Hd # Tl
      BY <1>1, <1>3, <1>4, <3>1, <3>2, <3>3, RecorderAssumption
    <3>4. CASE Hd = Tl /\ empty
      BY <3>1, <3>2, <3>4, RecorderAssumption DEF Stored
    <3>5. CASE Length = 1
      BY <1>1, <3>1, <3>2, <3>5
    <3>6. Hd # Tl \/ (Hd = Tl /\ empty) \/ ~(Length > 1)
      BY <1>5, <1>9 DEF RegInv
    <3>7. ~(Length > 1) => Length = 1
      BY RecorderAssumption
    <3> QED
      BY <3>3, <3>4, <3>5, <3>6, <3>7
  <2> QED
    BY <2>1, <2>2
<1>10. CASE now \in Passed
  <2>1. Final = Ahead(Hd, Tl)
    BY <1>10 DEF Final, Passed
  <2> QED
    BY <1>1, <1>3, <1>4, <2>1
<1>11. CASE now \notin {"load_tail", "store_tail"} \cup Writing \cup Passed
  <2>1. Final = Stored
    BY <1>11 DEF Final, Writing, Passed
  <2> QED
    BY <1>1, <2>1, RecorderAssumption
<1> QED
  BY <1>7, <1>8, <1>9, <1>10, <1>11

(* What circular_buffer_size computes of the indices, no start being under *)
(* way, is no more than what will be stored, also if an index is to be     *)
(* wrapped; if they are equal, the buffer is empty or full.                *)
LEMMA SizeIsLessThanFinal ==
  ASSUME TypeInv, ~spilled, RegInv, ~Starting
  PROVE  /\ head # tail => Ring!Size \in Nat /\ Ring!Size <= Final
         /\ head = tail /\ ~empty => Length <= Final
<1> DEFINE now == at["imu"]
<1>1. /\ Hd \in Slots /\ Tl \in Slots /\ Stored \in 0 .. Length
      /\ head \in 0 .. Length /\ tail \in 0 .. Length
      /\ now \notin {"test_head", "wrap_head"} => head \in Slots /\ Hd = head
      /\ now \notin {"test_tail", "wrap_tail"} => tail \in Slots /\ Tl = tail
  BY SettledSlots
<1>2. Stored <= Final /\ Final \in Int
  BY StoredIsLessThanFinal
<1>3. Length \in Nat \ {0} /\ Settled(Length) = 0
  BY RecorderAssumption DEF Settled
<1>4. /\ head \in Slots \/ (head = Length /\ now \in {"test_head", "wrap_head"})
      /\ tail \in Slots \/ (tail = Length /\ now \in {"test_tail", "wrap_tail"})
  BY DEF TypeInv, TypeOK
<1>5. \A i \in Slots : Settled(i) = i /\ i < Length /\ i >= 0
  BY <1>3 DEF Slots, Settled
<1>6. CASE head \in Slots /\ tail \in Slots
  <2>1. Hd = head /\ Tl = tail
    BY <1>5, <1>6 DEF Hd, Tl
  <2>2. head # tail => Ring!Size = Stored
    BY <1>1, <2>1, SizeIsDifference DEF Stored, Ahead
  <2>3. head = tail /\ ~empty => Stored = Length
    BY <1>3, <2>1, <1>1 DEF Stored, Ahead
  <2> QED
    BY <1>1, <1>2, <1>3, <2>2, <2>3
<1>7. CASE head = Length /\ tail \in Slots /\ now \in {"test_head", "wrap_head"}
  <2>1. Hd = 0 /\ Tl = tail /\ head # tail
    BY <1>3, <1>5, <1>7 DEF Hd, Tl
  <2>2. Final = Ahead(Hd, Tl)
    BY <1>7 DEF Final, Passed
  <2>3. Ring!Size = Length - tail /\ Length - tail \in Nat
    BY <1>1, <1>3, <1>5, <1>7, SizeIsDifference
  <2>4. Ahead(Hd, Tl) = Length - tail
    BY <1>1, <1>3, <1>5, <1>7, <2>1 DEF Ahead
  <2> QED
    BY <1>1, <1>3, <2>1, <2>2, <2>3, <2>4
<1>8. CASE tail = Length /\ head \in Slots
  <2>1. Hd = head /\ Tl = 0 /\ head # tail
    BY <1>3, <1>5, <1>8 DEF Hd, Tl
  <2>2. Ring!Size = head
    BY <1>1, <1>3, <1>5, <1>8, SizeIsDifference
  <2>3. head <= Stored
    BY <1>1, <1>5, <2>1 DEF Stored, Ahead
  <2> QED
    BY <1>1, <1>2, <2>1, <2>2, <2>3
<1> QED
  BY <1>4, <1>6, <1>7, <1>8

(* An index that was set to 0 too early never gets right.                  *)
LEMMA SpilledStays ==
  ASSUME TypeInv, [Next]_vars, spilled
  PROVE  spilled'
<1>1. AtInv /\ spilled = TRUE
  BY DEF TypeInv, TypeOK
<1>2. CASE \E t \in Starters : StartRecording(t)
  BY <1>1, <1>2, StartWalks
<1>3. CASE UNCHANGED spilled
  BY <1>3
<1>4. UNCHANGED imu => UNCHANGED spilled
  BY DEF imu
<1> QED
  BY <1>1, <1>2, <1>3, <1>4, Moves, ImuAccess, HeaderWalks

(* DownInv is kept by every step.                                          *)
LEMMA DownloadKept ==
  ASSUME DownloadInv, TypeInv', ~spilled' => RegInv', [Next]_vars
  PROVE  DownloadInv'
<1>1. /\ TypeInv /\ (~spilled => RegInv) /\ DownInv /\ AtInv
      /\ empty \in BOOLEAN /\ Length \in Nat
  BY RecorderAssumption DEF DownloadInv, TypeInv, TypeOK
<1>2. SUFFICES DownInv'
  BY DEF DownloadInv
<1>3. CASE Imu
  <2>1. /\ UNCHANGED <<promised, overtold, fetching, recording, spilled>>
        /\ \A u \in Starters : at'[u] = at[u]
    BY <1>1, <1>3, ImuAccess DEF download
  <2>2. Starting' = Starting /\ at'["cmd"] = at["cmd"]
    BY <2>1 DEF Starting, Starters
  <2>3. fetching => ~(promised >= 0)
    <3>1. ~recording => at["imu"] # "rest"
      BY <1>1, <1>3, ImuAccess DEF Sample
    <3> QED
      BY <1>1, <3>1 DEF DownInv, Idle
  <2>4. ~fetching
    BY <1>1, <2>3 DEF DownInv
  <2>5. CASE promised >= 0 /\ ~spilled
    <3>1. Final \in Int
      BY <1>1, <2>5, StoredIsLessThanFinal DEF DownInv
    <3>2. Final' \in Int /\ Final <= Final'
      BY <1>1, <1>3, <2>5, <3>1, FinalGrows
    <3> QED
      BY <1>1, <2>1, <2>2, <2>4, <2>5, <3>1, <3>2 DEF DownInv
  <2> QED
    BY <1>1, <2>1, <2>2, <2>4, <2>5 DEF DownInv
<1>4. CASE \E t \in Starters : StartRecording(t)
  <2>1. PICK t \in Starters : StartRecording(t)
    BY <1>4
  <2>2. at[t] \in StartAccesses /\ UNCHANGED <<promised, overtold, fetching>>
    BY <1>1, <2>1, StartWalks DEF download
  <2>3. Starting
    BY <2>1, <2>2 DEF Starting, Starters
  <2> QED
    BY <1>1, <2>2, <2>3 DEF DownInv
<1>5. CASE \E t \in Starters : Starts(t)
  <2>1. promised' = -1 /\ overtold' = FALSE /\ fetching' = FALSE
    BY <1>5 DEF Starts
  <2>2. overtold' \in BOOLEAN /\ ~fetching'
    BY <2>1, Zenon
  <2>3. promised' \in Int /\ ~(promised' >= 0)
    BY <2>1
  <2> QED
    BY <2>2, <2>3 DEF DownInv
<1>6. CASE HeaderStep
  <2>1. /\ UNCHANGED <<head, tail, empty, buffer, time, reg, spilled>>
        /\ at["cmd"] \in {"rest"} \cup HeaderReads
        /\ at'["cmd"] \in {"rest"} \cup HeaderReads
        /\ at'["imu"] = at["imu"] /\ at'["main"] = at["main"]
    BY <1>1, <1>6, HeaderWalks DEF ring, imu
  <2>2. Final' = Final
    BY <2>1 DEF Final, Stored, Ahead, Settled, Hd, Tl, Ring!Incremented
  <2>3. Starting' = Starting
    BY <2>1 DEF Starting, StartAccesses, HeaderReads
  <2>4. ~fetching'
    <3>1. CASE SendHeader
      BY <3>1 DEF SendHeader
    <3>2. CASE ReadIndices \/ ReadEmpty
      <4>1. fetching' = fetching /\ at["cmd"] # "rest"
        BY <3>2 DEF ReadIndices, ReadEmpty, Goes
      <4> QED
        BY <1>1, <4>1 DEF DownInv, Idle
    <3> QED
      BY <1>6, <3>1, <3>2 DEF HeaderStep
  <2>5. promised >= 0 /\ ~spilled =>
          /\ head # tail => Ring!Size \in Nat /\ Ring!Size <= Final
          /\ head = tail /\ ~empty => Length <= Final
          /\ 0 <= Final /\ Final \in Int
    <3>1. ASSUME promised >= 0, ~spilled PROVE 0 <= Final /\ Final \in Int
      BY <1>1, <3>1, StoredIsLessThanFinal, SettledSlots DEF DownInv
    <3> QED
      BY <1>1, <3>1, SizeIsLessThanFinal DEF DownInv
  <2>6. CASE SendHeader
    <3>1. /\ recording' = FALSE /\ at["cmd"] = "rest" /\ at'["cmd"] = "indices"
          /\ promised' = IF Idle("main") THEN 0 ELSE -1
          /\ overtold' = FALSE
      <4>1. Goes("cmd", "rest", "indices")
        BY <2>6 DEF SendHeader
      <4> QED
        BY <1>1, <2>6, <4>1, Walks DEF SendHeader, Header, Threads
    <3>2. Idle("main") => ~Starting
      BY <3>1 DEF Idle, Starting, StartAccesses
    <3>3. overtold' \in BOOLEAN /\ ~recording'
      BY <3>1, Zenon
    <3>4. promised' \in Int /\ (promised' >= 0 => ~Starting')
      BY <2>3, <3>1, <3>2
    <3> QED
      BY <2>4, <3>1, <3>3, <3>4 DEF DownInv, HeaderReads
  <2>7. CASE ReadIndices
    <3>1. /\ UNCHANGED <<recording, overtold>>
          /\ at["cmd"] = "indices"
      BY <2>7 DEF ReadIndices, Goes
    <3>2. CASE head # tail
      <4>1. /\ promised' = IF promised < 0 THEN -1 ELSE Ring!Size
            /\ Goes("cmd", "indices", "rest")
        BY <2>7, <3>2 DEF ReadIndices, Promises
      <4>2. at'["cmd"] = "rest"
        BY <1>1, <4>1, Walks DEF Threads
      <4>3. Ring!Size \in Int
        <5>1. head - tail \in Int
          BY <1>1 DEF TypeInv, TypeOK
        <5>2. /\ Ring!Difference \in Int
              /\ (Ring!Difference + Length) % (2 * Length + 1) \in Int
          BY <5>1, RecorderAssumption DEF Ring!Difference
        <5> QED
          BY <1>1, <5>2 DEF Ring!Size
      <4> QED
        BY <1>1, <2>1, <2>2, <2>3, <2>4, <2>5, <3>1, <3>2, <4>1, <4>2, <4>3
           DEF DownInv, HeaderReads
    <3>3. CASE head = tail
      <4>1. /\ promised' = promised
            /\ Goes("cmd", "indices", IF empty THEN "was_empty" ELSE "was_full")
        BY <2>7, <3>3 DEF ReadIndices
      <4>2. at'["cmd"] = IF empty THEN "was_empty" ELSE "was_full"
        BY <1>1, <4>1, Walks DEF Threads
      <4>3. CASE empty
        <5>1. at'["cmd"] = "was_empty"
          BY <4>2, <4>3
        <5> QED
          BY <1>1, <2>1, <2>2, <2>3, <2>4, <3>1, <4>1, <5>1 DEF DownInv, HeaderReads
      <4>4. CASE ~empty
        <5>1. at'["cmd"] = "was_full"
          BY <4>2, <4>4
        <5> QED
          BY <1>1, <2>1, <2>2, <2>3, <2>4, <2>5, <3>1, <3>3, <4>1, <4>4, <5>1
             DEF DownInv, HeaderReads
      <4> QED
        BY <4>3, <4>4
    <3> QED
      BY <3>2, <3>3
  <2>8. CASE ReadEmpty
    <3>1. /\ UNCHANGED recording
          /\ promised' = IF promised < 0 THEN -1 ELSE IF empty THEN 0 ELSE Length
      BY <2>8 DEF ReadEmpty, Promises
    <3>2. CASE Goes("cmd", "was_empty", "rest") /\ overtold' = ~empty
      <4>1. at["cmd"] = "was_empty" /\ at'["cmd"] = "rest"
        BY <1>1, <3>2, Walks DEF Threads
      <4>2. CASE empty
        <5>1. promised' = IF promised < 0 THEN -1 ELSE 0
          BY <3>1, <4>2
        <5>2. overtold' \in BOOLEAN
          BY <3>2, Zenon
        <5> QED
          BY <1>1, <2>1, <2>2, <2>3, <2>4, <2>5, <3>1, <4>1, <5>1, <5>2
             DEF DownInv, HeaderReads
      <4>3. CASE ~empty
        <5>1. promised' = IF promised < 0 THEN -1 ELSE Length
          BY <3>1, <4>3
        <5>2. overtold' = TRUE
          BY <3>2, <4>3, Zenon
        <5> QED
          BY <1>1, <2>1, <2>2, <2>3, <2>4, <3>1, <4>1, <5>1, <5>2
             DEF DownInv, HeaderReads
      <4> QED
        BY <4>2, <4>3
    <3>3. CASE Goes("cmd", "was_full", "rest") /\ overtold' = FALSE
      <4>1. at["cmd"] = "was_full" /\ at'["cmd"] = "rest"
        BY <1>1, <3>3, Walks DEF Threads
      <4>2. promised' \in Int /\ promised' <= Length /\ (promised' >= 0 => promised >= 0)
        BY <1>1, <3>1 DEF DownInv
      <4>3. promised >= 0 /\ ~spilled => Length <= Final /\ Final \in Int
        BY <1>1, <2>5, <4>1 DEF DownInv
      <4>4. overtold' \in BOOLEAN
        BY <3>3, Zenon
      <4> QED
        BY <1>1, <2>1, <2>2, <2>3, <2>4, <3>1, <4>1, <4>2, <4>3, <4>4
           DEF DownInv, HeaderReads
    <3> QED
      BY <2>8, <3>2, <3>3 DEF ReadEmpty
  <2> QED
    BY <1>6, <2>6, <2>7, <2>8 DEF HeaderStep
<1>7. CASE /\ UNCHANGED <<decimation_counter, last_time, ring, imu, at, clean>>
           /\ recording' = FALSE \/ UNCHANGED recording
           /\ UNCHANGED download \/ SendData
  <2>1. UNCHANGED <<head, tail, empty, reg, spilled, at>>
    BY <1>7 DEF ring, imu
  <2>2. Final' = Final /\ Starting' = Starting
    BY <2>1 DEF Final, Stored, Ahead, Settled, Hd, Tl, Ring!Incremented, Starting
  <2>3. CASE UNCHANGED download
    BY <1>1, <1>7, <2>1, <2>2, <2>3 DEF DownInv, download, Idle
  <2>4. CASE SendData
    BY <1>1, <1>7, <2>1, <2>2, <2>4 DEF DownInv, SendData, Idle
  <2> QED
    BY <1>7, <2>3, <2>4
<1> QED
  BY <1>1, <1>3, <1>4, <1>5, <1>6, <1>7, Moves

(* Spec => DownloadStable: while data are fetched no sample moves and the  *)
(* header is honoured, although it may be sent in the middle of a push,    *)
(* when the tail has left the oldest sample and the head has not reached   *)
(* the newest; but a header that told a full buffer while the first sample *)
(* was written.                                                            *)
THEOREM DownloadIsStable == Spec => DownloadStable
<1>1. Init => DownloadInv
  <2> SUFFICES ASSUME Init PROVE DownloadInv
    OBVIOUS
  <2>1. TypeInv
    BY InitialState
  <2>2. at["imu"] = "rest" /\ promised = -1 /\ ~overtold /\ overtold \in BOOLEAN /\ ~fetching
    BY DEF Init, Threads
  <2>3. RegInv /\ DownInv
    BY <2>2 DEF RegInv, Writing, DownInv
  <2> QED
    BY <2>1, <2>3 DEF DownloadInv
<1>2. TypeInv /\ [Next]_vars => TypeInv'
  BY TypeKept
<1>3. TypeInv /\ TypeInv' /\ DownloadInv /\ [Next]_vars => DownloadInv'
  <2> SUFFICES ASSUME TypeInv, TypeInv', DownloadInv, [Next]_vars PROVE DownloadInv'
    OBVIOUS
  <2>1. ~spilled' => ~spilled
    BY SpilledStays
  <2>2. ~spilled' => RegInv'
    BY <2>1, RegKept DEF DownloadInv
  <2> QED
    BY <2>2, DownloadKept
<1>4. ASSUME DownloadInv, [Next]_vars, fetching, fetching'
      PROVE  Ring!Contents' = Ring!Contents /\ (overtold \/ promised <= Ring!Size)
  <2>1. /\ TypeInv /\ AtInv /\ (~spilled => RegInv)
        /\ promised \in Int /\ promised > 0
        /\ ~recording /\ ~Starting /\ at["imu"] = "rest" /\ at["cmd"] = "rest"
    BY <1>4 DEF DownloadInv, DownInv, Idle, TypeInv
  <2>2. ~spilled
    BY <2>1 DEF TypeInv, WrapInv
  <2>3. overtold \/ promised <= Final
    BY <1>4, <2>1, <2>2 DEF DownloadInv, DownInv, HeaderReads
  <2>4. ~Imu
    BY <2>1, ImuAccess DEF Sample
  <2>5. \A t \in Starters : ~StartRecording(t)
    BY <2>1, StartWalks DEF Starting, Starters
  <2>6. UNCHANGED <<head, tail, empty, buffer>>
    BY <1>4, <2>1, <2>4, <2>5, Moves, HeaderWalks DEF ring
  <2>7. Ring!Contents' = Ring!Contents
    BY <2>6 DEF Ring!Contents, Ring!Size, Ring!Difference, Ring!Slot
  <2>8. Final = Ring!Size
    <3>1. head \in Slots /\ tail \in Slots /\ Hd = head /\ Tl = tail
      BY <2>1, <2>2, SettledSlots
    <3>2. head \in 0 .. Length /\ tail \in 0 .. Length
      BY <3>1, RecorderAssumption DEF Slots
    <3>3. Final = Stored
      BY <2>1 DEF Final, Passed
    <3> QED
      BY <3>1, <3>2, <3>3, SizeIsDifference, RecorderAssumption DEF Stored, Ahead, Slots
  <2> QED
    BY <2>3, <2>7, <2>8
<1> QED
  BY <1>1, <1>2, <1>3, <1>4, InitialState, PTL DEF Spec, DownloadStable

=============================================================================
