--------------------------- MODULE HapticFeedback ---------------------------
(***************************************************************************)
(* Haptic feedback (haptic_feedback.c) and the tones of motor control      *)
(* (motor_control.c): the main thread decides on a pattern and switches    *)
(* the tone on and off with its beats, clicks when a ride begins or ends,  *)
(* and the IMU callback counts the tone down.  They share the counters     *)
(* without a lock; the steps on them are single accesses.                  *)
(*                                                                         *)
(* A tone is its ticks; intensity, frequency and the sign of the current   *)
(* are left out.  A counter has Byte values.                               *)
(***************************************************************************)
EXTENDS Integers, Sequences

CONSTANTS Types,      \* the types of feedback that may be asked for
          Byte,       \* the number of values of uint8_t
          VibrateTicks, ClickTicks,  \* the ticks of the two kinds of tone
          MaxClicks   \* bound on the clicks

VARIABLES
  wanted,       \* what haptic_feedback_get_type returned last
  type_playing, is_playing, can_change_type,
  beat,         \* the age of the pattern, in beats of its period
  humming,      \* foc_play_tone of the firmware is on
  even,         \* of the iterations, so that each one is a step
  tone_ticks, tone_counter, click_counter,
  clicks,       \* how many clicks are left
  todo,         \* what is left of the accesses of each thread
  new_ticks,    \* of motor_control_play_tone, and
  count         \* the counter that motor_control_apply has loaded; 0 when done

haptic == <<wanted, type_playing, is_playing, can_change_type, beat, humming,
            even>>
tone == <<tone_ticks, tone_counter, click_counter>>
vars == <<haptic, tone, clicks, todo, new_ticks, count>>

Threads == {"main", "imu"}

\* haptic_feedback_init, motor_control_init
Init ==
  /\ wanted = "NONE" /\ type_playing = "NONE" /\ is_playing = FALSE
  /\ can_change_type = TRUE /\ beat = 0 /\ humming = FALSE /\ even = TRUE
  /\ tone_ticks = 0 /\ tone_counter = 0 /\ click_counter = 0
  /\ clicks = MaxClicks
  /\ todo = [t \in Threads |-> <<>>] /\ new_ticks = 0 /\ count = 0

Idle(t) == todo[t] = <<>>
Calls(t, accesses) == todo' = [todo EXCEPT ![t] = accesses]
Does(t, access) == ~Idle(t) /\ Head(todo[t]) = access
Then(t, more) == Calls(t, more \o Tail(todo[t]))

reset_tone == <<"ticks_0", "counter_0">>

-----------------------------------------------------------------------------
(* haptic_feedback_update                                                  *)

\* get_beats
Beats(type) == CASE type = "DUTY_SPEED" -> 2
                 [] type = "ERROR_TEMPERATURE" -> 6
                 [] type = "ERROR_VOLTAGE" -> 8
                 [] type = "ERROR_FATAL" -> 10
                 [] OTHER -> 0

\* Tones are on even beats; of more than two beats the last one is skipped.
Sounds(type, at) ==
  /\ type # "NONE"
  /\ Beats(type) > 0 => at % 2 = 0 /\ (Beats(type) > 2 => at # Beats(type) - 2)

\* An iteration finds the pattern at the same beat as the last one, or at the
\* next one: the loop is faster than the beat.
BeatAfter(type, passes) ==
  IF Beats(type) = 0 THEN 0
  ELSE IF passes THEN (beat + 1) % Beats(type) ELSE beat

MayChange_AfterPlay(type, at) == Beats(type) = 0 \/ (~is_playing' /\ at = 0)
MayChange(type, at) == Beats(type) = 0 \/ (~is_playing /\ at = 0)

Ends_InPattern == is_playing /\ ~is_playing' /\ type_playing' # "NONE"
Ends == is_playing /\ ~is_playing'

Update(want, passes, hums, vibrates) ==
  /\ Idle("main")
  /\ wanted' = want /\ even' = ~even
  /\ type_playing' = IF can_change_type THEN want ELSE type_playing
  /\ beat' = IF type_playing' # type_playing THEN 0
             ELSE BeatAfter(type_playing, passes)
  /\ is_playing' = Sounds(type_playing', beat')
  /\ can_change_type' = MayChange(type_playing', beat')
  /\ humming' = IF is_playing' THEN humming \/ hums ELSE humming /\ ~Ends
  /\ Calls("main", IF Ends THEN reset_tone
                   ELSE IF is_playing' /\ vibrates THEN <<"play">> ELSE <<>>)
  /\ new_ticks' = IF is_playing' /\ vibrates THEN VibrateTicks ELSE 0
  /\ UNCHANGED <<tone, clicks, count>>

-----------------------------------------------------------------------------
(* motor_control.c                                                         *)

\* motor_control_play_click: the tone, then how often it is to toggle.
PlayClick ==
  /\ Idle("main") /\ clicks > 0
  /\ clicks' = clicks - 1
  /\ new_ticks' = ClickTicks
  /\ Calls("main", <<"play", "click">>)
  /\ UNCHANGED <<haptic, tone, count>>

\* motor_control_play_tone: nothing if a tone of these ticks is on.
PlayTone ==
  /\ Does("main", "play")
  /\ tone_ticks' = new_ticks
  /\ IF new_ticks = tone_ticks THEN Then("main", <<>>) /\ new_ticks' = 0
     ELSE Then("main", <<"load">>) /\ UNCHANGED new_ticks
  /\ UNCHANGED <<haptic, tone_counter, click_counter, clicks, count>>

\* The counter is the ticks, which the compiler may read again.
LoadTicks ==
  /\ Does("main", "load") /\ Then("main", <<"store">>)
  /\ new_ticks' \in {new_ticks, tone_ticks}
  /\ UNCHANGED <<haptic, tone, clicks, count>>

LoadCounter ==
  /\ Does("main", "store") /\ Then("main", <<>>)
  /\ tone_counter' = new_ticks /\ new_ticks' = 0
  /\ UNCHANGED <<haptic, tone_ticks, click_counter, clicks, count>>

SetClick ==
  /\ Does("main", "click") /\ Then("main", <<>>)
  /\ click_counter' = 3
  /\ UNCHANGED <<haptic, tone_ticks, tone_counter, clicks, new_ticks, count>>

\* reset_tone, of motor_control_stop_tone and of the last count of a click.
ResetTone(t) ==
  /\ \/ /\ Does(t, "ticks_0") /\ tone_ticks' = 0
        /\ UNCHANGED tone_counter
     \/ /\ Does(t, "counter_0") /\ tone_counter' = 0
        /\ UNCHANGED tone_ticks
  /\ Then(t, <<>>)
  /\ UNCHANGED <<haptic, click_counter, clicks, new_ticks, count>>

\* motor_control_apply, unless the board is disabled: while a tone is on, a counter
\* is loaded, decremented and stored.  At zero it starts again and a click is counted.
Apply ==
  /\ Idle("imu") /\ tone_ticks > 0
  /\ Calls("imu", <<"load_count", "count">>)
  /\ UNCHANGED <<haptic, tone, clicks, new_ticks, count>>

LoadCount ==
  /\ Does("imu", "load_count") /\ Then("imu", <<>>)
  /\ count' = (tone_counter - 1) % Byte
  /\ UNCHANGED <<haptic, tone, clicks, new_ticks>>

CountTone ==
  /\ Does("imu", "count")
  /\ tone_counter' = count /\ count' = 0
  /\ Then("imu", IF count = 0 THEN <<"reload", "load_click">> ELSE <<>>)
  /\ UNCHANGED <<haptic, tone_ticks, click_counter, clicks, new_ticks>>

Reload ==
  /\ Does("imu", "reload") /\ Then("imu", <<>>)
  /\ tone_counter' = tone_ticks
  /\ UNCHANGED <<haptic, tone_ticks, click_counter, clicks, new_ticks, count>>

LoadClick ==
  /\ Does("imu", "load_click")
  /\ count' = IF click_counter > 0 THEN click_counter - 1 ELSE count
  /\ Then("imu", IF click_counter > 0 THEN <<"count_click">> ELSE <<>>)
  /\ UNCHANGED <<haptic, tone, clicks, new_ticks>>

CountClick ==
  /\ Does("imu", "count_click")
  /\ click_counter' = count /\ count' = 0
  /\ Then("imu", IF count = 0 THEN reset_tone ELSE <<>>)
  /\ UNCHANGED <<haptic, tone_ticks, tone_counter, clicks, new_ticks>>

Imu == Apply \/ LoadCount \/ CountTone \/ Reload \/ LoadClick \/ CountClick
       \/ ResetTone("imu")
Tone == PlayTone \/ LoadTicks \/ LoadCounter \/ SetClick \/ ResetTone("main")

Passes == \E want \in Types, hums, vibrates \in BOOLEAN :
            Update(want, TRUE, hums, vibrates)
Stays == \E want \in Types, hums, vibrates \in BOOLEAN :
           Update(want, FALSE, hums, vibrates)

Next == Passes \/ Stays \/ PlayClick \/ Tone \/ Imu

\* The loop goes on, the beat passes, and the callback is called.
FairSpec ==
  Init /\ [][Next]_vars /\ SF_vars(Passes) /\ WF_vars(Tone) /\ WF_vars(Imu)

-----------------------------------------------------------------------------
(* What is asked for in the end is played in the end: no pattern keeps     *)
(* itself from being replaced.                                             *)
WantedIsPlayed ==
  \A type \in Types :
    <>[](wanted = type) => <>[](type_playing = type /\ wanted = type)

(* When nothing is to be felt any more, the firmware's tone and the one of *)
(* the motor current are off for good, whatever races the clicks had.      *)
FeedbackEnds ==
  <>[](wanted = "NONE") => <>[](tone_ticks = 0 /\ ~humming)
=============================================================================
