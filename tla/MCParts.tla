------------------------------- MODULE MCParts -------------------------------
(***************************************************************************)
(* The small machines that share no state with one another, each on its    *)
(* own: a behaviour is one of the part that its initial state names, and   *)
(* the variables of the others keep a fixed value.                         *)
(***************************************************************************)
EXTENDS CircularBuffer

CONSTANTS a, b, c,
          Alerts,
          Types, Byte, VibrateTicks, ClickTicks, MaxClicks,
          Angle, Slack, MaxBack,
          Shortest, Longest,
          Grace,
          BmsTimeout, Messages,
          Allocated, Targets, Prime, Configurers,
          Frequencies, Tolerance, Components

MCItems == {a, b, c}

\* A good battery, and a hot one whose cells are out of balance.
MCMessages ==
  {[lv |-> 1, hv |-> 1, hot |-> FALSE, age |-> 0],
   [lv |-> 0, hv |-> 2, hot |-> TRUE, age |-> 1]}

VARIABLES
  part,
  beeper_enabled, beep_num_left, pin, duty_beeping, footpad_off, asked,
  odd,
  wanted, type_playing, is_playing, can_change_type, beat, humming, even,
  tone_ticks, tone_counter, click_counter, clicks, todo, new_ticks, count,
  rs_running, sat, rs_enabled, darkride, setpoint, start_setpoint, target_setpoint,
  travelled, current_distance, target_distance, progress, rs_timer, held, late,
  flipped,
  footpad, ready, switched_on, position, sequence_timer, app, twice, touches,
  remote_running, input, move_speed, command_input, move_idle, disengage,
  remote_todo, received, command, command_value, straddles,
  bms_enabled, cell_lv, cell_hv, hot, msg_age, push_timer, started, fault_mask,
  bms_todo, message, reading, found, data_age, lv, pushed, since, seen, quiet,
  n, new_n, idx, window, mean, sma_todo, asks, raced,
  ft_board, frequency, filter_frequency, first, ft_running, filter_last_update,
  configured, ft_todo, arg, overlapped,
  leds_state, flywheel, leds_enabled, headlights_enabled, on_off_fade, headlights_on,
  changing, headlights_split, dir_split, direction_forward, bar, time_target,
  should, aim, left, stale, torn

Beeper == INSTANCE Beeper
Haptic == INSTANCE HapticFeedback
Reverse == INSTANCE ReverseStop WITH
  running <- rs_running, enabled <- rs_enabled, timer <- rs_timer
Touches == INSTANCE Konami WITH
  headlights_enabled <- switched_on, state <- position, timer <- sequence_timer
Remote == INSTANCE RemoteInput WITH
  running <- remote_running, todo <- remote_todo, value <- command_value
Bms == INSTANCE BmsFaults WITH
  Timeout <- BmsTimeout,
  enabled <- bms_enabled, todo <- bms_todo
Sma == INSTANCE MovingAverage WITH
  array <- window, value <- mean, todo <- sma_todo
Tracker == INSTANCE FrequencyTracker WITH
  running <- ft_board, todo <- ft_todo
Leds == INSTANCE Leds WITH
  state <- leds_state, enabled <- leds_enabled

beeper == <<beeper_enabled, beep_num_left, pin, duty_beeping, footpad_off, asked,
            odd>>
haptic == <<wanted, type_playing, is_playing, can_change_type, beat, humming, even,
            tone_ticks, tone_counter, click_counter, clicks, todo, new_ticks,
            count>>
reverse == <<rs_running, sat, rs_enabled, darkride, setpoint, start_setpoint,
             target_setpoint, travelled, current_distance, target_distance,
             progress, rs_timer, held, late, flipped>>
konami == <<footpad, ready, switched_on, position, sequence_timer, app, twice,
            touches>>
remote == <<remote_running, input, move_speed, command_input, move_idle, disengage,
            remote_todo, received, command, command_value, straddles>>
bms == <<bms_enabled, cell_lv, cell_hv, hot, msg_age, push_timer, started,
         fault_mask, bms_todo, message, pushed, since, reading, found, data_age, lv,
         seen, quiet>>
sma == <<n, new_n, idx, window, mean, sma_todo, asks, raced>>
tracker == <<ft_board, frequency, filter_frequency, first, ft_running,
             filter_last_update, configured, ft_todo, arg, overlapped>>
leds == <<leds_state, flywheel, leds_enabled, headlights_enabled, on_off_fade,
          headlights_on, changing, headlights_split, dir_split, direction_forward,
          bar, time_target, should, aim, left, stale, torn>>
early == <<vars, beeper, haptic>>
threads == <<remote, bms, sma, tracker>>
all == <<part, early, reverse, konami, threads, leds>>

\* Of the parts that a behaviour is not about there is one initial state.
PartsInit ==
  /\ part \in {"buffer", "beeper", "haptic", "reverse", "konami", "remote", "bms",
               "sma", "tracker", "leds"}
  /\ Init /\ (part # "buffer" => buffer = [slot \in Slots |-> a])
  /\ Beeper!Init /\ (part # "beeper" => beeper_enabled)
  /\ Haptic!Init
  /\ Reverse!Init /\ (part # "reverse" => rs_enabled)
  /\ Touches!Init /\ (part # "konami" => switched_on)
  /\ Remote!Init
  /\ Bms!Init /\ (part # "bms" => bms_enabled)
  /\ Sma!Init /\ (part # "sma" => n = 1)
  /\ Tracker!Init /\ (part # "tracker" => \A f \in Frequencies : frequency <= f)
  /\ Leds!Init /\ (part # "leds" => leds_enabled /\ headlights_enabled)

OfBuffer(A) ==
  /\ part = "buffer" /\ A
  /\ UNCHANGED <<part, beeper, haptic, reverse, konami, threads, leds>>
OfBeeper(A) ==
  /\ part = "beeper" /\ A
  /\ UNCHANGED <<part, vars, haptic, reverse, konami, threads, leds>>
OfHaptic(A) ==
  /\ part = "haptic" /\ A
  /\ UNCHANGED <<part, vars, beeper, reverse, konami, threads, leds>>
OfReverse(A) ==
  part = "reverse" /\ A /\ UNCHANGED <<part, early, konami, threads, leds>>
OfKonami(A) ==
  part = "konami" /\ A /\ UNCHANGED <<part, early, reverse, threads, leds>>
OfRemote(A) ==
  /\ part = "remote" /\ A
  /\ UNCHANGED <<part, early, reverse, konami, bms, sma, tracker, leds>>
OfBms(A) ==
  /\ part = "bms" /\ A
  /\ UNCHANGED <<part, early, reverse, konami, remote, sma, tracker, leds>>
OfSma(A) ==
  /\ part = "sma" /\ A
  /\ UNCHANGED <<part, early, reverse, konami, remote, bms, tracker, leds>>
OfTracker(A) ==
  /\ part = "tracker" /\ A
  /\ UNCHANGED <<part, early, reverse, konami, remote, bms, sma, leds>>
OfLeds(A) ==
  part = "leds" /\ A /\ UNCHANGED <<part, early, reverse, konami, threads>>

PartsNext ==
  \/ OfBuffer(Next) \/ OfBeeper(Beeper!Next) \/ OfHaptic(Haptic!Next)
  \/ OfReverse(Reverse!Next) \/ OfKonami(Touches!Next) \/ OfRemote(Remote!Next)
  \/ OfBms(Bms!Next) \/ OfSma(Sma!Next) \/ OfTracker(Tracker!Next)
  \/ OfLeds(Leds!Next)

\* The fairness of each part.
PartsSpec ==
  /\ PartsInit /\ [][PartsNext]_all
  /\ WF_all(OfBeeper(Beeper!Plays))
  /\ SF_all(OfHaptic(Haptic!Passes))
  /\ WF_all(OfHaptic(Haptic!Tone)) /\ WF_all(OfHaptic(Haptic!Imu))
  /\ WF_all(OfLeds(Leds!Frames))

-----------------------------------------------------------------------------
(* Beeper: alerts do not starve each other, each is played to its end.     *)
AlertsEnd == Beeper!AlertsEnd

(* Beeper: when nothing asks for a sound any more, it falls silent.        *)
Silence == Beeper!Silence

(* Haptic feedback: no pattern keeps itself from being replaced by the one *)
(* that is asked for.                                                      *)
WantedIsPlayed == Haptic!WantedIsPlayed

(* Haptic feedback: when nothing is to be felt any more, both tones are    *)
(* off for good, whatever races the clicks had.                            *)
FeedbackEnds == Haptic!FeedbackEnds

(* Reverse stop: a board it stops was leaned back long enough, or rolled   *)
(* back all the way.                                                       *)
StopIsEarned == Reverse!StopIsEarned

(* Konami: no touch of the footpad counts for two sequences.               *)
SequencesApart == Touches!SequencesApart

(* Remote: a board is not moved before the grace period after a ride.      *)
MoveHonoursGrace == Remote!MoveHonoursGrace

(* BMS: the faults are those of the battery, and the connection is missed. *)
FaultsAreTold == Bms!FaultsAreTold

(* Moving average: a resize leaves the value the mean of the window.       *)
ValueIsMean == Sma!ValueIsMean

(* Frequency tracker: all filters are configured for one frequency, the    *)
(* one that the next change is measured from.                              *)
FrequencyApplied == Tracker!FrequencyApplied

(* LEDs: the bars are those of the headlights and of the direction.        *)
BarsMatch == Leds!BarsMatch

(* LEDs: the bars change to those the transition went to.                  *)
ChangesEndWhereTheyWent == Leds!ChangesEndWhereTheyWent

(* LEDs: the headlights follow the ride and their switch.                  *)
HeadlightsFollow == Leds!HeadlightsFollow
=============================================================================
