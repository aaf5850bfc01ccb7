-------------------------------- MODULE Leds --------------------------------
(***************************************************************************)
(* The front and rear LEDs (leds.c): which bar each of them shows.  The    *)
(* auxiliary thread draws a frame from a copy of the run state, but reads   *)
(* the switch of the headlights anew for every bar it chooses; the bars    *)
(* change with the headlights and with the direction of the ride, each     *)
(* through a transition that may be turned back.  Colors, brightness and   *)
(* animations are left out.  A split is one of the two ends of its         *)
(* transition, or between.                                                 *)
(***************************************************************************)
EXTENDS Integers

VARIABLES
  state, flywheel,               \* leds->state
  enabled, headlights_enabled,   \* runtime_status
  on_off_fade,                   \* 0: off, 2: on
  headlights_on, changing,       \* headlights_time > 0
  headlights_split, dir_split,   \* -1, 0 for between, 1
  direction_forward,
  bar, time_target,              \* of the front and the rear strip
  should,                        \* headlights_should, and the strips whose bars
  aim, left,                     \* a frame has still to choose, and for what
  stale,  \* the direction was set while the bars showed headlights
  torn    \* the bars or the targets were chosen after a switch of the headlights
          \* in the middle of their frame

status == <<enabled, headlights_enabled>>
bars == <<bar, time_target>>
choice == <<should, aim, left, torn>>
splits == <<headlights_split, dir_split>>
vars == <<state, flywheel, status, on_off_fade, headlights_on, changing, splits,
          direction_forward, bars, choice, stale>>

States == {"STARTUP", "READY", "RUNNING", "DISABLED"}
Strips == {"front", "rear"}
Splits == {-1, 0, 1}
Clamped(split) == IF split < -1 THEN -1 ELSE IF split > 1 THEN 1 ELSE split

\* leds_init, then leds_setup.
Init ==
  /\ state = "STARTUP" /\ flywheel = FALSE
  /\ enabled \in BOOLEAN /\ headlights_enabled \in BOOLEAN /\ on_off_fade = 0
  /\ headlights_on = FALSE /\ changing = FALSE
  /\ headlights_split = 1 /\ dir_split = 1 /\ direction_forward = TRUE
  /\ bar = [strip \in Strips |-> strip] /\ time_target = bar
  /\ should = FALSE /\ aim = "none" /\ left = {} /\ torn = {}
  /\ stale = FALSE

\* target_bar, with headlights_should_be_on or not.
TargetBar(headlights, forward, strip) ==
  IF ~headlights THEN strip
  ELSE IF forward = (strip = "front") THEN "headlights" ELSE "taillights"

-----------------------------------------------------------------------------
(* The parts of a frame, of leds_update, in their order: first what it     *)
(* does with one reading of the switch, up to the bars it chooses.         *)

\* headlights_should_be_on: of the state that is copied for the frame, and later.
Now == state = "RUNNING" /\ ~flywheel /\ headlights_enabled
Should == state' = "RUNNING" /\ ~flywheel' /\ headlights_enabled

\* Whether the LEDs are on, or on their way there or back.
Lit == state' # "STARTUP" /\ (enabled \/ on_off_fade > 0)
Fade ==
  on_off_fade' =
    IF ~Lit THEN on_off_fade
    ELSE IF state' # state /\ "DISABLED" \in {state, state'} THEN 0
    ELSE IF enabled THEN IF on_off_fade = 2 THEN 2 ELSE on_off_fade + 1
    ELSE on_off_fade - 1

\* The direction of a ride that begins; nose_down: pitch < 0.
Engages_Always == Lit /\ state' # state /\ state' = "RUNNING"
Engages == Lit /\ state' # state /\ state' = "RUNNING" /\ ~changing
Faced(nose_down) ==
  IF Engages THEN IF nose_down THEN [split |-> -1, forward |-> FALSE]
                  ELSE [split |-> 1, forward |-> TRUE]
  ELSE [split |-> dir_split, forward |-> direction_forward]

\* The headlights begin to change: from one end of the direction when they are
\* switched on in a ride; ahead: a split between the ends is above 0.
Starts == Should # headlights_on /\ ~changing
Cleared_Never(faced, ahead) == faced
Cleared(faced, ahead) ==
  IF Starts /\ Should
  THEN IF faced.split = 1 \/ (faced.split = 0 /\ ahead)
       THEN [split |-> 1, forward |-> TRUE] ELSE [split |-> -1, forward |-> FALSE]
  ELSE faced

Directions == {Cleared(Faced(nose_down), ahead) : nose_down, ahead \in BOOLEAN}

\* They change, or change back; step: of the time since the last frame.
HeadlightsSplits ==
  IF Starts THEN {-1}
  ELSE IF ~changing THEN {headlights_split}
  ELSE {Clamped(headlights_split + (IF Should = headlights_on THEN -step ELSE step)) :
          step \in {1, 2}}

\* The board moves, either way.
DirSplits(split) ==
  IF state' = "RUNNING" /\ ~changing /\ ~Starts THEN Splits ELSE {split}

\* The transition ends, at either end.
Ends_OneWay(headlights) == changing /\ headlights = 1
Ends(headlights) ==
  changing /\ (headlights = 1 \/ (headlights = -1 /\ Should = headlights_on))

\* The rest of a frame that is drawn, from the direction d.
Draw(d, split, headlights) ==
  LET turned == headlights_on /\ split # d.split /\ split # 0
      forward == IF turned THEN split = 1 ELSE d.forward
      ends == Ends(headlights)
  IN /\ dir_split' = split /\ direction_forward' = forward
     /\ headlights_split' = headlights
     /\ changing' = ((changing \/ Starts) /\ ~ends)
     /\ headlights_on' = IF ends THEN Should ELSE headlights_on
     /\ aim' = IF Starts THEN "targets" ELSE IF turned THEN "turn"
               ELSE IF ~ends THEN "paint"
               ELSE IF Should = headlights_on THEN "stay" ELSE "change"
     /\ should' = (aim' # "paint" /\ Should)
     /\ left' = IF aim' = "paint" THEN {} ELSE Strips
     /\ stale' = (~turned /\ ~ends /\ (stale \/ (Engages /\ headlights_on)))
     /\ UNCHANGED <<bars, torn>>

\* A frame, on whatever the run state is by then; its mode matters while RUNNING.
FrameBegins ==
  /\ aim = "none"
  /\ state' \in States /\ (state # "STARTUP" => state' # "STARTUP")
  /\ flywheel' \in BOOLEAN /\ (flywheel' => state' = "RUNNING")
  /\ Fade
  /\ IF Lit /\ state' # "DISABLED"
     THEN \E d \in Directions :
            \E split \in DirSplits(d.split), headlights \in HeadlightsSplits :
              Draw(d, split, headlights)
     ELSE /\ aim' = "paint"
          /\ UNCHANGED <<headlights_on, changing, splits, direction_forward, bars,
                         should, left, torn, stale>>
  /\ UNCHANGED status

\* A strip gets its bar, or its target, with the headlights as they are by now; the
\* compiler chooses which argument of reset_led_bars comes first.
Kind == IF aim = "targets" THEN "targets" ELSE "bars"
Choose(strip) ==
  /\ strip \in left /\ (aim = "targets" /\ strip = "rear" => "front" \notin left)
  /\ LET target == TargetBar(Now, direction_forward, strip)
     IN IF aim = "targets"
        THEN time_target' = [time_target EXCEPT ![strip] = target] /\ UNCHANGED bar
        ELSE bar' = [bar EXCEPT ![strip] = target] /\ UNCHANGED time_target
  /\ torn' = (IF left = Strips THEN torn \ {Kind} ELSE torn)
             \cup (IF Now = should THEN {} ELSE {Kind})
  /\ left' = left \ {strip}
  /\ aim' = IF left' = {} THEN "none" ELSE aim
  /\ should' = (aim' # "none" /\ should)
  /\ UNCHANGED <<state, flywheel, status, on_off_fade, headlights_on, changing,
                 splits, direction_forward, stale>>

\* led_driver_paint, when there was nothing to choose.
Paint ==
  /\ aim = "paint" /\ aim' = "none"
  /\ UNCHANGED <<state, flywheel, status, on_off_fade, headlights_on, changing,
                 splits, direction_forward, bars, should, left, torn, stale>>

Frames == FrameBegins \/ (\E strip \in Strips : Choose(strip)) \/ Paint

\* leds_set_enabled, leds_set_headlights_enabled, and leds_configure of what neither
\* has overridden.
Switch ==
  /\ enabled' \in BOOLEAN /\ headlights_enabled' \in BOOLEAN
  /\ UNCHANGED <<state, flywheel, on_off_fade, headlights_on, changing, splits,
                 direction_forward, bars, choice, stale>>

Next == Frames \/ Switch

Spec == Init /\ [][Next]_vars
FairSpec == Spec /\ WF_vars(Frames)

-----------------------------------------------------------------------------
(* When nothing changes, the strips show the bars of the headlights and of *)
(* the direction the board went last, whatever was switched, turned or     *)
(* taken back before; but for bars that a frame chose with two readings of *)
(* the switch.                                                             *)
BarsMatch ==
  aim = "none" /\ ~changing /\ ~stale /\ "bars" \notin torn =>
    IF headlights_on
    THEN dir_split # 0 =>
           bar = IF dir_split = 1
                 THEN [front |-> "headlights", rear |-> "taillights"]
                 ELSE [front |-> "taillights", rear |-> "headlights"]
    ELSE bar = [front |-> "front", rear |-> "rear"]

(* A change of the headlights ends in the bars that the transition went    *)
(* to, with the same exception.                                            *)
ChangesEndWhereTheyWent ==
  [][aim = "change" /\ aim' = "none" /\ torn' = {} => bar' = time_target]_vars

(* The headlights follow the ride and the switch, as long as the LEDs are  *)
(* on and the board is not disabled.                                       *)
HeadlightsFollow ==
  \A on \in BOOLEAN :
    <>[](/\ enabled /\ state \in {"READY", "RUNNING"}
         /\ on = (state = "RUNNING" /\ ~flywheel /\ headlights_enabled))
      => <>[](headlights_on = on /\ ~changing)
=============================================================================
