----------------------------- MODULE ReverseStop -----------------------------
(***************************************************************************)
(* Reverse stop (reverse_stop.c, and its use in main.c): a board that      *)
(* rolls backward is leaned back over a distance and then stopped, unless  *)
(* it rolls forward again.  Distances are in motor steps, angles in the    *)
(* degrees of one step (a negative setpoint, a longer way, is left out);    *)
(* progress is in halves of the way.                                       *)
(***************************************************************************)
EXTENDS Integers

CONSTANTS
  Angle,    \* TARGET_STOP_ANGLE
  Slack,    \* the steps that a change of direction takes
  MaxBack   \* bound on the distance from the start of the motion

VARIABLES
  running,
  sat,                \* CENTERING, REVERSESTOP, or NONE for any other
  enabled, darkride, setpoint,
  start_setpoint, target_setpoint,
  travelled,          \* distance - start_distance
  current_distance, target_distance, progress,
  timer,              \* its age in seconds, up to 4
  held,               \* seconds for which the board was leaned back, up to 2
  late, flipped       \* of this ride: the motion began leaned back;
                      \* it was in darkride

rs == <<start_setpoint, target_setpoint, travelled, current_distance,
        target_distance, progress, timer>>
ride == <<running, sat, enabled, darkride, setpoint>>
vars == <<ride, rs, held, late, flipped>>

Abs(i) == IF i < 0 THEN -i ELSE i
Sign(i) == IF i < 0 THEN -1 ELSE 1
Setpoints == 0..Angle
Done == 2
Old == 4
MostOf(i, j) == IF i > j THEN i ELSE j
LeastOf(i, j) == IF i < j THEN i ELSE j
Leaned(s) == 2 * s >= Angle

\* reverse_stop_reset leaves the timer alone.
Reset ==
  /\ start_setpoint' = 0 /\ target_setpoint' = 0 /\ travelled' = 0
  /\ current_distance' = 0 /\ target_distance' = 0 /\ progress' = Done
  /\ UNCHANGED timer

Init ==
  /\ running = FALSE /\ sat = "NONE" /\ enabled \in BOOLEAN /\ darkride = FALSE
  /\ setpoint = 0
  /\ start_setpoint = 0 /\ target_setpoint = 0 /\ travelled = 0
  /\ current_distance = 0 /\ target_distance = 0 /\ progress = Done
  /\ timer = Old /\ held = 0 /\ late = FALSE /\ flipped = FALSE

\* The timer, and what it is to measure, at an iteration: d seconds later.
Aged(age, d) == LeastOf(Old, age + d)

\* reverse_stop_update when the board has changed its direction: the way to
\* the other angle starts here.
Turn(d) ==
  LET target == IF target_setpoint > 0 THEN 0 ELSE Angle
      way == Abs(setpoint - target)
  IN /\ target_setpoint' = target /\ start_setpoint' = setpoint
     /\ travelled' = 0 /\ current_distance' = 0
     /\ target_distance' = IF target > 0 THEN -way ELSE way
     /\ progress' = IF way < 1 THEN Done ELSE 0
     /\ timer' = Aged(timer, d)

\* The halves of the way that current has covered.  The filter of the progress
\* lags behind them and never passes them.
Covered(current) ==
  IF target_distance = 0 THEN Done
  ELSE LeastOf(Done, (Done * Abs(current)) \div Abs(target_distance))

\* On the way back, and as long as the board is not leaned back.
Refreshes_WhenLow == ~Leaned(setpoint)
Refreshes == target_setpoint = 0 \/ ~Leaned(setpoint)

\* reverse_stop_update on the way, with the board at distance new.
Proceed(new, diff, d) ==
  /\ \E p \in progress..MostOf(progress, Covered(IF diff > 0 THEN new ELSE current_distance)) :
       /\ progress' = p
       /\ target_distance' = IF p = Done THEN 0 ELSE target_distance
       /\ current_distance' = IF p = Done THEN 0
                              ELSE IF diff > 0 THEN new ELSE current_distance
  /\ travelled' = new
  /\ timer' = IF Refreshes THEN 0 ELSE Aged(timer, d)
  /\ UNCHANGED <<start_setpoint, target_setpoint>>

\* reverse_stop_update, after the board moved; fast: backward, at 200 erpm.
Update(move, fast, d) ==
  LET new == travelled + move
      diff == (new - current_distance) * Sign(target_distance)
      waits == progress = Done /\ (~enabled \/ ~fast \/ diff >= -Slack)
  IN \/ /\ waits
        /\ travelled' = IF ~enabled \/ ~fast \/ diff > 0 THEN 0 ELSE new
        /\ timer' = Aged(timer, d)
        /\ UNCHANGED <<start_setpoint, target_setpoint, current_distance,
                       target_distance, progress>>
     \/ ~waits /\ diff < -Slack /\ Turn(d)
     \/ ~waits /\ diff >= -Slack /\ Proceed(new, diff, d)

\* reverse_stop_setpoint
Aim == start_setpoint' + ((target_setpoint' - start_setpoint') * progress') \div Done

\* reverse_stop_stop, on the state after the update: for 3 seconds less the progress,
\* or at the end of the way.
TimedOut == timer' > 3 - progress'
Stops == TimedOut \/ (target_setpoint' > 0 /\ progress' = Done)

\* reverse_stop_active
Active == target_setpoint' > 0 \/ progress' < Done

\* calculate_setpoint_target, and the interpolation that follows it.
Steer ==
  /\ sat' = IF sat = "REVERSESTOP" THEN IF Active THEN sat ELSE "NONE"
            ELSE IF enabled /\ Active /\ ~darkride THEN "REVERSESTOP" ELSE sat
  /\ \/ /\ sat' = "REVERSESTOP"
        /\ setpoint' \in {setpoint} \cup
                         (LeastOf(setpoint, Aim)..MostOf(setpoint, Aim))
     \/ sat' = "NONE" /\ setpoint' \in {s \in Setpoints : Abs(s - setpoint) <= 1}

\* What the rider sees of it.
Observe(d) ==
  /\ held' = IF target_setpoint' > 0 /\ Leaned(setpoint)
             THEN LeastOf(2, held + d) ELSE 0
  /\ late' = IF target_setpoint' > 0 /\ target_setpoint = 0 THEN Leaned(setpoint)
             ELSE late
  /\ flipped' = (flipped \/ darkride)

\* An iteration of a ride, in which it is centered, or updated and stopped or
\* steered.  Darkride has faults of its own.
Centering ==
  /\ running /\ sat = "CENTERING"
  /\ sat' \in {"CENTERING", "NONE"} /\ setpoint' = 0
  /\ UNCHANGED <<running, enabled, darkride, rs, held, late, flipped>>
Stop(move, fast, d) ==
  /\ running /\ sat = "REVERSESTOP" /\ ~darkride
  /\ Update(move, fast, d) /\ Stops
  /\ running' = FALSE
  /\ Observe(d) /\ UNCHANGED <<sat, enabled, darkride, setpoint>>
Ride(move, fast, d) ==
  /\ running /\ sat # "CENTERING"
  /\ Abs(travelled + move) <= MaxBack
  /\ Update(move, fast, d) /\ (sat = "REVERSESTOP" /\ ~darkride => ~Stops)
  /\ Steer /\ Observe(d)
  /\ UNCHANGED <<running, enabled, darkride>>

\* Any other end of the ride, and the next one.
Disengage ==
  /\ running /\ running' = FALSE
  /\ UNCHANGED <<sat, enabled, darkride, setpoint, rs, held, late, flipped>>
Engage ==
  /\ ~running /\ running' = TRUE /\ sat' = "CENTERING" /\ setpoint' = 0
  /\ Reset
  /\ held' = 0 /\ late' = FALSE /\ flipped' = darkride
  /\ UNCHANGED <<enabled, darkride>>

\* The board is flipped; a command changes the configuration.
Flip ==
  /\ darkride' = ~darkride
  /\ UNCHANGED <<running, sat, enabled, setpoint, rs, held, late, flipped>>
Configure ==
  /\ enabled' = ~enabled
  /\ UNCHANGED <<running, sat, darkride, setpoint, rs, held, late, flipped>>

\* Between two rides.
Rest ==
  /\ ~running /\ timer' = Aged(timer, 1)
  /\ UNCHANGED <<ride, start_setpoint, target_setpoint, travelled,
                 current_distance, target_distance, progress, held, late,
                 flipped>>

\* Between two iterations the board moves a step at most, and a second passes or
\* does not.
Moves == {m \in {-1, 0, 1} \X BOOLEAN : m[2] => m[1] <= 0}
ReverseStops == \E m \in Moves, d \in {0, 1} : Stop(m[1], m[2], d)
Rides == \E m \in Moves, d \in {0, 1} : Ride(m[1], m[2], d)
Next ==
  \/ ReverseStops \/ Rides \/ Centering \/ Disengage \/ Engage
  \/ Flip \/ Configure \/ Rest

Spec == Init /\ [][Next]_vars

-----------------------------------------------------------------------------
(* reverse_stop.c:121-122: a board that is stopped by reverse stop was     *)
(* leaned back for a second at least, or has rolled back all of the way    *)
(* from where it turned, up to the slack.  A motion that began leaned back *)
(* (late) and a ride that was upside down (flipped) are not covered: the   *)
(* code does stop those early.                                             *)
StopIsEarned ==
  [][ReverseStops => \/ late' \/ flipped'
                     \/ held' >= 2
                     \/ travelled' <= Slack - (Angle - start_setpoint')]_vars
=============================================================================
