----------------------------- MODULE RemoteInput -----------------------------
(***************************************************************************)
(* The remote (remote.c): its input tilts the board on a ride and moves it *)
(* between rides.  It comes from a receiver, which the main loop reads     *)
(* each iteration, or from the app, whose command holds it for half a      *)
(* second.  The command thread interleaves with the main thread access by  *)
(* access; the IMU callback uses the speed.  Times are in half seconds.    *)
(***************************************************************************)
EXTENDS Integers

CONSTANTS Grace  \* remote_throttle_grace_period

Timeout == 1       \* REMOTE_TIMEOUT
IdleTimeout == 2   \* MOVE_IDLE_TIMEOUT
CommandGrace == 4  \* of remote_command_input
LeastGrace == IF Grace < CommandGrace THEN Grace ELSE CommandGrace
LongestGrace == IF Grace < CommandGrace THEN CommandGrace ELSE Grace

VARIABLES
  running,
  input, move_speed,  \* a value, or NAN for no move
  command_input, move_idle, disengage,  \* the ages of the timers
  todo,      \* what the main thread does next
  received,  \* by the main thread in this iteration: a value, or NAN
  command,   \* what the command thread does next
  value,     \* of the command
  straddles  \* a command that passed its test sets the speed during this ride or
             \* the last, or after it

main == <<todo, received>>
commands == <<command, value>>
ages == <<command_input, move_idle, disengage>>
vars == <<running, input, move_speed, ages, main, commands, straddles>>

NaN == 2
Values == {0, 1}

\* remote_init.  An expired timer is older than its timeout from the next tick on,
\* and time goes on before it is looked at.
Init ==
  /\ running = FALSE /\ input = 0 /\ move_speed = NaN
  /\ command_input = Timeout + 1 /\ move_idle = IdleTimeout + 1
  /\ disengage = LongestGrace + 1
  /\ todo = "time" /\ received = NaN /\ command = "none" /\ value = 0
  /\ straddles = FALSE

Older(age, d, timeout) == IF age + d > timeout THEN timeout + 1 ELSE age + d

\* time_update: a half second passes, or less.
TimeUpdate ==
  /\ todo = "time" /\ todo' = "input"
  /\ \E d \in {0, 1} :
       /\ command_input' = Older(command_input, d, Timeout)
       /\ move_idle' = Older(move_idle, d, IdleTimeout)
       /\ disengage' = IF running THEN 0 ELSE Older(disengage, d, LongestGrace)
  /\ UNCHANGED <<running, input, move_speed, received, commands, straddles>>

\* remote_input: whether the command holds, and what the receiver says.
RemoteInput ==
  /\ todo = "input"
  /\ \/ command_input <= Timeout /\ todo' = "state" /\ UNCHANGED received
     \/ command_input > Timeout /\ todo' = "speed" /\ received' \in Values \cup {NaN}
  /\ UNCHANGED <<running, input, move_speed, ages, commands, straddles>>

\* remote_input: remote move.
Moves_AnyTime == received = 1
Moves == received = 1 /\ disengage > Grace
MoveSpeed ==
  /\ todo = "speed" /\ todo' = "value"
  /\ move_speed' = IF received = NaN THEN NaN
                   ELSE IF received = 0
                        THEN IF move_idle > IdleTimeout THEN NaN ELSE 0
                   ELSE IF Moves THEN 1 ELSE move_speed
  /\ move_idle' = IF Moves THEN 0 ELSE move_idle
  /\ UNCHANGED <<running, input, command_input, disengage, received, commands,
                 straddles>>
Input ==
  /\ todo = "value" /\ todo' = "state"
  /\ input' = IF received = NaN THEN 0 ELSE received
  /\ UNCHANGED <<running, move_speed, ages, received, commands, straddles>>

\* The rest of the iteration: the ride goes on, ends, or begins.  engage resets the
\* remote.
Engage ==
  /\ ~running /\ running' = TRUE
  /\ move_speed' = NaN /\ move_idle' = IdleTimeout + 1
  /\ straddles' = (command = "speed")
State ==
  /\ todo = "state" /\ todo' = "time"
  /\ \/ Engage
     \/ running' \in {running, FALSE} /\ UNCHANGED <<move_speed, move_idle, straddles>>
  /\ UNCHANGED <<input, command_input, disengage, received, commands>>

Main == TimeUpdate \/ RemoteInput \/ MoveSpeed \/ Input \/ State

-----------------------------------------------------------------------------
\* remote_command_input, access by access; the timer is last.
CommandInput ==
  /\ command = "none" /\ command' = "test"
  /\ value' \in Values /\ input' = value'
  /\ UNCHANGED <<running, move_speed, ages, main, straddles>>
CommandTest ==
  /\ command = "test"
  /\ command' = IF disengage > CommandGrace THEN "speed" ELSE "timer"
  /\ straddles' = (straddles \/ (running /\ command' = "speed"))
  /\ UNCHANGED <<running, input, move_speed, ages, main, value>>
CommandSpeed ==
  /\ command = "speed" /\ command' = "timer"
  /\ move_speed' = value
  /\ straddles' = (straddles \/ running)
  /\ UNCHANGED <<running, input, ages, main, value>>
CommandTimer ==
  /\ command = "timer" /\ command' = "none"
  /\ command_input' = 0
  /\ UNCHANGED <<running, input, move_speed, move_idle, disengage, main, value,
                 straddles>>

Command == CommandInput \/ CommandTest \/ CommandSpeed \/ CommandTimer
Next == Main \/ Command

Spec == Init /\ [][Next]_vars

-----------------------------------------------------------------------------
(* The remote does not move a board somebody has just stepped off: the     *)
(* speed that the IMU callback uses between rides was set after the grace  *)
(* period of the ride (remote.c:98-103, 118-122).  A command that passed   *)
(* its test before the ride began and sets the speed on it (straddles)     *)
(* breaks this as long as the receiver is not at rest.                     *)
MoveHonoursGrace ==
  ~running /\ move_speed # NaN /\ ~straddles => disengage > LeastGrace
=============================================================================
