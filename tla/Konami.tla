------------------------------- MODULE Konami -------------------------------
(***************************************************************************)
(* The konami sequences of the headlights (konami.c): touches of the       *)
(* footpad that switch them on and off.  Each sequence has a recognizer of *)
(* its own, which the main loop only feeds while it may apply (main.c,     *)
(* STATE_READY); the app switches the headlights too.  The sequence of     *)
(* Flywheel mode has a third recognizer, which shares nothing with these.  *)
(***************************************************************************)
EXTENDS Integers, Sequences

CONSTANTS Shortest,  \* 0.15 s, the time between two touches
          Longest    \* 0.5 s

VARIABLES
  footpad, ready, headlights_enabled,
  state, timer,  \* of each recognizer; the age of its timer
  app,           \* the age of the app's last switch
  twice,         \* it came within Longest of the one before
  touches        \* the changes of the footpad since the last switch by touches;
                 \* from Enough on they are not counted

vars == <<footpad, ready, headlights_enabled, state, timer, app, twice, touches>>

Footpads == {"NONE", "LEFT", "RIGHT", "BOTH"}
Sequence == [on |-> <<"LEFT", "NONE", "LEFT", "NONE", "RIGHT">>,
             off |-> <<"RIGHT", "NONE", "RIGHT", "NONE", "LEFT">>]
Names == DOMAIN Sequence
Ages == 0..Longest + 1
Enough == 4

\* konami_init
Init ==
  /\ footpad = "NONE" /\ ready = FALSE /\ headlights_enabled \in BOOLEAN
  /\ state = [n \in Names |-> 0] /\ timer = [n \in Names |-> Longest + 1]
  /\ app = Longest + 1 /\ twice = FALSE /\ touches = Enough

-----------------------------------------------------------------------------
\* konami_check of recognizer n, when its timer has not run out.
Feed(n) ==
  LET s == state[n]
      Result(next, restart, complete) ==
        [state |-> next, timer |-> IF restart THEN 0 ELSE timer[n],
         complete |-> complete]
  IN IF footpad = Sequence[n][s + 1]
     THEN IF timer[n] <= Shortest THEN Result(s, FALSE, FALSE)
          ELSE IF s + 1 = Len(Sequence[n]) THEN Result(0, FALSE, TRUE)
          ELSE Result(s + 1, TRUE, FALSE)
     ELSE IF s > 0 /\ footpad # Sequence[n][s] THEN Result(0, FALSE, FALSE)
     ELSE Result(s, FALSE, FALSE)

Check_NoTimeout(n) == Feed(n)
Check(n) ==
  IF state[n] > 0 /\ timer[n] > Longest
  THEN [state |-> 0, timer |-> timer[n], complete |-> FALSE]
  ELSE Feed(n)

\* The app switched twice within half a second, less than half a second ago: the
\* recognizer that is fed again kept its position, and may go on.
Hasty == twice /\ app <= Longest

\* An iteration: the recognizer that may switch the headlights is checked, and
\* after a switch on the other one as well.
Recognize ==
  LET on == Check("on")
      off == Check("off")
      switched_on == ~headlights_enabled /\ on.complete
      feeds_off == headlights_enabled \/ switched_on
      switched_off == feeds_off /\ off.complete
  IN /\ ready
     /\ state' = [on |-> IF headlights_enabled THEN state.on ELSE on.state,
                  off |-> IF feeds_off THEN off.state ELSE state.off]
     /\ timer' = [on |-> IF headlights_enabled THEN timer.on ELSE on.timer,
                  off |-> IF feeds_off THEN off.timer ELSE timer.off]
     /\ headlights_enabled' = (feeds_off /\ ~switched_off)
     /\ touches' = IF ~(switched_on \/ switched_off) THEN touches
                   ELSE IF Hasty THEN Enough ELSE 0
     /\ UNCHANGED <<footpad, ready, app, twice>>

Touch ==
  /\ footpad' \in Footpads \ {footpad}
  /\ touches' = IF touches = Enough THEN Enough ELSE touches + 1
  /\ UNCHANGED <<ready, headlights_enabled, state, timer, app, twice>>

\* cmd_lights_control, at any time.
Switch ==
  /\ headlights_enabled' = ~headlights_enabled
  /\ app' = 0 /\ twice' = (app <= Longest) /\ touches' = Enough
  /\ UNCHANGED <<footpad, ready, state, timer>>

\* Rides begin and end.
EngageOrStop ==
  /\ ready' = ~ready
  /\ UNCHANGED <<footpad, headlights_enabled, state, timer, app, twice, touches>>

Older(age) == IF age = Longest + 1 THEN age ELSE age + 1
Tick ==
  /\ timer' = [n \in Names |-> Older(timer[n])] /\ app' = Older(app)
  /\ UNCHANGED <<footpad, ready, headlights_enabled, state, twice, touches>>

Next == Recognize \/ Touch \/ Switch \/ EngageOrStop \/ Tick

Spec == Init /\ [][Next]_vars

-----------------------------------------------------------------------------
(* No touch counts twice: after a switch by touches the next one takes the *)
(* touches of a whole sequence, the first of which may be the last of the  *)
(* one before (main.c:86-96).  It does not hold after hasty switches of    *)
(* the app: the touches of such a switch count twice.                      *)
SequencesApart ==
  [][Recognize /\ headlights_enabled' # headlights_enabled
       => touches = Enough]_vars
=============================================================================
