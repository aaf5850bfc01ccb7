--------------------------- MODULE FrequencyTracker ---------------------------
(***************************************************************************)
(* The frequency tracker (frequency_tracker.c): the filters of the         *)
(* components are configured for the frequency of the loop that runs them. *)
(* The auxiliary thread checks whether the measured frequency has left it, *)
(* and configures them anew; a command configures them for the frequency   *)
(* that the tracker keeps.  Both go through the components one by one.     *)
(***************************************************************************)
EXTENDS Integers

CONSTANTS
  Frequencies,  \* an interval of integers
  Tolerance,    \* 3 percent of any of them
  Components    \* how many are configured

Threads == {"aux", "command"}
Indices == 1..Components

VARIABLES
  running,                                  \* the board is
  frequency, filter_frequency,              \* ft->frequency.value, as measured
  first, ft_running, filter_last_update,    \* the age of the timer in seconds, up to 2
  configured,                               \* the frequency of each component
  todo, arg,  \* of each thread: the next component, 0 if none; the callback's argument
  overlapped  \* two threads were configuring at the same time, and none has since

ft == <<frequency, filter_frequency, first, ft_running, filter_last_update>>
threads == <<todo, arg>>
vars == <<running, ft, configured, threads, overlapped>>

Distance(f, g) == IF f > g THEN f - g ELSE g - f

\* frequency_tracker_init, then the first configure.
Init ==
  /\ running = FALSE
  /\ frequency \in Frequencies /\ filter_frequency = frequency
  /\ first = TRUE /\ ft_running = FALSE /\ filter_last_update = 0
  /\ configured = [i \in Indices |-> frequency]
  /\ todo = [t \in Threads |-> 0] /\ arg = [t \in Threads |-> frequency]
  /\ overlapped = FALSE

-----------------------------------------------------------------------------
\* A thread begins to configure the components for f.
Begin(t, f) ==
  /\ todo' = [todo EXCEPT ![t] = 1] /\ arg' = [arg EXCEPT ![t] = f]
  /\ overlapped' = (\E other \in Threads \ {t} : todo[other] # 0)

\* frequency_tracker_check: a ride restarts the timer.
Age == IF ~ft_running /\ running THEN 0 ELSE filter_last_update
Due(f) == /\ running \/ first
          /\ Age > 1
          /\ Distance(f, filter_frequency) > Tolerance
Check ==
  /\ todo["aux"] = 0
  /\ ft_running' = running /\ filter_last_update' = Age
  /\ IF Due(frequency)
     THEN Begin("aux", frequency)
     ELSE UNCHANGED <<threads, overlapped>>
  /\ UNCHANGED <<running, frequency, filter_frequency, first, configured>>

\* main_freq_update_reconfigure or imu_freq_update_reconfigure, a component of it.
Reconfigure(t) ==
  /\ todo[t] \in Indices
  /\ configured' = [configured EXCEPT ![todo[t]] = arg[t]]
  /\ todo' = [todo EXCEPT ![t] = IF t = "command" /\ @ = Components THEN 0 ELSE @ + 1]
  /\ UNCHANGED <<running, ft, arg, overlapped>>

\* The end of frequency_tracker_check, which reads the measured frequency again.
Keep_Nothing == UNCHANGED filter_frequency
Keep == filter_frequency' = frequency
CheckEnds ==
  /\ todo["aux"] = Components + 1
  /\ Keep
  /\ filter_last_update' = 0 /\ first' = FALSE
  /\ todo' = [todo EXCEPT !["aux"] = 0]
  /\ UNCHANGED <<running, frequency, ft_running, configured, arg, overlapped>>

\* reconfigure of a command.
Command ==
  /\ todo["command"] = 0
  /\ Begin("command", filter_frequency)
  /\ UNCHANGED <<running, ft, configured>>

\* The measured frequency drifts; it is filtered, and hardly moves while the
\* components are configured.
Drift ==
  /\ frequency' \in Frequencies
  /\ todo["aux"] # 0 => Distance(frequency', arg["aux"]) <= 1
  /\ UNCHANGED <<running, filter_frequency, first, ft_running, filter_last_update,
                 configured, threads, overlapped>>
EngageOrStop ==
  /\ running' = ~running
  /\ UNCHANGED <<ft, configured, threads, overlapped>>
Second ==
  /\ filter_last_update' = IF filter_last_update = 2 THEN 2 ELSE filter_last_update + 1
  /\ UNCHANGED <<running, frequency, filter_frequency, first, ft_running, configured,
                 threads, overlapped>>

Next ==
  \/ Check \/ CheckEnds \/ Command \/ \E t \in Threads : Reconfigure(t)
  \/ Drift \/ EngageOrStop \/ Second

Spec == Init /\ [][Next]_vars

-----------------------------------------------------------------------------
(* When no thread is configuring, every component is configured for the    *)
(* frequency that the tracker keeps, from which it measures the need of    *)
(* the next change (frequency_tracker.c:51-54), up to the drift meanwhile. *)
(* A command between the callback and the assignment after it configures   *)
(* for the old frequency (overlapped), and the tracker does not notice.    *)
FrequencyApplied ==
  (\A t \in Threads : todo[t] = 0) /\ ~overlapped
     => \A i \in Indices : Distance(configured[i], filter_frequency) <= 1
=============================================================================
