---------------------------- MODULE MCBoardState ----------------------------
(* Instances of BoardState for TLC: a default configuration, a user's with *)
(* every riding feature on, and the readings of a ride.                    *)
EXTENDS BoardProperties

MCDefault ==
  [disabled |-> FALSE, temp |-> {}, pitch_tol |-> 4, roll_tol |-> 45,
   fault_pitch |-> 60, fault_roll |-> 60, delay_pitch |-> 2,
   delay_roll |-> 2, delay_full |-> 2, delay_half |-> 1,
   half_erpm |-> 300, darkride |-> FALSE, reversestop |-> FALSE,
   dual_switch |-> FALSE, simplestart |-> FALSE, pushstart |-> FALSE,
   quickstop |-> TRUE, moving_fault_disabled |-> FALSE,
   dirtylandings |-> FALSE]

MCRider ==
  [MCDefault EXCEPT !.darkride = TRUE, !.reversestop = TRUE,
                    !.simplestart = TRUE, !.pushstart = TRUE,
                    !.dirtylandings = TRUE]

MCRideConfigs == {MCRider, MCDefault}
MCConfigs == {[c EXCEPT !.delay_pitch = 0, !.delay_roll = 0,
                        !.delay_full = 0, !.delay_half = 0] : c \in {MCRider, MCDefault}}
MCConfigDefault == [MCDefault EXCEPT !.delay_pitch = 0, !.delay_roll = 0,
                                     !.delay_full = 0, !.delay_half = 0]

Level ==
  [footpad |-> "BOTH", roll |-> 5, pitch |-> 2, balance_pitch |-> 2,
   erpm |-> 0, tilt_small |-> TRUE, pitch_along_erpm |-> TRUE,
   reverse_stop_active |-> FALSE, reverse_stop_stop |-> FALSE,
   centered |-> TRUE, slip |-> FALSE, slip_over |-> TRUE,
   pushback |-> "NONE", imu_startup_done |-> TRUE, konami |-> FALSE]

Pitched(p) == [Level EXCEPT !.pitch = p, !.balance_pitch = p]

\* Riding level, fast or slow, on one, two or no sensors.
Riding == {[Level EXCEPT !.footpad = f, !.erpm = e] :
             f \in FootpadStates, e \in {0, 500, 1500}}
\* Rolled over: on the side, on the way, upside down, going either way.
Rolled == {[Level EXCEPT !.footpad = f, !.roll = r, !.erpm = e] :
             f \in {"NONE", "BOTH"}, r \in {110, 160, 178},
             e \in {-500, 500, 1500, 2500}}
\* Nose or tail down, thrown off or landing.
Tilted == {[Pitched(p) EXCEPT !.footpad = f, !.erpm = e] :
             f \in {"NONE", "HALF"}, p \in {10, 20, 80}, e \in {0, -1500}}
\* Reverse stop, wheel slip and pushback while riding.
Special == {[Level EXCEPT !.footpad = f, !.reverse_stop_active = TRUE,
                          !.reverse_stop_stop = b] :
              f \in {"NONE", "BOTH"}, b \in BOOLEAN}
           \cup {[Level EXCEPT !.slip = TRUE, !.erpm = 2500],
                 [Level EXCEPT !.slip_over = FALSE],
                 [Level EXCEPT !.centered = FALSE],
                 [Level EXCEPT !.pushback = "DUTY", !.erpm = 1500],
                 [Level EXCEPT !.pushback = "OTHER", !.erpm = 1500],
                 [Level EXCEPT !.imu_startup_done = FALSE],
                 [Pitched(80) EXCEPT !.footpad = "NONE", !.konami = TRUE]}
MCRideReadings == Riding \cup Rolled \cup Tilted \cup Special

\* The few readings that make every transition of the commands' runs.
MCCommandReadings ==
  {Level, [Level EXCEPT !.footpad = "NONE"],
   [Pitched(0) EXCEPT !.footpad = "NONE"],
   [Level EXCEPT !.roll = 178, !.footpad = "NONE"],
   [Level EXCEPT !.slip = TRUE, !.erpm = 2500],
   [Pitched(80) EXCEPT !.footpad = "NONE", !.konami = TRUE],
   [Level EXCEPT !.imu_startup_done = FALSE]}
\* The few readings that make every transition of the modes' run.
MCOneConfig == {MCConfigDefault}
MCModeReadings ==
  {Level, [Level EXCEPT !.footpad = "NONE"],
   [Pitched(0) EXCEPT !.footpad = "NONE"],
   [Level EXCEPT !.slip = TRUE, !.erpm = 2500],
   [Pitched(80) EXCEPT !.footpad = "NONE", !.konami = TRUE],
   [Level EXCEPT !.imu_startup_done = FALSE]}
=============================================================================
