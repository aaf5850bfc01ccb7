----------------------------- MODULE MCBoardRide -----------------------------
(* The readings and configurations of MCBoardState, with the history of    *)
(* upside-down rides.                                                      *)
EXTENDS MCBoardState, RideHistory
=============================================================================
