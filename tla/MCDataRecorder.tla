--------------------------- MODULE MCDataRecorder ---------------------------
(***************************************************************************)
(* A recorder with two slots.  Each of its settings is changed from its    *)
(* default, one at a time.                                                 *)
(***************************************************************************)
EXTENDS DataRecorder

MCSettings == {<<TRUE, TRUE, 1>>, <<FALSE, TRUE, 1>>, <<TRUE, FALSE, 1>>,
               <<TRUE, TRUE, 2>>}
=============================================================================
