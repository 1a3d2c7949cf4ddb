------------------------- MODULE MCBackendLifetime -------------------------
(* Two streams of seven members each, three starts, three contexts per     *)
(* backend and one cached chain: a failed start can be followed by a       *)
(* failed and by a successful one, and a failed recovery by another.       *)
EXTENDS BackendLifetime
=============================================================================
