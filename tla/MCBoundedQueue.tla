--------------------------- MODULE MCBoundedQueue ---------------------------
(* Three readers and one worker.  Capacity 0 is normalised to one place,   *)
(* for which all readers compete; two places make the order visible.       *)
EXTENDS BoundedQueue
=============================================================================
