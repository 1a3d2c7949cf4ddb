---------------------------- MODULE Completions -----------------------------
(***************************************************************************)
(* struct Completion (include/imgjit/backend/backend.h) and how far a job  *)
(* has got, read off the completions a backend has made and handed out.    *)
(***************************************************************************)
EXTENDS Integers, Sequences

Reports(completions, handle, status) ==
    \E k \in 1 .. Len(completions) : completions[k].handle = handle /\ completions[k].status = status

(* The state of a job in the sense of module JobService *)
JobState(handle, next_handle, completed, returned) ==
    IF Reports(returned, handle, "ok") THEN "got_ok"
    ELSE IF Reports(returned, handle, "error") THEN "got_error"
    ELSE IF Reports(completed, handle, "ok") THEN "ok"
    ELSE IF Reports(completed, handle, "error") THEN "error"
    ELSE IF handle < next_handle THEN "pending"
    ELSE "none"
=============================================================================
