----------------------------- MODULE JobService -----------------------------
(***************************************************************************)
(* What IBackend promises the server's worker thread                       *)
(* (include/imgjit/backend/backend.h): submit() hands out a new handle and *)
(* never fails, a job is settled once, ok or error, and poll_completions() *)
(* returns every settled job once, in no particular order.                 *)
(***************************************************************************)
EXTENDS Integers

CONSTANT MaxJobs        \* bound: jobs submitted

VARIABLE job            \* handle -> how far its job has got

Handles == 1 .. MaxJobs

(* none -> pending -> ok or error -> got_ok or got_error; submit() may     *)
(* settle a job at once.                                                   *)
JobStates == {"none", "pending", "ok", "error", "got_ok", "got_error"}

Init == job = [h \in Handles |-> "none"]

(* What any call may do to a job that is already there: settle it. *)
Settles(from, to) == to = from \/ (from = "pending" /\ to \in {"ok", "error"})

Submit ==
    \E h \in Handles :
        /\ job[h] = "none" /\ job'[h] \in {"pending", "ok", "error"}
        /\ \A g \in Handles : g < h => job[g] # "none"
        /\ \A g \in Handles \ {h} : Settles(job[g], job'[g])

Settle == \A h \in Handles : Settles(job[h], job'[h])

(* Every job that is settled by now is returned. *)
Returns(from, to) ==
    \/ from \in {"none", "got_ok", "got_error"} /\ to = from
    \/ from \in {"ok", "pending"} /\ to = "got_ok"
    \/ from \in {"error", "pending"} /\ to = "got_error"
    \/ from = "pending" /\ to = "pending"

Poll == \A h \in Handles : Returns(job[h], job'[h])

Next == job' \in [Handles -> JobStates] /\ (Submit \/ Settle \/ Poll)

Spec == Init /\ [][Next]_job
=============================================================================
