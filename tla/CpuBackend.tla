----------------------------- MODULE CpuBackend -----------------------------
(***************************************************************************)
(* The CPU backend (src/backend/cpu/cpu_backend.cpp): submit() runs the    *)
(* whole chain before it returns, so a job is settled as soon as it has a  *)
(* handle.  The pixels are left out; a chain or a frame that makes         *)
(* cpu::apply_chain or Image::from_bytes throw is a failed job.            *)
(***************************************************************************)
EXTENDS Completions

CONSTANT MaxJobs    \* bound: jobs submitted

VARIABLES
    allocated,      \* whether slots_ has its storage
    completed,      \* completed_
    next_handle,    \* next_handle_
    returned        \* history: the completions poll_completions() returned

vars == <<allocated, completed, next_handle, returned>>

Handles == 1 .. MaxJobs

Init ==
    /\ allocated = FALSE
    /\ completed = <<>>
    /\ next_handle = 1
    /\ returned = <<>>

(* Once, at startup: a second call throws and changes nothing. *)
allocate_slots ==
    /\ ~allocated
    /\ allocated' = TRUE
    /\ UNCHANGED <<completed, next_handle, returned>>

(* A malformed job is a completion with an error status, never a throw. *)
submit(status) ==
    /\ next_handle <= MaxJobs
    /\ completed' = Append(completed, [handle |-> next_handle, status |-> status])
    /\ next_handle' = next_handle + 1
    /\ UNCHANGED <<allocated, returned>>

(* std::exchange(completed_, {}): all of it is returned, nothing is left. *)
poll_completions ==
    /\ returned' = returned \o completed
    /\ completed' = <<>>
    /\ UNCHANGED <<allocated, next_handle>>

Next ==
    \/ allocate_slots
    \/ \E status \in {"ok", "error"} : submit(status)
    \/ poll_completions

Spec == Init /\ [][Next]_vars

----------------------------------------------------------------------------

(* Every job comes back once, and in the order of submission: the handles  *)
(* returned and the handles waiting are together 1, 2, 3 ...               *)
ReturnedInOrder ==
    LET all == returned \o completed
    IN  Len(all) = next_handle - 1 /\ \A k \in 1 .. Len(all) : all[k].handle = k

Service == INSTANCE JobService WITH job <- [h \in Handles |-> JobState(h, next_handle, completed, returned)]

(* The CPU backend implements the IBackend contract. *)
ImplementsJobService == Service!Spec
=============================================================================
