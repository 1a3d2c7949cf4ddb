---------------------------- MODULE CudaBackend -----------------------------
(***************************************************************************)
(* The CUDA backend (src/backend/cuda/cuda_backend.cpp, kernel_cache.cpp): *)
(* K stream slots, the kernel cache, and the recovery that replaces the    *)
(* driver context after any driver error.                                  *)
(*                                                                         *)
(* One thread, the worker, makes all the calls; the GPU runs beside it.    *)
(* submit() is split where it can wait for the GPU (claim_stream), every   *)
(* other call is one step.  An image is the handle it was computed for and *)
(* the parameter it was computed with.  A driver error is sticky: once     *)
(* `poisoned`, every driver call fails until the context is replaced; a    *)
(* fault may strike between any two driver calls.                          *)
(***************************************************************************)
EXTENDS Completions, FiniteSets

CONSTANTS
    StreamCount,    \* constructor argument stream_count
    Jobs,           \* job shapes: [kind, ops, param]
    MaxJobs,        \* bound: jobs submitted
    MaxFaults,      \* bound: driver faults and requested recreations
    Nil

K == IF StreamCount = 0 THEN 1 ELSE StreamCount

(* The kinds of job launch() tells apart: "malformed" (bad input,          *)
(* dimensions or stride), "identity" (empty chain), "uncompilable" (NVRTC  *)
(* rejects it) and "kernel".  `ops` are the op kinds, `param` the values.  *)
ASSUME BackendAssumption ==
    /\ StreamCount \in Nat
    /\ MaxJobs \in Nat
    /\ MaxFaults \in Nat
    /\ \A j \in Jobs : j.kind \in {"malformed", "identity", "uncompilable", "kernel"}
    /\ Nil \notin [handle : Nat, job : Jobs]

VARIABLES
    constants_,     \* constructor argument constants, a ConstantsMode
    context,        \* number of the live context, or Nil
    contexts,       \* contexts created so far
    poisoned,
    allocated,      \* allocate_slots() has run
    streams,        \* streams_: sequence of stream slots
    cache,          \* entries_: compiled chains
    completed,      \* completed_
    next_handle,
    claiming,       \* the job submit() is claiming a stream for, or Nil
    returned,       \* history: the completions poll_completions() returned
    wanted,         \* history: handle -> the parameter the job asked for
    faults

vars == <<constants_, context, contexts, poisoned, allocated, streams, cache, completed, next_handle, claiming,
          returned, wanted, faults>>

Handles == 1 .. MaxJobs

(* A stream slot.  `queued` is what the GPU still has to run on it, in     *)
(* stream order; `staging` is the last image it copied back.  The event    *)
(* `done` has completed when nothing is queued.                            *)
FreshSlot == [busy |-> FALSE, handle |-> 0, queued |-> <<>>, staging |-> Nil]

Init ==
    /\ constants_ \in {"baked", "parameterized"}
    /\ context = 1
    /\ contexts = 1
    /\ poisoned = FALSE
    /\ allocated = FALSE
    /\ streams = <<>>
    /\ cache = {}
    /\ completed = <<>>
    /\ next_handle = 1
    /\ claiming = Nil
    /\ returned = <<>>
    /\ wanted = <<>>
    /\ faults = 0

Done(slot) == slot.queued = <<>>

Idle == claiming = Nil

----------------------------------------------------------------------------
(* The GPU and its driver (external)                                       *)

(* A stream finishes the frame at the head of its work. *)
GpuStep ==
    /\ ~poisoned
    /\ \E s \in 1 .. Len(streams) :
          /\ ~Done(streams[s])
          /\ streams' = [streams EXCEPT ![s] = [@ EXCEPT !.staging = Head(streams[s].queued),
                                                         !.queued = Tail(streams[s].queued)]]
    /\ UNCHANGED <<constants_, context, contexts, poisoned, allocated, cache, completed, next_handle, claiming, returned,
                   wanted, faults>>

DriverFault ==
    /\ context # Nil /\ ~poisoned /\ faults < MaxFaults
    /\ poisoned' = TRUE
    /\ faults' = faults + 1
    /\ UNCHANGED <<constants_, context, contexts, allocated, streams, cache, completed, next_handle, claiming, returned,
                   wanted>>

----------------------------------------------------------------------------
(* Completions                                                             *)

fail_job(handle) == [handle |-> handle, status |-> "error", image |-> Nil]

Succeed(handle, image) == [handle |-> handle, status |-> "ok", image |-> image]

(* The slots of a set in the order a loop over streams_ visits them *)
InSlotOrder(S) ==
    CHOOSE visit \in [1 .. Cardinality(S) -> S] :
        \A i, k \in 1 .. Cardinality(S) : i < k => visit[i] < visit[k]

(* Step 1 of recreate_context(): every frame on the GPU is failed. *)
FailBusy_missing(slots) == <<>>

FailBusy(slots) ==
    LET busy == InSlotOrder({s \in 1 .. Len(slots) : slots[s].busy})
    IN  [k \in DOMAIN busy |-> fail_job(slots[busy[k]].handle)]

(* build_stream_slots(): nothing before allocate_slots(); may stop short   *)
(* when the driver refuses an allocation.                                  *)
Slots(n) == [s \in 1 .. (IF allocated THEN n ELSE 0) |-> FreshSlot]

clear == {}

(* The rebuild half of recreate_context(): no context at all, a context    *)
(* without streams (attach() failed), some streams, or all of them.        *)
Rebuild ==
    /\ cache' = clear
    /\ poisoned' = FALSE
    /\ \/ /\ context' = Nil
          /\ streams' = <<>>
          /\ UNCHANGED contexts
       \/ /\ contexts' = contexts + 1
          /\ context' = contexts'
          /\ \E n \in 0 .. K : streams' = Slots(n)

(* recover(): every busy frame is failed first, then everything the old    *)
(* context owned goes.  `failed` are the completions made just before.     *)
recover(failed) ==
    /\ completed' = completed \o failed \o FailBusy(streams)
    /\ Rebuild

(* retire_ready_streams(), up to slot n: the completions it makes and the  *)
(* slots it leaves                                                         *)
Finished(slot) == slot.busy /\ Done(slot)

Retired(n) ==
    LET finished == InSlotOrder({s \in 1 .. n : Finished(streams[s])})
    IN  [k \in DOMAIN finished |-> Succeed(streams[finished[k]].handle, streams[finished[k]].staging)]

AfterRetire(n) ==
    [s \in 1 .. Len(streams) |->
        IF s <= n /\ Finished(streams[s]) THEN [streams[s] EXCEPT !.busy = FALSE] ELSE streams[s]]

(* A sweep that a driver error stops at slot n + 1: what it retired stays  *)
(* retired, the rest is failed by the recovery.                            *)
Interrupted(n, failed) == Retired(n) \o failed \o FailBusy(AfterRetire(n))

Interruptions == {n \in 0 .. (Len(streams) - 1) : poisoned /\ streams[n + 1].busy}

----------------------------------------------------------------------------
(* KernelCache::get                                                        *)

(* KernelKey equality: the parameters count only when they are baked in. *)
SameKey(entry, j) == entry.ops = j.ops /\ (constants_ = "parameterized" \/ entry.param = j.param)

Hits(j) == {entry \in cache : SameKey(entry, j)}

Compiled(j) == [ops |-> j.ops, param |-> j.param, context |-> context]

(* The image a kernel of this entry makes of job j: the parameter is the   *)
(* one passed at launch, or the literal in the source it was built from.   *)
(* A module of a context that is gone computes nothing.                    *)
Run_cached_param(entry, handle, j) == [handle |-> handle, param |-> entry.param]

Run(entry, handle, j) ==
    [handle |-> handle,
     param |-> IF entry.context # context THEN Nil ELSE IF constants_ = "parameterized" THEN j.param ELSE entry.param]

----------------------------------------------------------------------------
(* allocate_slots(), prewarm(), submit(), poll_completions() and           *)
(* recreate_context(), as the worker calls them                            *)

allocate_slots ==
    /\ Idle /\ ~allocated /\ context # Nil /\ ~poisoned
    /\ allocated' = TRUE
    /\ streams' = [s \in 1 .. K |-> FreshSlot]
    /\ UNCHANGED <<constants_, context, contexts, poisoned, cache, completed, next_handle, claiming, returned, wanted, faults>>

(* Called before the first job; a failure ends the factory, not modelled. *)
prewarm(j) ==
    /\ Idle /\ next_handle = 1 /\ context # Nil /\ ~poisoned
    /\ j.kind = "kernel" /\ Hits(j) = {}
    /\ cache' = cache \cup {Compiled(j)}
    /\ UNCHANGED <<constants_, context, contexts, poisoned, allocated, streams, completed, next_handle, claiming, returned,
                   wanted, faults>>

NewHandle(j) ==
    /\ Idle /\ next_handle <= MaxJobs
    /\ next_handle' = next_handle + 1
    /\ wanted' = Append(wanted, j.param)

(* launch() throws before it touches the driver: no context, a bad job, or *)
(* a chain that NVRTC rejects.                                             *)
SubmitRefused(j) ==
    /\ NewHandle(j)
    /\ context = Nil \/ j.kind \in {"malformed", "uncompilable"}
    /\ completed' = Append(completed, fail_job(next_handle))
    /\ UNCHANGED <<constants_, context, contexts, poisoned, allocated, streams, cache, claiming, returned, faults>>

(* An empty chain completes inline and needs no stream. *)
SubmitIdentity(j) ==
    /\ NewHandle(j)
    /\ context # Nil /\ j.kind = "identity"
    /\ completed' = Append(completed, Succeed(next_handle, [handle |-> next_handle, param |-> j.param]))
    /\ UNCHANGED <<constants_, context, contexts, poisoned, allocated, streams, cache, claiming, returned, faults>>

(* Loading the freshly compiled module is a driver call. *)
SubmitLoadFails(j) ==
    /\ NewHandle(j)
    /\ context # Nil /\ j.kind = "kernel" /\ Hits(j) = {} /\ poisoned
    /\ recover(<<fail_job(next_handle)>>)
    /\ UNCHANGED <<constants_, allocated, claiming, returned, faults>>

(* The kernel is there; without streams that is as far as the job gets. *)
SubmitKernel(j) ==
    /\ NewHandle(j)
    /\ context # Nil /\ j.kind = "kernel" /\ (Hits(j) # {} \/ ~poisoned)
    /\ cache' = IF Hits(j) = {} THEN cache \cup {Compiled(j)} ELSE cache
    /\ \/ /\ streams = <<>>
          /\ completed' = Append(completed, fail_job(next_handle))
          /\ UNCHANGED claiming
       \/ /\ streams # <<>>
          /\ claiming' = [handle |-> next_handle, job |-> j]
          /\ UNCHANGED completed
    /\ UNCHANGED <<constants_, context, contexts, poisoned, allocated, streams, returned, faults>>

(* claim_stream() takes the first slot that is not busy. *)
FreeSlots == {s \in 1 .. Len(streams) : ~streams[s].busy}

Launch ==
    /\ ~Idle /\ FreeSlots # {} /\ ~poisoned
    /\ LET s == CHOOSE s \in FreeSlots : \A r \in FreeSlots : s <= r
           image == Run(CHOOSE entry \in Hits(claiming.job) : TRUE, claiming.handle, claiming.job)
       IN  streams' = [streams EXCEPT ![s] = [@ EXCEPT !.busy = TRUE, !.handle = claiming.handle,
                                                       !.queued = Append(streams[s].queued, image)]]
    /\ claiming' = Nil
    /\ UNCHANGED <<constants_, context, contexts, poisoned, allocated, cache, completed, next_handle, returned, wanted, faults>>

(* Any copy, launch or event record fails: the slot was never marked busy. *)
LaunchFails ==
    /\ ~Idle /\ FreeSlots # {} /\ poisoned
    /\ recover(<<fail_job(claiming.handle)>>)
    /\ claiming' = Nil
    /\ UNCHANGED <<constants_, allocated, next_handle, returned, wanted, faults>>

(* Handles are launched in order, so the oldest frame has the smallest. *)
Oldest == CHOOSE s \in 1 .. Len(streams) : \A r \in 1 .. Len(streams) : streams[s].handle <= streams[r].handle

(* All slots are busy: wait for the oldest, then sweep all of them. *)
ClaimWaits ==
    /\ ~Idle /\ FreeSlots = {} /\ ~poisoned
    /\ Done(streams[Oldest])
    /\ completed' = completed \o Retired(Len(streams))
    /\ streams' = AfterRetire(Len(streams))
    /\ UNCHANGED <<constants_, context, contexts, poisoned, allocated, cache, next_handle, claiming, returned, wanted, faults>>

(* The wait fails, or the wait succeeded and the sweep after it fails. *)
ClaimFails ==
    /\ ~Idle /\ FreeSlots = {} /\ poisoned
    /\ \/ recover(<<fail_job(claiming.handle)>>)
       \/ /\ Done(streams[Oldest])
          /\ \E n \in Interruptions : completed' = completed \o Interrupted(n, <<fail_job(claiming.handle)>>)
          /\ Rebuild
    /\ claiming' = Nil
    /\ UNCHANGED <<constants_, allocated, next_handle, returned, wanted, faults>>

AnyBusy == FreeSlots # 1 .. Len(streams)

(* The sweep adds to completed_ and all of completed_ is returned. *)
Polled_sweep_only == Retired(Len(streams))

Polled == completed \o Retired(Len(streams))

poll_completions ==
    /\ Idle /\ (poisoned => ~AnyBusy)
    /\ returned' = returned \o Polled
    /\ streams' = AfterRetire(Len(streams))
    /\ completed' = <<>>
    /\ UNCHANGED <<constants_, context, contexts, poisoned, allocated, cache, next_handle, claiming, wanted, faults>>

(* The sweep meets the driver error; the completions of the recovery are   *)
(* in completed_ by the time poll_completions() returns it.                *)
PollRecovers ==
    /\ Idle
    /\ \E n \in Interruptions : returned' = returned \o completed \o Interrupted(n, <<>>)
    /\ completed' = <<>>
    /\ Rebuild
    /\ UNCHANGED <<constants_, allocated, next_handle, claiming, wanted, faults>>

(* recreate_context() on request, which the fault-injection tests do *)
recreate_context ==
    /\ Idle /\ faults < MaxFaults
    /\ recover(<<>>)
    /\ faults' = faults + 1
    /\ UNCHANGED <<constants_, allocated, next_handle, claiming, returned, wanted>>

Claim == Launch \/ LaunchFails \/ ClaimWaits \/ ClaimFails

Next ==
    \/ GpuStep \/ DriverFault
    \/ allocate_slots
    \/ \E j \in Jobs : \/ prewarm(j) \/ SubmitRefused(j) \/ SubmitIdentity(j) \/ SubmitLoadFails(j) \/ SubmitKernel(j)
    \/ Claim
    \/ poll_completions \/ PollRecovers
    \/ recreate_context

(* The GPU makes progress unless its context is broken, and the worker,    *)
(* which has jobs in flight, finishes its calls and keeps polling.         *)
Fairness == WF_vars(GpuStep) /\ WF_vars(Claim) /\ WF_vars(poll_completions) /\ WF_vars(PollRecovers)

Spec == Init /\ [][Next]_vars /\ Fairness

----------------------------------------------------------------------------

(* How often handle h is accounted for: on a stream, in the hands of       *)
(* claim_stream, waiting to be polled, or returned.                        *)
Places(h) ==
      Cardinality({s \in 1 .. Len(streams) : streams[s].busy /\ streams[s].handle = h})
    + (IF claiming # Nil /\ claiming.handle = h THEN 1 ELSE 0)
    + Cardinality({k \in 1 .. Len(completed) : completed[k].handle = h})
    + Cardinality({k \in 1 .. Len(returned) : returned[k].handle = h})

(* Across stalls, interrupted sweeps and recoveries no job is forgotten    *)
(* and none completes twice: every handle given out is in one place.       *)
EachJobOnce == \A h \in Handles : Places(h) = (IF h < next_handle THEN 1 ELSE 0)

(* Invariant 3: an ok completion carries the image of its own frame, made  *)
(* with that frame's own parameter.  So no stream is reused while a frame  *)
(* is on it, no cached kernel answers for another parameter, and none of   *)
(* an earlier context is launched after a recovery.                        *)
ImagesAreOwn ==
    \A c \in {completed[k] : k \in 1 .. Len(completed)} \cup {returned[k] : k \in 1 .. Len(returned)} :
        c.status = "ok" => c.image = [handle |-> c.handle, param |-> wanted[c.handle]]

(* Every job that was submitted is returned by poll_completions(). *)
JobsReturn == \A h \in Handles : h < next_handle ~> \E k \in 1 .. Len(returned) : returned[k].handle = h

----------------------------------------------------------------------------

(* The backend as the server sees it *)
Service == INSTANCE JobService WITH job <- [h \in Handles |-> JobState(h, next_handle, completed, returned)]

(* The CUDA backend implements the IBackend contract. *)
ImplementsJobService == Service!Spec
=============================================================================
