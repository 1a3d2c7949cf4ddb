------------------------------ MODULE SlotPool ------------------------------
(***************************************************************************)
(* The pool of fixed-size frame slots that reader threads claim and the    *)
(* worker releases (include/imgjit/util/slot_pool.h, src/util/slot_pool.cpp).*)
(*                                                                         *)
(* Every critical section under mutex_ is one atomic step.  What is not    *)
(* atomic in the code is not atomic here: release() and close() notify     *)
(* AFTER they drop the mutex, so another thread may run in that window,    *)
(* and a thread that a notification takes off the condition variable must  *)
(* get the mutex again and re-evaluate its predicate before it proceeds.   *)
(* The statistic blocked_claims_ and the slot storage are left out.        *)
(***************************************************************************)
EXTENDS Integers, Sequences, FiniteSets

CONSTANTS
    Claimers,       \* threads that call claim(): one reader thread per connection
    Others,         \* threads that only release() or close(): worker, stop()
    Owners,         \* connection ids
    OwnerOf,        \* the connection a claimer reads for
    Count,          \* number of slots
    PerOwnerCap,    \* constructor argument; 0 means "no cap of its own"
    NoOwner         \* kNoOwner

Threads == Claimers \cup Others

(* The constructor refuses an empty pool; kNoOwner is not a connection id; *)
(* the worker and stop() never claim.                                      *)
ASSUME PoolAssumption ==
    /\ Count \in Nat \ {0}
    /\ PerOwnerCap \in Nat
    /\ NoOwner \notin Owners
    /\ OwnerOf \in [Claimers -> Owners]
    /\ Claimers \cap Others = {}

Slots == 0 .. (Count - 1)

(* per_owner_cap_ after the constructor's normalisation of 0 *)
Cap == IF PerOwnerCap = 0 THEN Count ELSE PerOwnerCap

VARIABLES
    free_list,      \* free slots; claims are served from the back
    owner_of,       \* slot -> connection id, or NoOwner
    held,           \* held_by_owner_; an absent entry is 0
    closed,
    pc              \* thread -> where it is, see States

vars == <<free_list, owner_of, held, closed, pc>>

(* idle:   outside the pool (it may well hold slots)                       *)
(* asleep: in the wait set of available_                                   *)
(* woken:  taken off the wait set, has not got the mutex back yet          *)
(* notify: has changed the state, unlocked, and not called notify_all yet  *)
States == {"idle", "asleep", "woken", "notify"}

Init ==
    /\ free_list = [k \in 1 .. Count |-> Count - k]
    /\ owner_of = [i \in Slots |-> NoOwner]
    /\ held = [o \in Owners |-> 0]
    /\ closed = FALSE
    /\ pc = [t \in Threads |-> "idle"]

----------------------------------------------------------------------------

can_claim_uncapped(owner) == free_list # <<>>

can_claim(owner) == free_list # <<>> /\ held[owner] < Cap

(* The tail of claim(): the predicate holds and the mutex is ours. *)
Take_forget_held(t) ==
    LET index == free_list[Len(free_list)]
    IN  /\ free_list' = SubSeq(free_list, 1, Len(free_list) - 1)
        /\ owner_of' = [owner_of EXCEPT ![index] = OwnerOf[t]]
        /\ pc' = [pc EXCEPT ![t] = "idle"]
        /\ UNCHANGED <<held, closed>>

Take_keep_free(t) ==
    LET index == free_list[Len(free_list)]
    IN  /\ owner_of' = [owner_of EXCEPT ![index] = OwnerOf[t]]
        /\ held' = [held EXCEPT ![OwnerOf[t]] = @ + 1]
        /\ pc' = [pc EXCEPT ![t] = "idle"]
        /\ UNCHANGED <<free_list, closed>>

Take(t) ==
    LET index == free_list[Len(free_list)]
    IN  /\ free_list' = SubSeq(free_list, 1, Len(free_list) - 1)
        /\ owner_of' = [owner_of EXCEPT ![index] = OwnerOf[t]]
        /\ held' = [held EXCEPT ![OwnerOf[t]] = @ + 1]
        /\ pc' = [pc EXCEPT ![t] = "idle"]
        /\ UNCHANGED closed

(* claim() with the mutex held: nullopt when closed, a slot when one may   *)
(* be claimed, otherwise (back) to sleep on the condition variable.        *)
ClaimBody(t) ==
    \/ /\ closed
       /\ pc' = [pc EXCEPT ![t] = "idle"]
       /\ UNCHANGED <<free_list, owner_of, held, closed>>
    \/ /\ ~closed
       /\ can_claim(OwnerOf[t])
       /\ Take(t)
    \/ /\ ~closed
       /\ ~can_claim(OwnerOf[t])
       /\ pc' = [pc EXCEPT ![t] = "asleep"]
       /\ UNCHANGED <<free_list, owner_of, held, closed>>

claim(t) == t \in Claimers /\ pc[t] = "idle" /\ ClaimBody(t)

(* A woken claimer has the mutex again: wait(lock, pred) loops on pred. *)
Resume(t) == pc[t] = "woken" /\ ClaimBody(t)

(* The C++ standard allows a wait to return without a notification. *)
SpuriousWake(t) ==
    /\ pc[t] = "asleep"
    /\ pc' = [pc EXCEPT ![t] = "woken"]
    /\ UNCHANGED <<free_list, owner_of, held, closed>>

(* release(): a slot nobody has claimed is refused with logic_error before *)
(* anything changes, so only claimed slots appear here.                    *)
release(t, index) ==
    /\ pc[t] = "idle"
    /\ owner_of[index] # NoOwner
    /\ held' = [held EXCEPT ![owner_of[index]] = @ - 1]
    /\ owner_of' = [owner_of EXCEPT ![index] = NoOwner]
    /\ free_list' = Append(free_list, index)
    /\ pc' = [pc EXCEPT ![t] = "notify"]
    /\ UNCHANGED closed

close_silently(t) ==
    /\ t \in Others
    /\ pc[t] = "idle"
    /\ closed' = TRUE
    /\ UNCHANGED <<free_list, owner_of, held, pc>>

close(t) ==
    /\ t \in Others
    /\ pc[t] = "idle"
    /\ closed' = TRUE
    /\ pc' = [pc EXCEPT ![t] = "notify"]
    /\ UNCHANGED <<free_list, owner_of, held>>

(* available_.notify_all(), after the mutex was dropped *)
NotifyOne(t) ==
    /\ pc[t] = "notify"
    /\ \/ /\ \A u \in Threads : pc[u] # "asleep"
          /\ pc' = [pc EXCEPT ![t] = "idle"]
       \/ \E u \in Threads : /\ pc[u] = "asleep"
                             /\ pc' = [pc EXCEPT ![t] = "idle", ![u] = "woken"]
    /\ UNCHANGED <<free_list, owner_of, held, closed>>

NotifyAll(t) ==
    /\ pc[t] = "notify"
    /\ pc' = [u \in Threads |-> IF u = t THEN "idle"
                                ELSE IF pc[u] = "asleep" THEN "woken"
                                ELSE pc[u]]
    /\ UNCHANGED <<free_list, owner_of, held, closed>>

Next ==
    \E t \in Threads :
        \/ claim(t)
        \/ Resume(t)
        \/ SpuriousWake(t)
        \/ \E index \in Slots : release(t, index)
        \/ close(t)
        \/ NotifyAll(t)

(* A thread that has work to do inside the pool is eventually scheduled.   *)
(* Nothing says that a caller ever claims, releases or closes.             *)
Fairness == \A t \in Threads : WF_vars(Resume(t)) /\ WF_vars(NotifyAll(t))

Spec == Init /\ [][Next]_vars /\ Fairness

----------------------------------------------------------------------------

(* The variables hold what their C++ types allow. *)
TypeOK ==
    /\ free_list \in Seq(Slots)
    /\ owner_of \in [Slots -> Owners \cup {NoOwner}]
    /\ held \in [Owners -> Nat]
    /\ closed \in BOOLEAN
    /\ pc \in [Threads -> States]
    /\ \A t \in Others : pc[t] \in {"idle", "notify"}

OwnedBy(o) == {i \in Slots : owner_of[i] = o}

(* A slot is in the free list exactly once when nobody owns it and not at  *)
(* all when somebody does: claim() never hands out a slot a frame is in.   *)
FreeOrOwned ==
    /\ \A j, k \in 1 .. Len(free_list) : free_list[j] = free_list[k] => j = k
    /\ \A i \in Slots : (owner_of[i] = NoOwner) <=> \E k \in 1 .. Len(free_list) : free_list[k] = i

(* held_by_owner_ is the number of slots each connection really has, and   *)
(* no interleaving of claims and releases gets a connection past its cap.  *)
HeldWithinCap == \A o \in Owners : held[o] = Cardinality(OwnedBy(o)) /\ held[o] <= Cap

(* slot_pool.cpp 68-71: the pool is never parked with a free slot and a    *)
(* runnable claimant.  A thread asleep on a predicate that is true has a   *)
(* notify_all still to come.                                               *)
NoLostWakeup ==
    \A t \in Claimers :
        (pc[t] = "asleep" /\ (closed \/ can_claim(OwnerOf[t]))) => \E u \in Threads : pc[u] = "notify"

(* slot_pool.h 33-36: with a cap below the pool size, a connection that    *)
(* takes every slot it can get leaves one that any other may claim.        *)
LoudOwnerCannotStarve ==
    Cap < Count =>
        \A loud \in Owners :
            (\A i \in Slots : owner_of[i] \in {NoOwner, loud}) =>
                \A o \in Owners \ {loud} : can_claim(o)

(* A claimer that could proceed does not stay asleep. *)
RunnableClaimerWakes ==
    \A t \in Claimers :
        (pc[t] = "asleep" /\ can_claim(OwnerOf[t])) ~> (pc[t] # "asleep" \/ ~can_claim(OwnerOf[t]))

(* stop() relies on close(): every reader parked in claim() comes back. *)
CloseFreesWaiters == \A t \in Claimers : closed ~> pc[t] \notin {"asleep", "woken"}
=============================================================================
