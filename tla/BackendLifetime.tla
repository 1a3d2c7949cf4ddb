--------------------------- MODULE BackendLifetime ---------------------------
(***************************************************************************)
(* Who owns which driver handle, and which thread gives it back: the RAII  *)
(* wrappers (src/backend/cuda/cuda_raii.h), the members of CudaBackend     *)
(* (cuda_backend.h), its constructor, allocate_slots() and                 *)
(* recreate_context() (cuda_backend.cpp), KernelCache::get, and the part   *)
(* of Server::Impl that starts, replaces and destroys a backend            *)
(* (src/net/server.cpp: start, worker_main, stop and the destructor).      *)
(*                                                                         *)
(* Any driver call may fail; in a poisoned context every call does.  Every *)
(* throw unwinds what its constructors have finished.  The frames and      *)
(* their completions are the subject of module CudaBackend.                *)
(***************************************************************************)
EXTENDS Integers, Sequences, FiniteSets

CONSTANTS
    StreamCount,        \* stream_count_
    MaxStarts,          \* bound: calls of Server::start()
    MaxContexts,        \* bound: contexts that one backend makes
    MaxModules,         \* bound: chains in one kernel cache
    Nil

VARIABLES
    worker,     \* the worker thread: the number of calls of start(); 0 before the first
    pc,         \* where the worker is; "none" when there is no worker thread
    fresh,      \* the backend the factory is making, or Nil
    backend,    \* Impl::backend, or Nil
    building,   \* handles of the StreamSlot or the CompiledChain under construction
    live,       \* the driver's handles that exist
    poisoned,   \* contexts with a sticky error
    pages,      \* the backends whose memory_ is allocated
    slots,      \* the backend whose memory the server's SlotPool was built on, 0 before that
    stray,      \* history: destroy calls on handles that did not exist
    deaths,     \* history: [context, thread] of every context destroyed
    orphans     \* history: the workers that ended with an exception from allocate_slots()

vars == <<worker, pc, fresh, backend, building, live, poisoned, pages, slots, stray, deaths, orphans>>

Main == 0

(* A context is named <<thread that made it, number>>; every other handle  *)
(* belongs to a context.                                                   *)
Contexts == Nat \X Nat

Kinds ==
    {"context", "module", "registration", "stream", "done", "kernels_begin", "kernels_end", "front", "back",
     "staging"}

Handles == [context : Contexts, kind : Kinds, n : Nat]

Handle(context, kind, n) == [context |-> context, kind |-> kind, n |-> n]

Context(context) == Handle(context, "context", 0)

CudaModule(context, n) == Handle(context, "module", n)

(* RegisteredHostBuffer: the page-locking of its memory in a context *)
Registration(context) == Handle(context, "registration", 0)

(* The members of a StreamSlot, in the order of their construction.  Each  *)
(* wrapper has one handle, which moves with it and is destroyed once.      *)
CudaStream == <<"stream">>
CudaEvents == <<"done", "kernels_begin", "kernels_end">>
DeviceBuffers == <<"front", "back">>
PinnedHostBuffer == <<"staging">>

StreamSlot == CudaStream \o CudaEvents \o DeviceBuffers \o PinnedHostBuffer

(* A CudaBackend: context_ (Nil when empty), how many it has had, cache_,  *)
(* host_slots_ and whether they are registered, streams_                   *)
Backends ==
    [thread : Nat, context : Contexts \cup {Nil}, contexts : Nat, cache : SUBSET Handles, host_slots : BOOLEAN,
     registered : BOOLEAN, streams : Seq(SUBSET Handles)]

ASSUME LifetimeAssumption ==
    /\ {StreamCount, MaxStarts, MaxContexts, MaxModules} \subseteq Nat \ {0}
    /\ Nil \notin Contexts \cup Backends

CudaBackend(thread) ==
    [thread |-> thread, context |-> <<thread, 1>>, contexts |-> 1, cache |-> {}, host_slots |-> FALSE,
     registered |-> FALSE, streams |-> <<>>]

Init ==
    /\ worker = 0 /\ pc = "none"
    /\ fresh = Nil /\ backend = Nil
    /\ building = {} /\ live = {} /\ poisoned = {} /\ pages = {}
    /\ slots = 0
    /\ stray = {} /\ deaths = {} /\ orphans = {}

----------------------------------------------------------------------------
(* The wrappers                                                            *)

(* What the members of a backend hold *)
streams_(b) == UNION {b.streams[s] : s \in 1 .. Len(b.streams)}
host_slots_(b) == IF b.registered THEN {Registration(b.context)} ELSE {}
context_(b) == IF b.context = Nil THEN {} ELSE {Context(b.context)}

(* The order in which the destructor of a backend destroys its members: *)
(* the reverse of their declaration                                     *)
Members_context_first(b) ==
    IF b = Nil THEN <<>> ELSE <<context_(b), streams_(b), host_slots_(b), b.cache>>

Members(b) == IF b = Nil THEN <<>> ELSE <<streams_(b), host_slots_(b), b.cache, context_(b)>>

(* Destroy calls, one set after another, made by `thread`.  A destroy call *)
(* in a poisoned context only reports its error; cuCtxDestroy frees all.   *)
Destroy(order, thread) ==
    LET gone == UNION {order[i] : i \in 1 .. Len(order)}
        contexts == {h.context : h \in {g \in gone : g.kind = "context"}}
        Late(h, i) == h \notin live \/ \E j \in 1 .. i - 1 : Context(h.context) \in order[j]
    IN  /\ live' = {h \in live : h.context \notin contexts /\ (h \in gone => h.context \in poisoned)}
        /\ stray' = stray \cup UNION {{h \in order[i] : Late(h, i)} : i \in 1 .. Len(order)}
        /\ deaths' = deaths \cup {[context |-> c, thread |-> thread] : c \in contexts}
        /\ poisoned' = poisoned \ contexts

NoDestroy == UNCHANGED <<stray, deaths, poisoned>>

(* The destructor of a backend also frees its pages. *)
FreePages(b) == pages' = IF b # Nil /\ b.host_slots THEN pages \ {b.thread} ELSE pages

(* A create call succeeds. *)
Create(h) ==
    /\ h.context \notin poisoned
    /\ live' = live \cup {h}
    /\ NoDestroy

----------------------------------------------------------------------------
(* Starting a worker                                                       *)

start ==
    /\ pc = "none" /\ worker < MaxStarts
    /\ worker' = worker + 1
    /\ pc' = "construct"
    /\ UNCHANGED <<fresh, backend, building, live, poisoned, pages, slots, stray, deaths, orphans>>

(* The factory makes a backend, which makes a context ... *)
CudaContext ==
    /\ pc = "construct"
    /\ Create(Context(<<worker, 1>>))
    /\ fresh' = CudaBackend(worker)
    /\ pc' = "prewarm"
    /\ UNCHANGED <<worker, backend, building, pages, slots, orphans>>

(* ... and fills its cache.  cuModuleLoadData, then get_function for every *)
(* stage, and only then is the module the cache's.                         *)
LoadModule(b) ==
    /\ building = {} /\ b.context # Nil /\ Cardinality(b.cache) < MaxModules
    /\ LET h == CudaModule(b.context, Cardinality(b.cache) + 1)
       IN  Create(h) /\ building' = {h}
    /\ UNCHANGED <<worker, pc, fresh, backend, pages, slots, orphans>>

PrewarmLoad == pc = "prewarm" /\ LoadModule(fresh)

PrewarmInsert ==
    /\ pc = "prewarm" /\ building # {} /\ fresh.context \notin poisoned
    /\ fresh' = [fresh EXCEPT !.cache = @ \cup building]
    /\ building' = {}
    /\ UNCHANGED <<worker, pc, backend, live, poisoned, pages, slots, stray, deaths, orphans>>

(* The constructor or prewarm() throws: the factory's backend is unwound. *)
FactoryThrows ==
    /\ pc \in {"construct", "prewarm"}
    /\ Destroy(<<building>> \o Members(fresh), worker)
    /\ fresh' = Nil /\ building' = {}
    /\ pc' = "failed"
    /\ UNCHANGED <<worker, backend, pages, slots, orphans>>

(* worker_main: the assignment destroys what a failed start left behind. *)
FactoryReturns ==
    /\ pc = "prewarm" /\ building = {}
    /\ Destroy(Members(backend), worker)
    /\ FreePages(backend)
    /\ backend' = fresh /\ fresh' = Nil
    /\ pc' = "register"
    /\ UNCHANGED <<worker, building, slots, orphans>>

(* allocate_slots: the pages, then their registration. *)
RegisterSlots ==
    /\ pc = "register"
    /\ Create(Registration(backend.context))
    /\ backend' = [backend EXCEPT !.host_slots = TRUE, !.registered = TRUE]
    /\ pages' = pages \cup {worker}
    /\ pc' = "streams"
    /\ UNCHANGED <<worker, fresh, building, slots, orphans>>

(* attach() throws in the constructor of RegisteredHostBuffer: nobody      *)
(* frees memory_, and the backend has no host_slots_.                      *)
RegisterThrows ==
    /\ pc = "register"
    /\ pages' = pages \cup {worker}
    /\ pc' = "failed"
    /\ orphans' = orphans \cup {worker}
    /\ UNCHANGED <<worker, fresh, backend, building, live, poisoned, slots, stray, deaths>>

(* build_stream_slots, at startup and after a recovery: one member after   *)
(* another, one slot after another                                         *)
Building == pc \in {"streams", "rebuild"} /\ Len(backend.streams) < StreamCount

StreamSlotMember ==
    LET n == Cardinality(building) + 1
        h == Handle(backend.context, StreamSlot[n], Len(backend.streams) + 1)
        whole == n = Len(StreamSlot)
    IN  /\ Building
        /\ Create(h)
        /\ building' = IF whole THEN {} ELSE building \cup {h}
        /\ backend' = IF whole THEN [backend EXCEPT !.streams = Append(@, building \cup {h})] ELSE backend
        /\ UNCHANGED <<worker, pc, fresh, pages, slots, orphans>>

(* The members that are there are unwound, the slots before them stay. *)
StreamSlotThrows ==
    /\ Building
    /\ Destroy(<<building>>, worker)
    /\ building' = {}
    /\ pc' = IF pc = "streams" THEN "failed" ELSE "serving"
    /\ orphans' = IF pc = "streams" THEN orphans \cup {worker} ELSE orphans
    /\ UNCHANGED <<worker, fresh, backend, pages, slots>>

(* start() returns: the pool stands on the backend's pages. *)
Ready ==
    /\ pc = "streams" /\ ~Building
    /\ slots' = worker
    /\ pc' = "serving"
    /\ UNCHANGED <<worker, fresh, backend, building, live, poisoned, pages, stray, deaths, orphans>>

(* start() joins a worker whose backend could not be made, and throws. *)
StartThrows ==
    /\ pc = "failed"
    /\ pc' = "none"
    /\ UNCHANGED <<worker, fresh, backend, building, live, poisoned, pages, slots, stray, deaths, orphans>>

----------------------------------------------------------------------------
(* Serving                                                                 *)

(* A sticky error, found at some later call (external) *)
DriverFault ==
    /\ \E h \in live : h.kind = "context" /\ h.context \notin poisoned /\ poisoned' = poisoned \cup {h.context}
    /\ UNCHANGED <<worker, pc, fresh, backend, building, live, pages, slots, stray, deaths, orphans>>

(* launch() meets a chain that is not in the cache. *)
ServeLoad == pc = "serving" /\ LoadModule(backend)

ServeInsert ==
    /\ pc = "serving" /\ building # {} /\ backend.context \notin poisoned
    /\ backend' = [backend EXCEPT !.cache = @ \cup building]
    /\ building' = {}
    /\ UNCHANGED <<worker, pc, fresh, live, poisoned, pages, slots, stray, deaths, orphans>>

(* RegisteredHostBuffer::detach: the registration goes, the pages stay. *)
detach_and_free == pages \ {backend.thread}

detach == pages

(* A driver call throws; what is half built is unwound, recover() empties  *)
(* the backend: streams_, cache_, the registration and, last, context_.    *)
recreate_context ==
    /\ pc = "serving" /\ backend.context # Nil
    /\ Destroy(<<building, streams_(backend), backend.cache, host_slots_(backend), context_(backend)>>, worker)
    /\ pages' = detach
    /\ backend' = [backend EXCEPT !.streams = <<>>, !.cache = {}, !.registered = FALSE, !.context = Nil]
    /\ building' = {}
    /\ pc' = "recreate"
    /\ UNCHANGED <<worker, fresh, slots, orphans>>

RecreateContext ==
    LET context == <<worker, backend.contexts + 1>>
    IN  /\ pc = "recreate" /\ backend.contexts < MaxContexts
        /\ Create(Context(context))
        /\ backend' = [backend EXCEPT !.context = context, !.contexts = @ + 1]
        /\ pc' = "attach"
        /\ UNCHANGED <<worker, fresh, building, pages, slots, orphans>>

Attach ==
    /\ pc = "attach"
    /\ Create(Registration(backend.context))
    /\ backend' = [backend EXCEPT !.registered = TRUE]
    /\ pc' = "rebuild"
    /\ UNCHANGED <<worker, fresh, building, pages, slots, orphans>>

(* The rebuild throws, and recover() swallows it. *)
RecreateThrows ==
    /\ pc \in {"recreate", "attach"}
    /\ pc' = "serving"
    /\ UNCHANGED <<worker, fresh, backend, building, live, poisoned, pages, slots, stray, deaths, orphans>>

Recovered ==
    /\ pc = "rebuild" /\ ~Building
    /\ pc' = "serving"
    /\ UNCHANGED <<worker, fresh, backend, building, live, poisoned, pages, slots, stray, deaths, orphans>>

----------------------------------------------------------------------------
(* The end                                                                 *)

(* stop() has the worker leave its loop; the last thing worker_main does   *)
(* is to destroy the backend.                                              *)
WorkerEnds_keeps_backend ==
    /\ pc = "serving" /\ building = {}
    /\ pc' = "none"
    /\ UNCHANGED <<worker, fresh, backend, building, live, poisoned, pages, slots, stray, deaths, orphans>>

WorkerEnds ==
    /\ pc = "serving" /\ building = {}
    /\ Destroy(Members(backend), worker)
    /\ FreePages(backend)
    /\ backend' = Nil
    /\ pc' = "none"
    /\ UNCHANGED <<worker, fresh, building, slots, orphans>>

(* The server is destroyed, and with it a backend that is still there. *)
ServerDestroyed ==
    /\ pc = "none"
    /\ Destroy(Members(backend), Main)
    /\ FreePages(backend)
    /\ backend' = Nil
    /\ pc' = "gone"
    /\ UNCHANGED <<worker, fresh, building, slots, orphans>>

Next ==
    \/ start \/ CudaContext \/ PrewarmLoad \/ PrewarmInsert \/ FactoryThrows \/ FactoryReturns
    \/ RegisterSlots \/ RegisterThrows \/ StreamSlotMember \/ StreamSlotThrows \/ Ready \/ StartThrows
    \/ DriverFault \/ ServeLoad \/ ServeInsert
    \/ recreate_context \/ RecreateContext \/ Attach \/ RecreateThrows \/ Recovered
    \/ WorkerEnds \/ ServerDestroyed

Spec == Init /\ [][Next]_vars

----------------------------------------------------------------------------

(* What the wrappers that exist hold *)
Held(b) == IF b = Nil THEN {} ELSE streams_(b) \cup host_slots_(b) \cup b.cache \cup context_(b)

Wrapped == Held(fresh) \cup Held(backend) \cup building

(* RAII accounts for every handle, across partial construction, failed     *)
(* starts, recoveries and poisoned contexts: nothing is destroyed twice or *)
(* after its context, no wrapper names a handle that is gone, no handle    *)
(* loses its wrapper unless its context is about to go, and when the       *)
(* server is gone so is everything it had from the driver.                 *)
DriverHandlesAccounted ==
    /\ stray = {}
    /\ Wrapped \subseteq live
    /\ \A h \in live \ Wrapped : h.context \in poisoned
    /\ pc = "gone" => live = {}

(* From start() to the end of the worker the memory that readers receive   *)
(* into is allocated and is the backend's own, while contexts come and go. *)
SlotMemoryStaysPut ==
    pc \in {"serving", "recreate", "attach", "rebuild"} => slots \in pages /\ backend # Nil /\ backend.thread = slots

(* Which contexts are destroyed by the thread that made them: all, say     *)
(* cuda_raii.h:20-21, cuda_backend.h:57-58 and server.cpp:326-327, and the *)
(* code says otherwise.  When allocate_slots() throws, worker_main returns *)
(* without a reset, and the next worker's assignment or the server's       *)
(* destructor destroys the context that was left.  Exactly the contexts of *)
(* those workers die on another thread; no recovery, no failed factory and *)
(* no stop() adds to them.                                                 *)
OnlyOrphansDieElsewhere ==
    \A d \in deaths : d.thread # d.context[1] <=> d.context[1] \in orphans
=============================================================================
