------------------------ MODULE BackendLifetimeProofs ------------------------
(***************************************************************************)
(* Proofs about module BackendLifetime, for every number of streams,       *)
(* starts, contexts and modules.                                           *)
(*                                                                         *)
(* The argument: at any moment there are at most two backends, the one the *)
(* factory is making and the one in Impl::backend.  Each owns one context  *)
(* at most, all it holds is in that context, and every handle that exists  *)
(* is in one of the two contexts.  So destroying a backend, or emptying it *)
(* for a recovery, removes exactly its context's handles (Teardown), and   *)
(* the two contexts differ because their threads do (Apart).  Unwinding a  *)
(* half-built slot keeps the context, and is harmless as its handles are   *)
(* nobody else's (Disjoint).                                               *)
(***************************************************************************)
EXTENDS BackendLifetime, FiniteSetTheorems, TLAPS

(* What the variables hold *)
TypeOK ==
    /\ worker \in Nat
    /\ pc \in {"none", "construct", "prewarm", "failed", "register", "streams", "serving", "recreate", "attach",
               "rebuild", "gone"}
    /\ fresh \in Backends \cup {Nil} /\ backend \in Backends \cup {Nil}
    /\ building \in SUBSET Handles /\ live \in SUBSET Handles
    /\ poisoned \in SUBSET Contexts

(* What a backend holds in its context *)
Parts(b) == streams_(b) \cup host_slots_(b) \cup b.cache

(* The handles in H are parts of the context. *)
Belongs(H, context) == \A h \in H : h.kind # "context" /\ h.context = context

(* A context is made by its backend's thread, and all parts of a backend   *)
(* are in its context.                                                     *)
Own(b) ==
    /\ b.context # Nil => b.context[1] = b.thread
    /\ Belongs(Parts(b), b.context)
    /\ IsFiniteSet(b.cache)

(* Where the worker is once start() has returned *)
Serving == {"serving", "recreate", "attach", "rebuild"}

(* Where the worker is when `backend` is its own *)
Owned == {"register", "streams"} \cup Serving

(* The factory's backend is the current worker's. *)
FreshOK ==
    /\ pc = "prewarm" <=> fresh # Nil
    /\ fresh # Nil => fresh.thread = worker /\ fresh.context # Nil /\ Own(fresh)

(* So is `backend`, from the assignment in worker_main() to the end;       *)
(* recreate_context() has emptied it before it makes a context.            *)
BackendOK ==
    /\ pc \in Owned => backend # Nil /\ backend.thread = worker
    /\ pc \in {"register", "streams", "attach", "rebuild"} => backend.context # Nil
    /\ pc = "recreate" => Parts(backend) = {} /\ ~backend.registered /\ backend.context = Nil
    /\ pc = "gone" => backend = Nil
    /\ backend # Nil => Own(backend)

(* Otherwise `backend` was left by a worker that allocate_slots() threw out. *)
LeftBehind ==
    (pc \notin Owned /\ backend # Nil) =>
        /\ backend.thread \in orphans /\ backend.thread <= worker
        /\ pc \in {"construct", "prewarm"} => backend.thread < worker

(* What is half built belongs to the backend that is building it, and a    *)
(* slot of seven members is never built further than six.                  *)
BuildingOK ==
    /\ building # {} => pc \in {"prewarm", "streams", "rebuild", "serving"}
    /\ pc = "prewarm" => Belongs(building, fresh.context)
    /\ pc # "prewarm" /\ building # {} => Belongs(building, backend.context)
    /\ IsFiniteSet(building)
    /\ pc \in {"streams", "rebuild"} => Cardinality(building) < Len(StreamSlot)

(* Every handle that exists is in the context of one of the two backends. *)
LiveOK ==
    \A h \in live : (fresh # Nil /\ h.context = fresh.context) \/ (backend # Nil /\ h.context = backend.context)

(* The pages of the current worker are there from their registration on,   *)
(* and are the ones the pool was built on.                                 *)
Memory ==
    /\ pc = "streams" => worker \in pages
    /\ pc \in Serving => slots = worker /\ worker \in pages

(* Handles tell by kind and number whose they are: the streams' carry the  *)
(* numbers of the slots, the cache has modules.                            *)
Numbered(b) ==
    /\ \A h \in streams_(b) : h.kind \notin {"module", "registration"} /\ h.n <= Len(b.streams)
    /\ \A h \in b.cache : h.kind = "module"

IsModule(H) == \A h \in H : h.kind = "module"

IsSlot(H, n) == \A h \in H : h.kind \notin {"module", "registration"} /\ h.n = n

(* So the slot under construction has a number of its own, and a module    *)
(* under construction is one.                                              *)
Numbers ==
    /\ fresh # Nil => Numbered(fresh)
    /\ backend # Nil => Numbered(backend)
    /\ pc \in {"prewarm", "serving"} => IsModule(building)
    /\ pc \in {"streams", "rebuild"} /\ building # {} =>
          IsSlot(building, Len(backend.streams) + 1) /\ Len(backend.streams) < StreamCount

(* A context dies on its own thread, or was left behind. *)
HomeOrOrphan == \A d \in deaths : d.context[1] = d.thread \/ d.context[1] \in orphans

(* The inductive invariant *)
IInv ==
    /\ TypeOK /\ FreshOK /\ BackendOK /\ LeftBehind /\ BuildingOK /\ LiveOK /\ Memory /\ Numbers
    /\ DriverHandlesAccounted /\ HomeOrOrphan

USE DEF Contexts, Handles, Main

(* What Destroy does when the last set of the order is the context that    *)
(* everything else belongs to, and when there is no context in the order   *)
TornDown(context, t) ==
    /\ live' = {h \in live : h.context # context}
    /\ stray' = stray
    /\ \A d \in deaths' : d \in deaths \/ (context # Nil /\ d = [context |-> context, thread |-> t])
    /\ poisoned' = poisoned \ {context}

Unwound(gone) ==
    /\ live' = {h \in live : h \in gone => h.context \in poisoned}
    /\ stray' = stray /\ deaths' = deaths /\ poisoned' = poisoned

(* Destroy calls on handles of one context, none of them the context, only *)
(* take those handles away; in a poisoned context they only report.        *)
LEMMA DestroyParts ==
    ASSUME NEW order, Len(order) \in Nat, NEW t, NEW context, live \in SUBSET Handles,
           \A i \in 1 .. Len(order) : order[i] \subseteq live /\ Belongs(order[i], context),
           NEW gone, gone = UNION {order[i] : i \in 1 .. Len(order)}, Destroy(order, t)
    PROVE  Unwound(gone)
<1> DEFINE contexts == {h.context : h \in {g \in gone : g.kind = "context"}}
           Late(h, i) == h \notin live \/ \E j \in 1 .. i - 1 : Context(h.context) \in order[j]
<1>1. contexts = {}
  BY DEF Belongs
<1>2. \A i \in 1 .. Len(order) : \A h \in order[i] : ~Late(h, i)
  <2> SUFFICES ASSUME NEW i \in 1 .. Len(order), NEW h \in order[i], NEW j \in 1 .. i - 1,
                      Context(h.context) \in order[j]
               PROVE  FALSE
    OBVIOUS
  <2>1. j \in 1 .. Len(order)
    OBVIOUS
  <2>2. Context(h.context).kind = "context"
    BY DEF Context, Handle
  <2> QED
    BY <2>1, <2>2 DEF Belongs
<1>3. UNION {{h \in order[i] : Late(h, i)} : i \in 1 .. Len(order)} = {}
  BY <1>2
<1>4. /\ live' = {h \in live : h.context \notin contexts /\ (h \in gone => h.context \in poisoned)}
      /\ stray' = stray \cup UNION {{h \in order[i] : Late(h, i)} : i \in 1 .. Len(order)}
      /\ deaths' = deaths \cup {[context |-> c, thread |-> t] : c \in contexts}
      /\ poisoned' = poisoned \ contexts
  BY DEF Destroy
<1> HIDE DEF contexts, Late
<1>5. stray' = stray /\ poisoned' = poisoned
  BY <1>1, <1>3, <1>4
<1>6. deaths' = deaths
  BY <1>1, <1>4
<1>7. live' = {h \in live : h \in gone => h.context \in poisoned}
  BY <1>1, <1>4
<1> QED
  BY <1>5, <1>6, <1>7 DEF Unwound

(* When the context comes last, everything that belongs to it is destroyed *)
(* before it, once, and nothing of it is left.                             *)
LEMMA DestroyContext ==
    ASSUME NEW order, Len(order) \in Nat \ {0}, NEW t, NEW context \in Contexts, live \in SUBSET Handles,
           \A i \in 1 .. Len(order) - 1 : order[i] \subseteq live /\ Belongs(order[i], context),
           order[Len(order)] = {Context(context)}, Context(context) \in live,
           Destroy(order, t)
    PROVE  TornDown(context, t)
<1> DEFINE gone == UNION {order[i] : i \in 1 .. Len(order)}
           contexts == {h.context : h \in {g \in gone : g.kind = "context"}}
           Late(h, i) == h \notin live \/ \E j \in 1 .. i - 1 : Context(h.context) \in order[j]
<1>a. /\ Context(context).kind = "context"
      /\ Context(context).context = context
  BY DEF Context, Handle
<1>b. \A i \in 1 .. Len(order) : i = Len(order) \/ i \in 1 .. Len(order) - 1
  OBVIOUS
<1>1. contexts = {context}
  <2>1. \A g \in gone : g.kind = "context" => g.context = context
    BY <1>a, <1>b DEF Belongs
  <2>2. Context(context) \in gone
    <3>1. Len(order) \in 1 .. Len(order) /\ Context(context) \in order[Len(order)]
      OBVIOUS
    <3> QED
      BY <3>1
  <2> QED
    BY <2>1, <2>2, <1>a
<1>2. \A i \in 1 .. Len(order) : \A h \in order[i] : ~Late(h, i)
  <2> SUFFICES ASSUME NEW i \in 1 .. Len(order), NEW h \in order[i], Late(h, i)
               PROVE  FALSE
    OBVIOUS
  <2>1. h \in live
    BY <1>b
  <2>2. PICK j \in 1 .. i - 1 : Context(h.context) \in order[j]
    BY <2>1
  <2>3. j \in 1 .. Len(order) - 1
    OBVIOUS
  <2>4. Context(h.context).kind = "context"
    BY DEF Context, Handle
  <2> QED
    BY <2>2, <2>3, <2>4 DEF Belongs
<1>3. UNION {{h \in order[i] : Late(h, i)} : i \in 1 .. Len(order)} = {}
  BY <1>2
<1>4. /\ live' = {h \in live : h.context \notin contexts /\ (h \in gone => h.context \in poisoned)}
      /\ stray' = stray \cup UNION {{h \in order[i] : Late(h, i)} : i \in 1 .. Len(order)}
      /\ deaths' = deaths \cup {[context |-> c, thread |-> t] : c \in contexts}
      /\ poisoned' = poisoned \ contexts
  BY DEF Destroy
<1>8. \A h \in gone : h.context = context
  BY <1>a, <1>b DEF Belongs
<1>9. context # Nil
  BY LifetimeAssumption
<1> HIDE DEF contexts, gone, Late
<1>5. stray' = stray /\ poisoned' = poisoned \ {context}
  BY <1>1, <1>3, <1>4
<1>6. \A d \in deaths' : d \in deaths \/ (context # Nil /\ d = [context |-> context, thread |-> t])
  BY <1>1, <1>4, <1>9
<1>7. live' = {h \in live : h.context # context}
  BY <1>1, <1>4, <1>8
<1> QED
  BY <1>5, <1>6, <1>7 DEF TornDown


(* The members of a backend, in any order that ends with context_, are     *)
(* torn down without a stray call, whether or not the backend has a        *)
(* context at that moment.                                                 *)
LEMMA Teardown ==
    ASSUME NEW b \in Backends, Own(b), NEW order, Len(order) \in Nat \ {0}, NEW t,
           live \in SUBSET Handles, poisoned \in SUBSET Contexts, context_(b) \subseteq live,
           \A i \in 1 .. Len(order) - 1 : order[i] \subseteq live /\ Belongs(order[i], b.context),
           order[Len(order)] = context_(b),
           Destroy(order, t)
    PROVE  TornDown(b.context, t)
<1>0. b.context \in Contexts \cup {Nil}
  BY DEF Backends
<1>1. CASE b.context # Nil
  <2>1. context_(b) = {Context(b.context)}
    BY <1>1 DEF context_
  <2> QED
    BY <1>0, <1>1, <2>1, DestroyContext
<1>2. CASE b.context = Nil
  <2>1. context_(b) = {}
    BY <1>2 DEF context_
  <2>2. \A i \in 1 .. Len(order) : order[i] \subseteq live /\ Belongs(order[i], b.context)
    <3>1. \A i \in 1 .. Len(order) : i = Len(order) \/ i \in 1 .. Len(order) - 1
      OBVIOUS
    <3> QED
      BY <2>1, <3>1 DEF Belongs
  <2>3. Nil \notin Contexts
    BY LifetimeAssumption
  <2>4. \A h \in live : h.context \in Contexts
    OBVIOUS
  <2>5. UNION {order[i] : i \in 1 .. Len(order)} = {}
    BY <1>2, <2>2, <2>3, <2>4 DEF Belongs
  <2>6. Unwound({})
    BY <2>2, <2>5, DestroyParts
  <2> QED
    BY <1>2, <2>3, <2>4, <2>6 DEF Unwound, TornDown
<1> QED
  BY <1>1, <1>2

(* What a backend holds exists and belongs to its context. *)
LEMMA PartsBelong ==
    ASSUME NEW b \in Backends, Own(b), Held(b) \subseteq live
    PROVE  /\ streams_(b) \subseteq live /\ Belongs(streams_(b), b.context)
           /\ host_slots_(b) \subseteq live /\ Belongs(host_slots_(b), b.context)
           /\ b.cache \subseteq live /\ Belongs(b.cache, b.context)
           /\ context_(b) \subseteq live
           /\ b # Nil
BY LifetimeAssumption DEF Held, Own, Parts, Belongs

(* The destructor of a backend is such a teardown ... *)
LEMMA DestroyBackend ==
    ASSUME NEW b \in Backends, Own(b), Held(b) \subseteq live, live \in SUBSET Handles,
           poisoned \in SUBSET Contexts, NEW t, Destroy(Members(b), t)
    PROVE  TornDown(b.context, t)
<1>1. PICK order : order = Members(b)
  OBVIOUS
<1>2. order = <<streams_(b), host_slots_(b), b.cache, context_(b)>>
  BY <1>1, PartsBelong DEF Members
<1>3. Len(order) = 4 /\ order[Len(order)] = context_(b)
  BY <1>2
<1>4. \A i \in 1 .. Len(order) - 1 : order[i] \in {streams_(b), host_slots_(b), b.cache}
  BY <1>2, <1>3
<1>5. \A i \in 1 .. Len(order) - 1 : order[i] \subseteq live /\ Belongs(order[i], b.context)
  BY <1>4, PartsBelong
<1> QED
  BY <1>1, <1>3, <1>5, PartsBelong, Teardown

(* ... so is the unwinding of a backend whose prewarm() throws while a     *)
(* module is half loaded ...                                               *)
LEMMA DestroyUnfinished ==
    ASSUME NEW b \in Backends, Own(b), Held(b) \subseteq live, live \in SUBSET Handles,
           poisoned \in SUBSET Contexts, NEW H, H \subseteq live, Belongs(H, b.context),
           NEW t, Destroy(<<H>> \o Members(b), t)
    PROVE  TornDown(b.context, t)
<1>1. PICK order : order = <<H>> \o Members(b)
  OBVIOUS
<1>2. Members(b) = <<streams_(b), host_slots_(b), b.cache, context_(b)>>
  BY PartsBelong DEF Members
<1>3. PICK m : m = Members(b)
  OBVIOUS
<1>a. m = <<streams_(b), host_slots_(b), b.cache, context_(b)>> /\ order = <<H>> \o m
  BY <1>1, <1>2, <1>3
<1>b. /\ m \in Seq({streams_(b), host_slots_(b), b.cache, context_(b)})
      /\ Len(m) = 4 /\ m[1] = streams_(b) /\ m[2] = host_slots_(b) /\ m[3] = b.cache /\ m[4] = context_(b)
  BY <1>a
<1>c. /\ Len(order) = 5 /\ order[1] = H /\ order[2] = m[1] /\ order[3] = m[2] /\ order[4] = m[3] /\ order[5] = m[4]
  BY <1>a, <1>b
<1>4. Len(order) = 5 /\ order[Len(order)] = context_(b)
  BY <1>b, <1>c
<1>5. \A i \in 1 .. Len(order) - 1 : order[i] \in {H, streams_(b), host_slots_(b), b.cache}
  BY <1>b, <1>c
<1>6. \A i \in 1 .. Len(order) - 1 : order[i] \subseteq live /\ Belongs(order[i], b.context)
  BY <1>5, PartsBelong
<1>7. Destroy(order, t)
  BY <1>1
<1>8. Len(order) \in Nat \ {0} /\ context_(b) \subseteq live
  BY <1>4, PartsBelong
<1> QED
  BY <1>4, <1>6, <1>7, <1>8, Teardown

(* ... and so is what recreate_context() destroys, in its own order. *)
LEMMA DestroyForRecovery ==
    ASSUME NEW b \in Backends, Own(b), Held(b) \subseteq live, live \in SUBSET Handles,
           poisoned \in SUBSET Contexts, NEW H, H \subseteq live, Belongs(H, b.context),
           NEW t, Destroy(<<H, streams_(b), b.cache, host_slots_(b), context_(b)>>, t)
    PROVE  TornDown(b.context, t)
<1>1. PICK order : order = <<H, streams_(b), b.cache, host_slots_(b), context_(b)>>
  OBVIOUS
<1>2. Len(order) = 5 /\ order[Len(order)] = context_(b)
  BY <1>1
<1>3. \A i \in 1 .. Len(order) - 1 : order[i] \in {H, streams_(b), host_slots_(b), b.cache}
  BY <1>1, <1>2
<1>4. \A i \in 1 .. Len(order) - 1 : order[i] \subseteq live /\ Belongs(order[i], b.context)
  BY <1>3, PartsBelong
<1> QED
  BY <1>1, <1>2, <1>4, PartsBelong, Teardown

(* Unwinding one half-built StreamSlot *)
LEMMA DestroyHalfBuilt ==
    ASSUME live \in SUBSET Handles, NEW H, H \subseteq live, NEW context, Belongs(H, context), NEW t,
           Destroy(<<H>>, t)
    PROVE  Unwound(H)
<1>1. PICK order : order = <<H>>
  OBVIOUS
<1>2. Len(order) = 1 /\ \A i \in 1 .. Len(order) : order[i] = H
  BY <1>1
<1>3. UNION {order[i] : i \in 1 .. Len(order)} = H
  <2>1. 1 \in 1 .. Len(order)
    BY <1>2
  <2> QED
    BY <1>2, <2>1
<1>4. Destroy(order, t) /\ Len(order) \in Nat
  BY <1>1, <1>2
<1>5. \A i \in 1 .. Len(order) : order[i] \subseteq live /\ Belongs(order[i], context)
  BY <1>2
<1> QED
  BY <1>3, <1>4, <1>5, DestroyParts

(* A backend that gains handles of its own context stays a backend that    *)
(* owns what it holds, and holds just these in addition.                   *)
LEMMA Grown ==
    ASSUME NEW b \in Backends, Own(b), NEW c \in Backends, c.context = b.context, c.thread = b.thread,
           NEW H, Belongs(H, b.context), Parts(c) = Parts(b) \cup H, IsFiniteSet(c.cache)
    PROVE  Own(c) /\ Held(c) = Held(b) \cup H
<1>1. b # Nil /\ c # Nil
  BY LifetimeAssumption
<1>2. context_(c) = context_(b)
  BY DEF context_
<1>3. Held(c) = Parts(c) \cup context_(c) /\ Held(b) = Parts(b) \cup context_(b)
  BY <1>1 DEF Held, Parts
<1>4. Own(c)
  BY DEF Own, Belongs
<1> QED
  BY <1>2, <1>3, <1>4

(* The changes that operations make to a backend *)
WithModules(b, H) == [b EXCEPT !.cache = @ \cup H]

WithSlot(b, H) == [b EXCEPT !.streams = Append(@, H)]

Cleared(b) == [b EXCEPT !.streams = <<>>, !.cache = {}, !.registered = FALSE, !.context = Nil]

WithContext(b, n) == [b EXCEPT !.context = <<b.thread, n>>, !.contexts = @ + 1]

(* What KernelCache::get does to a backend *)
LEMMA CacheGrows ==
    ASSUME NEW b \in Backends, NEW H \in SUBSET Handles, IsFiniteSet(H), NEW c, c = WithModules(b, H),
           Own(b), Numbered(b), IsModule(H)
    PROVE  /\ c \in Backends /\ c.context = b.context /\ c.thread = b.thread
           /\ Parts(c) = Parts(b) \cup H /\ IsFiniteSet(c.cache) /\ Numbered(c)
<1>1. c \in Backends
  BY DEF Backends, WithModules
<1>2. /\ c.context = b.context /\ c.thread = b.thread /\ c.streams = b.streams /\ c.registered = b.registered
      /\ c.cache = b.cache \cup H
  BY DEF Backends, WithModules
<1>3. streams_(c) = streams_(b) /\ host_slots_(c) = host_slots_(b)
  BY <1>2 DEF streams_, host_slots_
<1>4. IsFiniteSet(b.cache \cup H)
  BY FS_Union DEF Own
<1>5. Numbered(c)
  BY <1>2, <1>3 DEF Numbered, IsModule
<1> QED
  BY <1>1, <1>2, <1>3, <1>4, <1>5 DEF Parts

(* What RegisteredHostBuffer::attach does to a backend *)
LEMMA RegistrationAdded ==
    ASSUME NEW b \in Backends, b.context # Nil, Numbered(b), NEW c,
           \/ c = [b EXCEPT !.registered = TRUE]
           \/ c = [b EXCEPT !.host_slots = TRUE, !.registered = TRUE]
    PROVE  /\ c \in Backends /\ c.context = b.context /\ c.thread = b.thread
           /\ Parts(c) \cup {Registration(b.context)} = Parts(b) \cup {Registration(b.context)}
           /\ Registration(b.context) \in Parts(c) /\ c.cache = b.cache /\ Numbered(c)
<1>1. c \in Backends
  BY DEF Backends
<1>2. /\ c.context = b.context /\ c.thread = b.thread /\ c.streams = b.streams /\ c.registered
      /\ c.cache = b.cache
  BY DEF Backends
<1>3. streams_(c) = streams_(b) /\ host_slots_(c) = {Registration(b.context)}
  BY <1>2 DEF streams_, host_slots_
<1>4. host_slots_(b) \in {{}, {Registration(b.context)}}
  BY DEF host_slots_
<1>5. Numbered(c)
  BY <1>2, <1>3 DEF Numbered
<1> QED
  BY <1>1, <1>2, <1>3, <1>4, <1>5 DEF Parts

(* What build_stream_slots does to a backend when a slot is whole *)
LEMMA SlotAdded ==
    ASSUME NEW b \in Backends, NEW H \in SUBSET Handles, NEW c, c = WithSlot(b, H),
           Numbered(b), IsSlot(H, Len(b.streams) + 1)
    PROVE  /\ c \in Backends /\ c.context = b.context /\ c.thread = b.thread
           /\ Parts(c) = Parts(b) \cup H /\ c.cache = b.cache /\ Numbered(c)
<1>0. b.streams \in Seq(SUBSET Handles)
  BY DEF Backends, WithSlot
<1>1. PICK q : q = Append(b.streams, H)
  OBVIOUS
<1>2. /\ q \in Seq(SUBSET Handles) /\ Len(q) = Len(b.streams) + 1 /\ q[Len(b.streams) + 1] = H
      /\ \A i \in 1 .. Len(b.streams) : q[i] = b.streams[i]
      /\ Len(b.streams) \in Nat
  BY <1>0, <1>1
<1>3. c \in Backends
  BY <1>1, <1>2 DEF Backends, WithSlot
<1>4. /\ c.context = b.context /\ c.thread = b.thread /\ c.registered = b.registered
      /\ c.cache = b.cache /\ c.streams = q
  BY <1>1 DEF Backends, WithSlot
<1>5. host_slots_(c) = host_slots_(b)
  BY <1>4 DEF host_slots_
<1>6. streams_(c) = streams_(b) \cup H
  <2>1. 1 .. Len(q) = (1 .. Len(b.streams)) \cup {Len(b.streams) + 1}
    BY <1>2
  <2> QED
    BY <1>2, <1>4, <2>1 DEF streams_
<1>7. Numbered(c)
  <2>1. \A h \in streams_(b) : h.n \in Nat
    BY <1>0 DEF streams_
  <2>2. Len(c.streams) = Len(b.streams) + 1
    BY <1>2, <1>4
  <2>3. \A h \in streams_(b) : h.kind \notin {"module", "registration"} /\ h.n <= Len(c.streams)
    BY <1>2, <2>1, <2>2 DEF Numbered
  <2>4. \A h \in H : h.kind \notin {"module", "registration"} /\ h.n <= Len(c.streams)
    BY <1>2, <2>2 DEF IsSlot
  <2>5. \A h \in c.cache : h.kind = "module"
    BY <1>4 DEF Numbered
  <2> QED
    BY <1>6, <2>3, <2>4, <2>5 DEF Numbered
<1> QED
  BY <1>3, <1>4, <1>5, <1>6, <1>7 DEF Parts


(* Facts about Nil, empty sets and fields that every step needs *)
LEMMA Basics ==
    /\ Held(Nil) = {} /\ Nil \notin Contexts /\ Nil \notin Backends
    /\ StreamCount \in Nat \ {0}
    /\ \A c : Belongs({}, c) /\ IsSlot({}, c)
    /\ IsModule({})
    /\ IsFiniteSet({}) /\ Cardinality({}) = 0
    /\ \A b \in Backends : b.thread \in Nat /\ b.context \in Contexts \cup {Nil}
BY LifetimeAssumption, FS_EmptySet DEF Held, Belongs, Backends, IsModule, IsSlot

(* Concatenation keeps the type and adds the lengths. *)
LEMMA Concatenated ==
    ASSUME NEW S, NEW p \in Seq(S), NEW q \in Seq(S)
    PROVE  p \o q \in Seq(S) /\ Len(p \o q) = Len(p) + Len(q)
OBVIOUS

(* Tuples as sequences *)
LEMMA Listed ==
    ASSUME NEW S, NEW a \in S, NEW b \in S, NEW c \in S
    PROVE  /\ <<a>> \in Seq(S) /\ Len(<<a>>) = 1
           /\ <<a, b>> \in Seq(S) /\ Len(<<a, b>>) = 2
           /\ <<a, b, c>> \in Seq(S) /\ Len(<<a, b, c>>) = 3
OBVIOUS

(* The members of a stream slot: seven, none of them a context *)
LEMMA SlotMembers ==
    /\ Len(StreamSlot) = 7
    /\ \A n \in 1 .. 7 : StreamSlot[n] \in Kinds \ {"context", "module", "registration"}
<1>1. PICK S : S = {"stream", "done", "kernels_begin", "kernels_end", "front", "back", "staging"}
  OBVIOUS
<1>2. \A k \in S : k \in Kinds \ {"context", "module", "registration"}
  BY <1>1 DEF Kinds
<1>3. PICK p : p = CudaStream
  OBVIOUS
<1>4. PICK q : q = CudaEvents
  OBVIOUS
<1>5. PICK r : r = DeviceBuffers
  OBVIOUS
<1>6. PICK u : u = PinnedHostBuffer
  OBVIOUS
<1>7. p \in Seq(S) /\ Len(p) = 1 /\ u \in Seq(S) /\ Len(u) = 1
  BY <1>1, <1>3, <1>6, Listed DEF CudaStream, PinnedHostBuffer
<1>8. q \in Seq(S) /\ Len(q) = 3
  BY <1>1, <1>4, Listed DEF CudaEvents
<1>9. r \in Seq(S) /\ Len(r) = 2
  BY <1>1, <1>5, Listed DEF DeviceBuffers
<1>10. StreamSlot = p \o q \o r \o u
  BY <1>3, <1>4, <1>5, <1>6 DEF StreamSlot
<1>11. PICK v : v = p \o q
  OBVIOUS
<1>12. PICK w : w = v \o r
  OBVIOUS
<1>13. PICK z : z = w \o u
  OBVIOUS
<1>14. v \in Seq(S) /\ Len(v) = Len(p) + Len(q)
  BY <1>7, <1>8, <1>11, Concatenated
<1>15. w \in Seq(S) /\ Len(w) = Len(v) + Len(r)
  BY <1>9, <1>12, <1>14, Concatenated
<1>16. z \in Seq(S) /\ Len(z) = Len(w) + Len(u)
  BY <1>7, <1>13, <1>15, Concatenated
<1>17. Len(z) = 7
  BY <1>7, <1>8, <1>9, <1>14, <1>15, <1>16
<1>18. \A n \in 1 .. 7 : z[n] \in S
  <2>1. z \in Seq(S)
    BY <1>16
  <2>2. \A n \in 1 .. Len(z) : z[n] \in S
    BY <2>1
  <2> QED
    BY <1>17, <2>2
<1>19. StreamSlot = z
  BY <1>10, <1>11, <1>12, <1>13
<1> QED
  BY <1>2, <1>17, <1>18, <1>19

(* The invariant holds before the first start(). *)
LEMMA InitHolds == Init => IInv
BY Basics
DEF Init, IInv, TypeOK, FreshOK, BackendOK, LeftBehind, BuildingOK, LiveOK, Memory, Numbers,
    DriverHandlesAccounted,
              HomeOrOrphan, Owned, Serving, Wrapped

(* Steps that move the program counter or poison a context *)
LEMMA ControlSteps ==
    ASSUME IInv, start \/ RegisterThrows \/ Ready \/ StartThrows \/ RecreateThrows \/ Recovered
    PROVE  IInv'
<1>1. CASE start
  BY <1>1, Basics, SlotMembers
  DEF start, IInv, TypeOK, FreshOK, BackendOK, LeftBehind, BuildingOK, LiveOK, Memory, Numbers,
      DriverHandlesAccounted, HomeOrOrphan, Owned, Serving, Wrapped
<1>2. CASE RegisterThrows
  BY <1>2, Basics
  DEF RegisterThrows, IInv, TypeOK, FreshOK, BackendOK, LeftBehind, BuildingOK, LiveOK, Memory, Numbers,
      DriverHandlesAccounted, HomeOrOrphan, Owned, Serving, Wrapped
<1>3. CASE Ready
  <2>1. building = {} /\ IsModule(building)
    <3>1. backend # Nil /\ backend \in Backends /\ Len(backend.streams) \in Nat
      BY <1>3 DEF Ready, IInv, TypeOK, BackendOK, Owned, Serving, Backends
    <3>2. building = {}
      BY <1>3, <3>1, Basics DEF Ready, Building, IInv, Numbers
    <3> QED
      BY <3>2, Basics
  <2> QED
    BY <1>3, <2>1, Basics
    DEF Ready, IInv, TypeOK, FreshOK, BackendOK, LeftBehind, BuildingOK, LiveOK, Memory, Numbers,
        DriverHandlesAccounted, HomeOrOrphan, Owned, Serving, Wrapped
<1>4. CASE StartThrows
  BY <1>4, Basics
  DEF StartThrows, IInv, TypeOK, FreshOK, BackendOK, LeftBehind, BuildingOK, LiveOK, Memory, Numbers,
      DriverHandlesAccounted, HomeOrOrphan, Owned, Serving, Wrapped
<1>5. CASE RecreateThrows
  BY <1>5, Basics
  DEF RecreateThrows, IInv, TypeOK, FreshOK, BackendOK, LeftBehind, BuildingOK, LiveOK, Memory, Numbers,
      DriverHandlesAccounted, HomeOrOrphan, Owned, Serving, Wrapped
<1>6. CASE Recovered
  <2>1. building = {} /\ IsModule(building)
    <3>1. backend # Nil /\ backend \in Backends /\ Len(backend.streams) \in Nat
      BY <1>6 DEF Recovered, IInv, TypeOK, BackendOK, Owned, Serving, Backends
    <3>2. building = {}
      BY <1>6, <3>1, Basics DEF Recovered, Building, IInv, Numbers
    <3> QED
      BY <3>2, Basics
  <2> QED
    BY <1>6, <2>1, Basics
    DEF Recovered, IInv, TypeOK, FreshOK, BackendOK, LeftBehind, BuildingOK, LiveOK, Memory, Numbers,
        DriverHandlesAccounted, HomeOrOrphan, Owned, Serving, Wrapped
<1> QED
  BY <1>1, <1>2, <1>3, <1>4, <1>5, <1>6

(* A sticky error only adds to the poisoned contexts. *)
LEMMA FaultStep == ASSUME IInv, DriverFault PROVE IInv'
BY Basics
DEF DriverFault, IInv, TypeOK, FreshOK, BackendOK, LeftBehind, BuildingOK, LiveOK, Memory, Numbers,
    DriverHandlesAccounted, HomeOrOrphan, Owned, Serving, Wrapped

(* All that a backend holds belongs to its context. *)
LEMMA HeldContext ==
    ASSUME NEW b \in Backends, Own(b)
    PROVE  \A h \in Held(b) : h.context = b.context
BY Basics DEF Held, Own, Parts, Belongs, context_, Context, Handle

(* The constructor's backend holds its context and nothing else. *)
LEMMA NewBackend ==
    ASSUME NEW t \in Nat
    PROVE  /\ CudaBackend(t) \in Backends /\ CudaBackend(t).thread = t /\ CudaBackend(t).context = <<t, 1>>
           /\ Own(CudaBackend(t)) /\ Held(CudaBackend(t)) = {Context(<<t, 1>>)} /\ Numbered(CudaBackend(t))
<1> DEFINE b == CudaBackend(t)
<1>1. /\ b.thread = t /\ b.context = <<t, 1>> /\ b.cache = {} /\ ~b.registered /\ b.streams = <<>>
      /\ b.contexts = 1 /\ ~b.host_slots
  BY DEF CudaBackend
<1>2. b \in Backends
  BY DEF CudaBackend, Backends
<1>3. streams_(b) = {} /\ host_slots_(b) = {}
  BY <1>1 DEF streams_, host_slots_
<1>4. context_(b) = {Context(<<t, 1>>)}
  BY <1>1, Basics DEF context_
<1> HIDE DEF b
<1>5. Own(b)
  BY <1>1, <1>3, Basics DEF Own, Parts
<1>6. Held(b) = {Context(<<t, 1>>)}
  BY <1>1, <1>2, <1>3, <1>4, Basics DEF Held
<1>7. Numbered(b)
  BY <1>1, <1>3 DEF Numbered
<1> QED
  BY <1>1, <1>2, <1>5, <1>6, <1>7 DEF b

(* After its teardown recreate_context() leaves a backend that holds       *)
(* nothing.                                                                *)
LEMMA Emptied ==
    ASSUME NEW b \in Backends, NEW c,
           c = Cleared(b)
    PROVE  /\ c \in Backends /\ c.context = Nil /\ c.thread = b.thread /\ ~c.registered
           /\ Parts(c) = {} /\ Own(c) /\ Held(c) = {} /\ Numbered(c)
<1>0. <<>> \in Seq(SUBSET Handles) /\ {} \in SUBSET Handles
  OBVIOUS
<1>1. c \in Backends
  BY <1>0 DEF Backends, Cleared
<1>2. /\ c.context = Nil /\ c.thread = b.thread /\ ~c.registered /\ c.cache = {} /\ c.streams = <<>>
  BY DEF Backends, Cleared
<1>3. streams_(c) = {} /\ host_slots_(c) = {} /\ context_(c) = {}
  BY <1>2 DEF streams_, host_slots_, context_
<1>4. Parts(c) = {}
  BY <1>2, <1>3 DEF Parts
<1>5. Own(c)
  BY <1>2, <1>4, Basics DEF Own
<1>6. Held(c) = {}
  BY <1>1, <1>2, <1>3 DEF Held
<1>7. Numbered(c)
  BY <1>2, <1>3 DEF Numbered
<1> QED
  BY <1>1, <1>2, <1>4, <1>5, <1>6, <1>7

(* A new context is then all that it holds. *)
LEMMA Refilled ==
    ASSUME NEW b \in Backends, Parts(b) = {}, ~b.registered, NEW n \in Nat, NEW c,
           c = WithContext(b, n)
    PROVE  /\ c \in Backends /\ c.context = <<b.thread, n>> /\ c.thread = b.thread
           /\ Own(c) /\ Held(c) = {Context(<<b.thread, n>>)} /\ Numbered(c)
<1>0. b.contexts + 1 \in Nat /\ <<b.thread, n>> \in Contexts
  BY DEF Backends, WithContext
<1>1. c \in Backends
  BY <1>0 DEF Backends, WithContext
<1>2. /\ c.context = <<b.thread, n>> /\ c.thread = b.thread /\ c.registered = b.registered /\ c.cache = b.cache
      /\ c.streams = b.streams
  BY DEF Backends, WithContext
<1>3. streams_(c) = {} /\ host_slots_(c) = {} /\ c.cache = {}
  BY <1>2 DEF streams_, host_slots_, Parts
<1>4. b.thread \in Nat /\ c.context # Nil
  BY <1>2, Basics
<1>5. context_(c) = {Context(<<b.thread, n>>)}
  BY <1>2, <1>4 DEF context_
<1>6. Own(c)
  BY <1>2, <1>3, Basics DEF Own, Parts
<1>7. Held(c) = {Context(<<b.thread, n>>)}
  BY <1>1, <1>3, <1>5, Basics DEF Held
<1>8. Numbered(c)
  BY <1>3 DEF Numbered
<1> QED
  BY <1>1, <1>2, <1>6, <1>7, <1>8

(* A slot under construction shares no handle with what the backend holds, *)
(* so that unwinding it takes nothing from the slots before it.            *)
LEMMA Disjoint ==
    ASSUME NEW b \in Backends, Own(b), Numbered(b), NEW H, Belongs(H, b.context), IsSlot(H, Len(b.streams) + 1)
    PROVE  H \cap Held(b) = {}
<1>1. b.streams \in Seq(SUBSET Handles) /\ b # Nil
  BY Basics DEF Backends
<1>2. Len(b.streams) \in Nat /\ \A h \in streams_(b) : h.n \in Nat
  BY <1>1 DEF streams_
<1>3. \A h \in H : h \notin streams_(b)
  BY <1>2 DEF IsSlot, Numbered
<1>4. \A h \in H : h \notin host_slots_(b) /\ h \notin b.cache /\ h \notin context_(b)
  BY DEF IsSlot, Numbered, Belongs, host_slots_, context_, Registration, Context, Handle
<1> QED
  BY <1>1, <1>3, <1>4 DEF Held

(* Destroying no backend changes nothing. *)
LEMMA DestroyNothing ==
    ASSUME live \in SUBSET Handles, NEW t, Destroy(<<>>, t)
    PROVE  Unwound({})
<1>1. PICK order : order = <<>>
  OBVIOUS
<1>2. Len(order) = 0 /\ 1 .. Len(order) = {}
  BY <1>1
<1>3. {} = UNION {order[i] : i \in 1 .. Len(order)}
  BY <1>2
<1>4. Destroy(order, t) /\ Len(order) \in Nat
  BY <1>1, <1>2
<1>5. \A i \in 1 .. Len(order) : order[i] \subseteq live /\ Belongs(order[i], Nil)
  BY <1>2
<1> QED
  BY <1>3, <1>4, <1>5, DestroyParts



(* The constructor of a backend makes its first context. *)
LEMMA ContextMade == ASSUME IInv, CudaContext PROVE IInv'
<1>1. PICK b : b = CudaBackend(worker)
  OBVIOUS
<1>2. /\ b \in Backends /\ b.thread = worker /\ b.context = <<worker, 1>> /\ Own(b) /\ Numbered(b)
      /\ Held(b) = {Context(<<worker, 1>>)}
  BY <1>1, NewBackend DEF IInv, TypeOK
<1>3. /\ Context(<<worker, 1>>) \in Handles /\ Context(<<worker, 1>>).context = <<worker, 1>>
      /\ <<worker, 1>> # Nil /\ b # Nil
  BY <1>2, Basics DEF Context, Handle, Kinds, IInv, TypeOK
<1>4. /\ pc = "construct" /\ pc' = "prewarm" /\ fresh' = b
      /\ live' = live \cup {Context(<<worker, 1>>)}
      /\ UNCHANGED <<worker, backend, building, pages, slots, orphans, stray, deaths, poisoned>>
  BY <1>1 DEF CudaContext, Create, NoDestroy
<1>5. building = {} /\ building' = {}
  BY <1>4 DEF IInv, BuildingOK
<1> QED
  BY <1>2, <1>3, <1>4, <1>5, Basics
  DEF IInv, TypeOK, FreshOK, BackendOK, LeftBehind, BuildingOK, LiveOK, Memory, Numbers, DriverHandlesAccounted,
       HomeOrOrphan, Owned, Serving, Wrapped

(* The module that LoadModule makes *)
LEMMA ModuleHandle ==
    ASSUME NEW b \in Backends, Own(b), b.context # Nil, NEW h, h = CudaModule(b.context, Cardinality(b.cache) + 1)
    PROVE  h \in Handles /\ Belongs({h}, b.context) /\ IsFiniteSet({h}) /\ h.context = b.context /\ IsModule({h})
<1>1. Cardinality(b.cache) \in Nat /\ IsFiniteSet({h})
  BY FS_CardinalityType, FS_Singleton DEF Own
<1>2. b.context \in Contexts
  BY Basics
<1> QED
  BY <1>1, <1>2 DEF CudaModule, Handle, Belongs, Kinds, IsModule

(* cuModuleLoadData in prewarm() or in launch() *)
LEMMA ModuleLoaded == ASSUME IInv, PrewarmLoad \/ ServeLoad PROVE IInv'
<1>1. CASE PrewarmLoad
  <2>1. fresh \in Backends /\ Own(fresh) /\ fresh.context # Nil
    BY <1>1 DEF PrewarmLoad, IInv, TypeOK, FreshOK
  <2>2. PICK h : h = CudaModule(fresh.context, Cardinality(fresh.cache) + 1)
    OBVIOUS
  <2>3. /\ h \in Handles /\ Belongs({h}, fresh.context) /\ IsFiniteSet({h})
        /\ h.context = fresh.context /\ IsModule({h})
    BY <2>1, <2>2, ModuleHandle
  <2>4. /\ pc = "prewarm" /\ building = {} /\ building' = {h} /\ live' = live \cup {h}
        /\ UNCHANGED <<worker, pc, fresh, backend, pages, slots, orphans, stray, deaths, poisoned>>
    BY <1>1, <2>2 DEF PrewarmLoad, LoadModule, Create, NoDestroy
  <2> QED
    BY <2>1, <2>3, <2>4
    DEF IInv, TypeOK, FreshOK, BackendOK, LeftBehind, BuildingOK, LiveOK, Memory, Numbers, DriverHandlesAccounted,
       HomeOrOrphan, Owned, Serving, Wrapped
<1>2. CASE ServeLoad
  <2>1. backend \in Backends /\ Own(backend) /\ backend.context # Nil /\ backend # Nil
    BY <1>2, Basics DEF ServeLoad, LoadModule, IInv, TypeOK, BackendOK, Owned, Serving
  <2>2. PICK h : h = CudaModule(backend.context, Cardinality(backend.cache) + 1)
    OBVIOUS
  <2>3. /\ h \in Handles /\ Belongs({h}, backend.context) /\ IsFiniteSet({h})
        /\ h.context = backend.context /\ IsModule({h})
    BY <2>1, <2>2, ModuleHandle
  <2>4. /\ pc = "serving" /\ building = {} /\ building' = {h} /\ live' = live \cup {h}
        /\ UNCHANGED <<worker, pc, fresh, backend, pages, slots, orphans, stray, deaths, poisoned>>
    BY <1>2, <2>2 DEF ServeLoad, LoadModule, Create, NoDestroy
  <2> QED
    BY <2>1, <2>3, <2>4
    DEF IInv, TypeOK, FreshOK, BackendOK, LeftBehind, BuildingOK, LiveOK, Memory, Numbers, DriverHandlesAccounted,
       HomeOrOrphan, Owned, Serving, Wrapped
<1> QED
  BY <1>1, <1>2

(* The cache takes over the module that was just loaded. *)
LEMMA ModuleCached == ASSUME IInv, PrewarmInsert \/ ServeInsert PROVE IInv'
<1>1. CASE PrewarmInsert
  <2>1. /\ fresh \in Backends /\ Own(fresh) /\ building \in SUBSET Handles /\ IsFiniteSet(building)
        /\ Belongs(building, fresh.context) /\ Numbered(fresh) /\ IsModule(building)
    BY <1>1 DEF PrewarmInsert, IInv, TypeOK, FreshOK, BuildingOK, Numbers
  <2>2. PICK c : c = WithModules(fresh, building)
    OBVIOUS
  <2>3. /\ c \in Backends /\ c.context = fresh.context /\ c.thread = fresh.thread /\ IsFiniteSet(c.cache)
        /\ Parts(c) = Parts(fresh) \cup building /\ Numbered(c)
    BY <2>1, <2>2, CacheGrows
  <2>4. Own(c) /\ Held(c) = Held(fresh) \cup building
    BY <2>1, <2>3, Grown
  <2>5. /\ pc = "prewarm" /\ building' = {} /\ fresh' = c
        /\ UNCHANGED <<worker, pc, backend, live, poisoned, pages, slots, stray, deaths, orphans>>
    BY <1>1, <2>2 DEF PrewarmInsert, WithModules
  <2> QED
    BY <2>1, <2>3, <2>4, <2>5, Basics
    DEF IInv, TypeOK, FreshOK, BackendOK, LeftBehind, BuildingOK, LiveOK, Memory, Numbers, DriverHandlesAccounted,
       HomeOrOrphan, Owned, Serving, Wrapped
<1>2. CASE ServeInsert
  <2>1. /\ backend \in Backends /\ Own(backend) /\ building \in SUBSET Handles /\ IsFiniteSet(building)
        /\ Belongs(building, backend.context) /\ Numbered(backend) /\ IsModule(building)
    BY <1>2, Basics DEF ServeInsert, IInv, TypeOK, BackendOK, BuildingOK, Numbers, Owned, Serving
  <2>2. PICK c : c = WithModules(backend, building)
    OBVIOUS
  <2>3. /\ c \in Backends /\ c.context = backend.context /\ c.thread = backend.thread /\ IsFiniteSet(c.cache)
        /\ Parts(c) = Parts(backend) \cup building /\ Numbered(c)
    BY <2>1, <2>2, CacheGrows
  <2>4. Own(c) /\ Held(c) = Held(backend) \cup building
    BY <2>1, <2>3, Grown
  <2>5. /\ pc = "serving" /\ building' = {} /\ backend' = c
        /\ UNCHANGED <<worker, pc, fresh, live, poisoned, pages, slots, stray, deaths, orphans>>
    BY <1>2, <2>2 DEF ServeInsert, WithModules
  <2> QED
    BY <2>1, <2>3, <2>4, <2>5, Basics
    DEF IInv, TypeOK, FreshOK, BackendOK, LeftBehind, BuildingOK, LiveOK, Memory, Numbers, DriverHandlesAccounted,
       HomeOrOrphan, Owned, Serving, Wrapped
<1> QED
  BY <1>1, <1>2

(* The slots are registered, by allocate_slots() or by a recovery. *)
LEMMA SlotsRegistered == ASSUME IInv, RegisterSlots \/ Attach PROVE IInv'
<1>1. backend \in Backends /\ Own(backend) /\ backend.context # Nil /\ Numbered(backend)
  BY Basics DEF RegisterSlots, Attach, IInv, TypeOK, BackendOK, Numbers, Owned, Serving
<1>2. PICK h : h = Registration(backend.context)
  OBVIOUS
<1>3. h \in Handles /\ Belongs({h}, backend.context) /\ h.context = backend.context
  BY <1>1, <1>2, Basics DEF Registration, Handle, Belongs, Kinds
<1>4. /\ live' = live \cup {h}
      /\ UNCHANGED <<worker, fresh, building, slots, orphans, stray, deaths, poisoned>>
  BY <1>2 DEF RegisterSlots, Attach, Create, NoDestroy
<1>5. /\ backend' \in Backends /\ backend'.context = backend.context /\ backend'.thread = backend.thread
      /\ Parts(backend') \cup {h} = Parts(backend) \cup {h} /\ h \in Parts(backend')
      /\ backend'.cache = backend.cache /\ Numbered(backend')
  BY <1>1, <1>2, RegistrationAdded DEF RegisterSlots, Attach
<1>6. Parts(backend') = Parts(backend) \cup {h} /\ IsFiniteSet(backend'.cache)
  BY <1>1, <1>5 DEF Own
<1>7. Own(backend') /\ Held(backend') = Held(backend) \cup {h}
  BY <1>1, <1>3, <1>5, <1>6, Grown
<1>8. backend # Nil /\ backend' # Nil
  BY <1>1, <1>5, Basics
<1>9. CASE RegisterSlots
  <2>1. pc = "register" /\ pc' = "streams" /\ pages' = pages \cup {worker}
    BY <1>9 DEF RegisterSlots
  <2>2. building = {} /\ building' = {}
    BY <1>4, <2>1 DEF IInv, BuildingOK
  <2> QED
    BY <1>1, <1>3, <1>4, <1>5, <1>7, <1>8, <2>1, <2>2, Basics, SlotMembers
    DEF IInv, TypeOK, FreshOK, BackendOK, LeftBehind, BuildingOK, LiveOK, Memory, Numbers, DriverHandlesAccounted,
       HomeOrOrphan, Owned, Serving, Wrapped
<1>10. CASE Attach
  <2>1. pc = "attach" /\ pc' = "rebuild" /\ pages' = pages
    BY <1>10 DEF Attach
  <2>2. building = {} /\ building' = {}
    BY <1>4, <2>1 DEF IInv, BuildingOK
  <2> QED
    BY <1>1, <1>3, <1>4, <1>5, <1>7, <1>8, <2>1, <2>2, Basics, SlotMembers
    DEF IInv, TypeOK, FreshOK, BackendOK, LeftBehind, BuildingOK, LiveOK, Memory, Numbers, DriverHandlesAccounted,
       HomeOrOrphan, Owned, Serving, Wrapped
<1> QED
  BY <1>9, <1>10


(* A backend that a failed start left behind has another context than the  *)
(* one the factory is making.                                              *)
LEMMA Apart ==
    ASSUME IInv, fresh # Nil, backend # Nil
    PROVE  backend.context # fresh.context
<1>1. fresh \in Backends /\ backend \in Backends /\ backend.thread \in Nat /\ worker \in Nat
  BY Basics DEF IInv, TypeOK
<1>2. fresh.thread = worker /\ backend.thread < worker /\ fresh.context # Nil /\ Own(fresh) /\ Own(backend)
  BY DEF IInv, FreshOK, BackendOK, LeftBehind, Owned, Serving
<1>3. backend.context # Nil => backend.context[1] # fresh.context[1]
  BY <1>1, <1>2 DEF Own
<1> QED
  BY <1>2, <1>3

(* What an exception from the factory destroys *)
LEMMA FactoryUnwound ==
    ASSUME IInv, FactoryThrows
    PROVE  \E c : TornDown(c, worker) /\ (c # Nil => c[1] = worker)
<1>1. live \in SUBSET Handles /\ poisoned \in SUBSET Contexts
  BY DEF IInv, TypeOK
<1>2. CASE pc = "construct"
  <2>1. fresh = Nil /\ building = {}
    BY <1>2 DEF IInv, FreshOK, BuildingOK
  <2>2. <<building>> \o Members(fresh) = <<{}>>
    BY <2>1 DEF Members
  <2>3. Destroy(<<{}>>, worker)
    BY <2>2 DEF FactoryThrows
  <2>4. Unwound({})
    BY <1>1, <2>3, Basics, DestroyHalfBuilt
  <2>5. TornDown(Nil, worker)
    BY <1>1, <2>4, Basics DEF Unwound, TornDown
  <2> QED
    BY <2>5
<1>3. CASE pc = "prewarm"
  <2>1. /\ fresh \in Backends /\ Own(fresh) /\ Held(fresh) \subseteq live /\ fresh # Nil
        /\ building \subseteq live /\ Belongs(building, fresh.context)
        /\ fresh.context # Nil /\ fresh.context[1] = worker
    BY <1>3 DEF IInv, TypeOK, FreshOK, BuildingOK, DriverHandlesAccounted, Wrapped, Own
  <2>2. TornDown(fresh.context, worker)
    BY <1>1, <2>1, DestroyUnfinished DEF FactoryThrows
  <2> QED
    BY <2>1, <2>2
<1> QED
  BY <1>2, <1>3 DEF FactoryThrows

(* An exception from the factory unwinds the new backend and leaves the    *)
(* old one alone.                                                          *)
LEMMA FactoryThrown == ASSUME IInv, FactoryThrows PROVE IInv'
<1>1. /\ fresh' = Nil /\ building' = {} /\ pc' = "failed"
      /\ UNCHANGED <<worker, backend, pages, slots, orphans>>
      /\ live \in SUBSET Handles /\ poisoned \in SUBSET Contexts
  BY DEF FactoryThrows, IInv, TypeOK
<1>2. CASE pc = "construct"
  <2>1. fresh = Nil /\ building = {}
    BY <1>2 DEF IInv, FreshOK, BuildingOK
  <2>2. Destroy(<<{}>>, worker)
    <3>1. <<building>> \o Members(fresh) = <<{}>>
      BY <2>1 DEF Members
    <3> QED
      BY <3>1 DEF FactoryThrows
  <2>3. Unwound({})
    BY <1>1, <2>2, Basics, DestroyHalfBuilt
  <2> QED
    BY <1>1, <1>2, <2>1, <2>3, Basics
    DEF Unwound, IInv, TypeOK, FreshOK, BackendOK, LeftBehind, BuildingOK, LiveOK, Memory, Numbers, DriverHandlesAccounted,
       HomeOrOrphan, Owned, Serving, Wrapped
<1>3. CASE pc = "prewarm"
  <2>1. /\ fresh \in Backends /\ Own(fresh) /\ Held(fresh) \subseteq live /\ fresh # Nil
        /\ building \subseteq live /\ Belongs(building, fresh.context)
        /\ fresh.context # Nil /\ fresh.context[1] = worker
    BY <1>3 DEF IInv, TypeOK, FreshOK, BuildingOK, DriverHandlesAccounted, Wrapped, Own
  <2>2. TornDown(fresh.context, worker)
    BY <1>1, <2>1, DestroyUnfinished DEF FactoryThrows
  <2>3. \A h \in Held(fresh) \cup building : h.context = fresh.context
    BY <2>1, HeldContext DEF Belongs
  <2>4. backend # Nil => \A h \in Held(backend) : h.context # fresh.context
    BY <2>1, HeldContext, Apart DEF IInv, TypeOK, BackendOK
  <2>5. DriverHandlesAccounted'
    BY <1>1, <2>2, <2>3, <2>4, Basics DEF TornDown, IInv, DriverHandlesAccounted, Wrapped
  <2>6. HomeOrOrphan'
    BY <1>1, <2>1, <2>2 DEF TornDown, IInv, HomeOrOrphan
  <2>7. TypeOK' /\ LiveOK'
    BY <1>1, <2>1, <2>2 DEF TornDown, IInv, TypeOK, LiveOK
  <2> QED
    BY <1>1, <1>3, <2>5, <2>6, <2>7, Basics
    DEF IInv, FreshOK, BackendOK, LeftBehind, BuildingOK, Memory, Numbers, Owned, Serving
<1> QED
  BY <1>2, <1>3 DEF FactoryThrows

(* The backend that `backend` names is destroyed, if there is one. *)
LEMMA BackendDestroyed ==
    ASSUME IInv, NEW t, Destroy(Members(backend), t), NEW c, c = IF backend = Nil THEN Nil ELSE backend.context
    PROVE  TornDown(c, t)
<1>1. live \in SUBSET Handles /\ poisoned \in SUBSET Contexts
  BY DEF IInv, TypeOK
<1>2. CASE backend = Nil
  <2>1. Destroy(<<>>, t)
    BY <1>2 DEF Members
  <2>2. Unwound({})
    BY <1>1, <2>1, DestroyNothing
  <2>3. c = Nil /\ \A h \in live : h.context # Nil
    BY <1>1, <1>2, Basics
  <2> QED
    BY <1>1, <2>2, <2>3, Basics DEF Unwound, TornDown
<1>3. CASE backend # Nil
  <2>1. backend \in Backends /\ Own(backend) /\ Held(backend) \subseteq live
    BY <1>3 DEF IInv, TypeOK, BackendOK, DriverHandlesAccounted, Wrapped
  <2>2. PICK b : b = backend
    OBVIOUS
  <2>3. b \in Backends /\ Own(b) /\ Held(b) \subseteq live /\ Destroy(Members(b), t) /\ c = b.context
    BY <1>3, <2>1, <2>2
  <2> QED
    BY <1>1, <2>3, DestroyBackend
<1> QED
  BY <1>2, <1>3

(* The worker or the server's destructor destroys the backend. *)
LEMMA BackendEnds == ASSUME IInv, WorkerEnds \/ ServerDestroyed PROVE IInv'
<1>1. PICK c : c = IF backend = Nil THEN Nil ELSE backend.context
  OBVIOUS
<1>2. PICK t : t = IF pc = "serving" THEN worker ELSE Main
  OBVIOUS
<1>3. /\ pc \in {"serving", "none"} /\ building = {} /\ fresh = Nil
      /\ backend' = Nil /\ pc' \in {"none", "gone"} /\ Destroy(Members(backend), t)
      /\ UNCHANGED <<worker, fresh, building, slots, orphans>>
  BY <1>2 DEF WorkerEnds, ServerDestroyed, IInv, FreshOK, BuildingOK
<1>4. TornDown(c, t)
  BY <1>1, <1>3, BackendDestroyed
<1>5. live' = {} /\ stray' = stray /\ poisoned' \in SUBSET Contexts
  BY <1>1, <1>3, <1>4 DEF TornDown, IInv, LiveOK, TypeOK
<1>6. HomeOrOrphan'
  <2>1. c # Nil => backend # Nil /\ Own(backend) /\ c = backend.context /\ c[1] = backend.thread
    BY <1>1 DEF IInv, BackendOK, Own
  <2>2. c # Nil => c[1] = t \/ c[1] \in orphans
    BY <1>2, <1>3, <2>1 DEF IInv, BackendOK, LeftBehind, Owned, Serving
  <2> QED
    BY <1>3, <1>4, <2>2 DEF TornDown, IInv, HomeOrOrphan
<1> QED
  BY <1>3, <1>5, <1>6, Basics
  DEF IInv, TypeOK, FreshOK, BackendOK, LeftBehind, BuildingOK, LiveOK, Memory, Numbers, DriverHandlesAccounted,
       HomeOrOrphan, Owned, Serving, Wrapped

(* The assignment in worker_main() destroys the backend left behind, if    *)
(* any, and keeps the new one.                                             *)
LEMMA FactoryReturned == ASSUME IInv, FactoryReturns PROVE IInv'
<1>1. PICK c : c = IF backend = Nil THEN Nil ELSE backend.context
  OBVIOUS
<1>2. /\ pc = "prewarm" /\ building = {} /\ Destroy(Members(backend), worker)
      /\ backend' = fresh /\ fresh' = Nil /\ pc' = "register"
      /\ UNCHANGED <<worker, building, slots, orphans>>
  BY DEF FactoryReturns
<1>3. TornDown(c, worker)
  BY <1>1, <1>2, BackendDestroyed
<1>4. /\ fresh \in Backends /\ fresh # Nil /\ Own(fresh) /\ fresh.thread = worker /\ fresh.context # Nil
  BY <1>2, Basics DEF IInv, TypeOK, FreshOK
<1>5. c # fresh.context
  BY <1>1, <1>4, Apart
<1>6. \A h \in Held(fresh) : h.context = fresh.context
  BY <1>4, HeldContext
<1>7. backend # Nil => \A h \in Held(backend) : h.context = c
  BY <1>1, HeldContext DEF IInv, TypeOK, BackendOK
<1>8. DriverHandlesAccounted'
  BY <1>2, <1>3, <1>5, <1>6, <1>7, Basics DEF TornDown, IInv, DriverHandlesAccounted, Wrapped
<1>9. LiveOK' /\ TypeOK'
  BY <1>1, <1>2, <1>3, <1>4 DEF TornDown, IInv, LiveOK, TypeOK
<1>10. HomeOrOrphan'
  <2>1. c # Nil => backend # Nil /\ Own(backend) /\ c = backend.context /\ c[1] = backend.thread
    BY <1>1 DEF IInv, BackendOK, Own
  <2>2. c # Nil => c[1] \in orphans
    BY <1>2, <2>1 DEF IInv, LeftBehind, Owned, Serving
  <2> QED
    BY <1>2, <1>3, <2>2 DEF TornDown, IInv, HomeOrOrphan
<1> QED
  BY <1>2, <1>4, <1>8, <1>9, <1>10, Basics
  DEF IInv, FreshOK, BackendOK, LeftBehind, BuildingOK, Memory, Numbers, Owned, Serving


(* build_stream_slots makes one more driver object, and a StreamSlot when  *)
(* it was the seventh.                                                     *)
LEMMA SlotMemberMade == ASSUME IInv, StreamSlotMember PROVE IInv'
<1>1. /\ pc \in {"streams", "rebuild"} /\ backend \in Backends /\ backend # Nil /\ Own(backend)
      /\ backend.context \in Contexts /\ backend.context # Nil /\ fresh = Nil /\ Numbered(backend)
      /\ Len(backend.streams) < StreamCount
  BY Basics DEF StreamSlotMember, Building, IInv, TypeOK, BackendOK, FreshOK, Numbers, Owned, Serving
<1>2. /\ IsFiniteSet(building) /\ Cardinality(building) \in Nat /\ Cardinality(building) < Len(StreamSlot)
      /\ building \in SUBSET Handles /\ Belongs(building, backend.context)
      /\ IsSlot(building, Len(backend.streams) + 1)
  BY <1>1, FS_CardinalityType, Basics DEF IInv, BuildingOK, TypeOK, Numbers
<1>3. PICK n : n = Cardinality(building) + 1
  OBVIOUS
<1>4. n \in 1 .. 7 /\ Len(StreamSlot) = 7
  BY <1>2, <1>3, SlotMembers
<1>5. StreamSlot[n] \in Kinds \ {"context", "module", "registration"}
  BY <1>4, SlotMembers
<1>6. Len(backend.streams) + 1 \in Nat
  BY <1>1 DEF Backends
<1>7. PICK h : h = Handle(backend.context, StreamSlot[n], Len(backend.streams) + 1)
  OBVIOUS
<1>8. /\ h \in Handles /\ h.context = backend.context /\ h.kind = StreamSlot[n] /\ h.n = Len(backend.streams) + 1
  BY <1>1, <1>5, <1>6, <1>7 DEF Handle
<1>9. /\ live' = live \cup {h}
      /\ building' = IF n = 7 THEN {} ELSE building \cup {h}
      /\ backend' = IF n = 7 THEN [backend EXCEPT !.streams = Append(@, building \cup {h})] ELSE backend
      /\ UNCHANGED <<worker, pc, fresh, pages, slots, orphans, stray, deaths, poisoned>>
  BY <1>3, <1>4, <1>7 DEF StreamSlotMember, Create, NoDestroy
<1>10. PICK H : H = building \cup {h}
  OBVIOUS
<1>11. /\ H \in SUBSET Handles /\ Belongs(H, backend.context) /\ IsFiniteSet(H)
       /\ IsSlot(H, Len(backend.streams) + 1)
  BY <1>2, <1>5, <1>8, <1>10, FS_AddElement DEF Belongs, IsSlot
<1>12. n # 7 => Cardinality(H) < Len(StreamSlot)
  <2>1. Cardinality(H) \in {Cardinality(building), Cardinality(building) + 1}
    BY <1>2, <1>10, FS_AddElement
  <2> QED
    BY <1>2, <1>3, <1>4, <2>1
<1>13. CASE n # 7
  <2>1. backend' = backend /\ building' = H
    BY <1>9, <1>10, <1>13
  <2> QED
    BY <1>1, <1>8, <1>9, <1>10, <1>11, <1>12, <1>13, <2>1
    DEF IInv, TypeOK, FreshOK, BackendOK, LeftBehind, BuildingOK, LiveOK, Memory, Numbers, DriverHandlesAccounted,
       HomeOrOrphan, Owned, Serving, Wrapped
<1>14. CASE n = 7
  <2>1. PICK c : c = WithSlot(backend, H)
    OBVIOUS
  <2>2. backend' = c /\ building' = {}
    BY <1>9, <1>10, <1>14, <2>1 DEF WithSlot
  <2>3. /\ c \in Backends /\ c.context = backend.context /\ c.thread = backend.thread /\ c.cache = backend.cache
        /\ Parts(c) = Parts(backend) \cup H /\ Numbered(c)
    BY <1>1, <1>11, <2>1, SlotAdded
  <2>4. IsFiniteSet(c.cache)
    BY <1>1, <2>3 DEF Own
  <2>5. Own(c) /\ Held(c) = Held(backend) \cup H /\ c # Nil
    BY <1>1, <1>11, <2>3, <2>4, Grown, Basics
  <2> QED
    <3>1. Numbers'
      BY <1>1, <1>4, <1>8, <1>9, <1>10, <2>2, <2>3, <2>5, Basics DEF IInv, Numbers
    <3>2. TypeOK'
      BY <1>1, <1>4, <1>8, <1>9, <1>10, <2>2, <2>3, <2>5, Basics DEF IInv, TypeOK
    <3>3. FreshOK'
      BY <1>1, <1>4, <1>8, <1>9, <1>10, <2>2, <2>3, <2>5, Basics DEF IInv, FreshOK, TypeOK
    <3>4. BackendOK'
      BY <1>1, <1>4, <1>8, <1>9, <1>10, <2>2, <2>3, <2>5, Basics
      DEF IInv, BackendOK, FreshOK, TypeOK, Owned, Serving
    <3>5. LeftBehind'
      BY <1>1, <1>4, <1>8, <1>9, <1>10, <2>2, <2>3, <2>5, Basics
      DEF IInv, LeftBehind, BackendOK, TypeOK, FreshOK, Owned, Serving
    <3>6. BuildingOK'
      BY <1>1, <1>4, <1>8, <1>9, <1>10, <2>2, <2>3, <2>5, Basics
      DEF IInv, BuildingOK, FreshOK, BackendOK, TypeOK
    <3>7. LiveOK'
      BY <1>1, <1>4, <1>8, <1>9, <1>10, <2>2, <2>3, <2>5, Basics DEF IInv, LiveOK, FreshOK, BackendOK, TypeOK
    <3>8. Memory'
      BY <1>1, <1>4, <1>8, <1>9, <1>10, <2>2, <2>3, <2>5, Basics DEF IInv, Memory, Serving
    <3>9. DriverHandlesAccounted'
      BY <1>1, <1>4, <1>8, <1>9, <1>10, <2>2, <2>3, <2>5, Basics
      DEF IInv, DriverHandlesAccounted, Wrapped, FreshOK, BackendOK, BuildingOK, LiveOK, TypeOK
    <3>10. HomeOrOrphan'
      BY <1>1, <1>4, <1>8, <1>9, <1>10, <2>2, <2>3, <2>5, Basics DEF IInv, HomeOrOrphan
    <3> QED
      BY <3>1, <3>2, <3>3, <3>4, <3>5, <3>6, <3>7, <3>8, <3>9, <3>10 DEF IInv
<1> QED
  BY <1>13, <1>14

(* What an exception from the constructor of a StreamSlot destroys *)
LEMMA HalfBuiltUnwound == ASSUME IInv, StreamSlotThrows PROVE Unwound(building)
<1>1. pc \in {"streams", "rebuild"}
  BY DEF StreamSlotThrows, Building
<1>2. live \in SUBSET Handles /\ building \subseteq live /\ Belongs(building, backend.context)
  <2>1. building # {} => Belongs(building, backend.context)
    BY <1>1 DEF IInv, BuildingOK
  <2>2. building = {} => Belongs(building, backend.context)
    BY Basics
  <2> QED
    BY <2>1, <2>2 DEF IInv, TypeOK, DriverHandlesAccounted, Wrapped
<1> QED
  BY <1>2, DestroyHalfBuilt DEF StreamSlotThrows

(* A driver object of a StreamSlot cannot be made: its slot is unwound. *)
LEMMA SlotUnwound == ASSUME IInv, StreamSlotThrows PROVE IInv'
<1>1. /\ pc \in {"streams", "rebuild"} /\ backend \in Backends /\ backend # Nil /\ Own(backend) /\ fresh = Nil
      /\ backend.thread = worker /\ Numbered(backend)
  BY Basics DEF StreamSlotThrows, Building, IInv, TypeOK, BackendOK, Numbers, FreshOK, Owned, Serving
<1>2. live \in SUBSET Handles /\ building \subseteq live /\ Belongs(building, backend.context)
  <2>1. building # {} => Belongs(building, backend.context)
    BY <1>1 DEF IInv, BuildingOK
  <2>2. building = {} => Belongs(building, backend.context)
    BY Basics
  <2> QED
    BY <2>1, <2>2 DEF IInv, TypeOK, DriverHandlesAccounted, Wrapped
<1>3. Unwound(building)
  BY HalfBuiltUnwound
<1>4. /\ building' = {} /\ pc' = IF pc = "streams" THEN "failed" ELSE "serving"
      /\ orphans' = IF pc = "streams" THEN orphans \cup {worker} ELSE orphans
      /\ UNCHANGED <<worker, fresh, backend, pages, slots>>
  BY DEF StreamSlotThrows
<1>5. building \cap Held(backend) = {}
  <2>1. building # {} => IsSlot(building, Len(backend.streams) + 1)
    BY <1>1 DEF IInv, Numbers
  <2> QED
    BY <1>1, <1>2, <2>1, Disjoint
<1> QED
  BY <1>1, <1>3, <1>4, <1>5, Basics
  DEF Unwound, IInv, TypeOK, FreshOK, BackendOK, LeftBehind, BuildingOK, LiveOK, Memory, Numbers, DriverHandlesAccounted,
       HomeOrOrphan, Owned, Serving, Wrapped

(* What recreate_context() destroys *)
LEMMA RecoveryEmpties ==
    ASSUME IInv, recreate_context
    PROVE  TornDown(backend.context, worker) /\ backend.context # Nil /\ backend.context[1] = worker
<1>1. /\ pc = "serving" /\ backend \in Backends /\ backend # Nil /\ Own(backend)
      /\ backend.context # Nil /\ backend.context[1] = worker
  BY Basics DEF recreate_context, IInv, TypeOK, BackendOK, Owned, Serving, Own
<1>2. /\ live \in SUBSET Handles /\ building \subseteq live /\ Belongs(building, backend.context)
      /\ Held(backend) \subseteq live /\ poisoned \in SUBSET Contexts
  BY <1>1, Basics DEF IInv, BuildingOK, TypeOK, DriverHandlesAccounted, Wrapped
<1> QED
  BY <1>1, <1>2, DestroyForRecovery DEF recreate_context

(* recreate_context() tears everything down but the slots' pages. *)
LEMMA BackendEmptied == ASSUME IInv, recreate_context PROVE IInv'
<1>1. /\ pc = "serving" /\ backend \in Backends /\ backend # Nil /\ Own(backend) /\ fresh = Nil
      /\ backend.thread = worker /\ backend.context # Nil /\ backend.context[1] = worker
  BY Basics DEF recreate_context, IInv, TypeOK, BackendOK, FreshOK, Owned, Serving, Own
<1>2. /\ live \in SUBSET Handles /\ building \subseteq live /\ Belongs(building, backend.context)
      /\ Held(backend) \subseteq live /\ poisoned \in SUBSET Contexts
  BY <1>1, Basics DEF IInv, BuildingOK, TypeOK, DriverHandlesAccounted, Wrapped
<1>3. TornDown(backend.context, worker)
  BY RecoveryEmpties
<1>4. PICK c : c = Cleared(backend)
  OBVIOUS
<1>5. /\ c \in Backends /\ c.context = Nil /\ c.thread = backend.thread /\ ~c.registered
      /\ Parts(c) = {} /\ Own(c) /\ Held(c) = {} /\ Numbered(c) /\ c # Nil
  BY <1>1, <1>4, Emptied, Basics
<1>6. /\ backend' = c /\ building' = {} /\ pc' = "recreate" /\ pages' = pages
      /\ UNCHANGED <<worker, fresh, slots, orphans>>
  BY <1>4 DEF recreate_context, detach, Cleared
<1>7. live' = {} /\ stray' = stray /\ poisoned' \in SUBSET Contexts
  BY <1>1, <1>2, <1>3 DEF TornDown, IInv, LiveOK
<1>8. HomeOrOrphan'
  BY <1>1, <1>3, <1>6 DEF TornDown, IInv, HomeOrOrphan
<1> QED
  BY <1>1, <1>5, <1>6, <1>7, <1>8, Basics
  DEF IInv, TypeOK, FreshOK, BackendOK, LeftBehind, BuildingOK, LiveOK, Memory, Numbers, DriverHandlesAccounted,
       HomeOrOrphan, Owned, Serving, Wrapped

(* recreate_context() makes a context again. *)
LEMMA ContextRemade == ASSUME IInv, RecreateContext PROVE IInv'
<1>1. /\ pc = "recreate" /\ backend \in Backends /\ backend # Nil /\ fresh = Nil
      /\ backend.thread = worker /\ Parts(backend) = {} /\ ~backend.registered /\ worker \in Nat
  BY Basics DEF RecreateContext, IInv, TypeOK, BackendOK, FreshOK, Owned, Serving
<1>2. PICK n : n = backend.contexts + 1
  OBVIOUS
<1>3. n \in Nat /\ <<worker, n>> \in Contexts /\ <<worker, n>> # Nil
  BY <1>1, <1>2, Basics DEF Backends
<1>4. PICK c : c = WithContext(backend, n)
  OBVIOUS
<1>5. /\ c \in Backends /\ c.context = <<worker, n>> /\ c.thread = worker
      /\ Own(c) /\ Held(c) = {Context(<<worker, n>>)} /\ Numbered(c) /\ c # Nil
  BY <1>1, <1>3, <1>4, Refilled, Basics
<1>6. Context(<<worker, n>>) \in Handles /\ Context(<<worker, n>>).context = <<worker, n>>
  BY <1>3 DEF Context, Handle, Kinds
<1>7. /\ backend' = c /\ pc' = "attach" /\ live' = live \cup {Context(<<worker, n>>)}
      /\ UNCHANGED <<worker, fresh, building, pages, slots, orphans, stray, deaths, poisoned>>
  BY <1>1, <1>2, <1>4 DEF RecreateContext, Create, NoDestroy, WithContext
<1>8. live = {}
  BY <1>1, Basics DEF IInv, TypeOK, BackendOK, LiveOK
<1> QED
  BY <1>1, <1>3, <1>5, <1>6, <1>7, <1>8, Basics
  DEF IInv, TypeOK, FreshOK, BackendOK, LeftBehind, BuildingOK, LiveOK, Memory, Numbers, DriverHandlesAccounted,
       HomeOrOrphan, Owned, Serving, Wrapped

(* Every step preserves the invariant. *)
LEMMA NextPreserves == ASSUME IInv, [Next]_vars PROVE IInv'
<1>1. CASE UNCHANGED vars
  BY <1>1
  DEF vars, IInv, TypeOK, FreshOK, BackendOK, LeftBehind, BuildingOK, LiveOK, Memory, Numbers,
      DriverHandlesAccounted,
       HomeOrOrphan, Owned, Serving, Wrapped
<1> QED
  BY <1>1, ControlSteps, FaultStep, ContextMade, ModuleLoaded, ModuleCached, FactoryThrown, FactoryReturned,
     SlotsRegistered, SlotMemberMade, SlotUnwound, BackendEmptied, ContextRemade, BackendEnds
  DEF Next

(* The invariant holds in every reachable state. *)
LEMMA LifetimeInvariance == Spec => []IInv
<1>1. IInv /\ [Next]_vars => IInv'
  BY NextPreserves
<1> QED
  BY <1>1, InitHolds, PTL DEF Spec

----------------------------------------------------------------------------

(* RAII accounts for every driver handle, for any number of streams,       *)
(* starts, contexts and cached chains: whatever driver call fails and      *)
(* whichever object is half built, nothing is destroyed twice or after its *)
(* context, no wrapper dangles, nothing loses its wrapper but in a context *)
(* that is about to go, and a server that is gone has left nothing.        *)
THEOREM HandlesAccounted == Spec => []DriverHandlesAccounted
<1>1. IInv => DriverHandlesAccounted
  BY DEF IInv
<1> QED
  BY <1>1, LifetimeInvariance, PTL

(* From start() to the end of the worker, readers receive into memory that *)
(* is allocated and is the running backend's own, however many contexts    *)
(* recreate_context() has replaced under it.                               *)
THEOREM SlotMemoryIsFixed == Spec => []SlotMemoryStaysPut
<1>1. IInv => SlotMemoryStaysPut
  BY DEF IInv, BackendOK, Memory, Owned, Serving, SlotMemoryStaysPut
<1> QED
  BY <1>1, LifetimeInvariance, PTL

(* The other direction: a worker that is thrown out of allocate_slots()    *)
(* has not destroyed a context before, and comes to no destructor after.   *)
Elsewhere ==
    /\ orphans \subseteq 1 .. worker
    /\ pc \notin {"none", "gone"} => worker > 0
    /\ pc \notin {"failed", "none", "gone"} => worker \notin orphans
    /\ \A d \in deaths : d.context[1] \in 0 .. worker
    /\ pc \in {"construct", "prewarm", "register", "streams"} => \A d \in deaths : d.context[1] # worker
    /\ \A d \in deaths : d.context[1] \in orphans => d.thread # d.context[1]

(* One more context is destroyed, by a thread it is right to die on. *)
LEMMA OneDeath ==
    ASSUME IInv, Elsewhere, NEW c, NEW t, TornDown(c, t), UNCHANGED <<worker, orphans>>,
           c # Nil => c[1] \in 0 .. worker /\ (c[1] \in orphans => t # c[1]),
           pc' \notin {"none", "gone"} => pc \notin {"none", "gone"},
           pc' \notin {"failed", "none", "gone"} => worker \notin orphans,
           pc' \in {"construct", "prewarm", "register", "streams"} =>
               /\ pc \in {"construct", "prewarm", "register", "streams"}
               /\ c # Nil => c[1] # worker
    PROVE  Elsewhere'
<1>1. \A d \in deaths' : d \in deaths \/ (c # Nil /\ d.context = c /\ d.thread = t)
  BY DEF TornDown
<1>2. \A d \in deaths' : d.context[1] \in 0 .. worker
  BY <1>1 DEF Elsewhere
<1>3. \A d \in deaths' : d.context[1] \in orphans => d.thread # d.context[1]
  BY <1>1 DEF Elsewhere
<1>4. pc' \in {"construct", "prewarm", "register", "streams"} => \A d \in deaths' : d.context[1] # worker
  BY <1>1 DEF Elsewhere
<1> QED
  BY <1>2, <1>3, <1>4 DEF Elsewhere

(* Every step keeps it. *)
LEMMA ElsewhereNext == ASSUME IInv, Elsewhere, [Next]_vars PROVE Elsewhere'
<1>1. worker \in Nat /\ worker' \in Nat
  BY NextPreserves DEF IInv, TypeOK
<1>2. CASE start
  BY <1>1, <1>2 DEF start, Elsewhere
<1>3. CASE RegisterThrows
  <2>1. /\ pc = "register" /\ pc' = "failed" /\ orphans' = orphans \cup {worker}
        /\ worker' = worker /\ deaths' = deaths /\ backend # Nil /\ backend.thread = worker
    BY <1>3 DEF RegisterThrows, IInv, BackendOK, Owned
  <2>2. worker > 0 /\ \A d \in deaths : d.context[1] # worker
    BY <2>1 DEF Elsewhere
  <2> QED
    BY <1>1, <2>1, <2>2 DEF Elsewhere
<1>4. CASE StreamSlotThrows
  <2>1. /\ pc \in {"streams", "rebuild"} /\ pc' = IF pc = "streams" THEN "failed" ELSE "serving"
        /\ orphans' = IF pc = "streams" THEN orphans \cup {worker} ELSE orphans
        /\ worker' = worker
    BY <1>4 DEF StreamSlotThrows, Building
  <2>2. deaths' = deaths
    BY <1>4, HalfBuiltUnwound DEF Unwound
  <2>3. CASE pc = "streams"
    <3>1. pc' = "failed" /\ orphans' = orphans \cup {worker} /\ worker > 0
      BY <2>1, <2>3 DEF Elsewhere
    <3>2. \A d \in deaths : d.context[1] # worker
      BY <2>3 DEF Elsewhere
    <3> QED
      BY <1>1, <2>1, <2>2, <3>1, <3>2 DEF Elsewhere
  <2>4. CASE pc = "rebuild"
    <3>1. pc' = "serving" /\ orphans' = orphans
      BY <2>1, <2>4
    <3> QED
      BY <2>1, <2>2, <2>4, <3>1 DEF Elsewhere
  <2> QED
    BY <2>1, <2>3, <2>4
<1>5. CASE FactoryThrows
  <2>1. /\ pc \in {"construct", "prewarm"} /\ pc' = "failed" /\ UNCHANGED <<worker, orphans>>
    BY <1>5 DEF FactoryThrows
  <2>2. PICK c : TornDown(c, worker) /\ (c # Nil => c[1] = worker)
    BY <1>5, FactoryUnwound
  <2> QED
    BY <1>1, <2>1, <2>2, OneDeath DEF Elsewhere
<1>6. CASE FactoryReturns \/ WorkerEnds \/ ServerDestroyed
  <2>1. PICK c : c = IF backend = Nil THEN Nil ELSE backend.context
    OBVIOUS
  <2>2. PICK t : t = IF ServerDestroyed THEN Main ELSE worker
    OBVIOUS
  <2>3. Destroy(Members(backend), t) /\ UNCHANGED <<worker, orphans>>
    BY <1>6, <2>2 DEF FactoryReturns, WorkerEnds, ServerDestroyed
  <2>4. TornDown(c, t)
    BY <2>1, <2>3, BackendDestroyed
  <2>5. c # Nil => backend # Nil /\ c[1] = backend.thread /\ backend.thread \in Nat
    BY <2>1, Basics DEF IInv, BackendOK, Own, TypeOK
  <2>6. CASE FactoryReturns
    <3>1. pc = "prewarm" /\ pc' = "register" /\ t = worker
      BY <2>2, <2>6 DEF FactoryReturns, ServerDestroyed
    <3>2. c # Nil => c[1] < worker
      BY <2>5, <3>1 DEF IInv, LeftBehind, Owned, Serving
    <3> QED
      BY <1>1, <2>3, <2>4, <2>5, <3>1, <3>2, OneDeath DEF Elsewhere
  <2>7. CASE WorkerEnds
    <3>1. pc = "serving" /\ pc' = "none" /\ t = worker
      BY <2>2, <2>7 DEF WorkerEnds, ServerDestroyed
    <3>2. c # Nil => c[1] = worker
      BY <2>5, <3>1 DEF IInv, BackendOK, Owned, Serving
    <3> QED
      BY <1>1, <2>3, <2>4, <3>1, <3>2, OneDeath DEF Elsewhere
  <2>8. CASE ServerDestroyed
    <3>1. pc = "none" /\ pc' = "gone" /\ t = 0
      BY <2>2, <2>8 DEF ServerDestroyed
    <3>2. c # Nil => c[1] \in orphans
      BY <2>5, <3>1 DEF IInv, LeftBehind, Owned, Serving
    <3>3. c # Nil => c[1] \in 1 .. worker
      BY <3>2 DEF Elsewhere
    <3> QED
      BY <1>1, <2>3, <2>4, <3>1, <3>3, OneDeath
  <2> QED
    BY <1>6, <2>6, <2>7, <2>8
<1>7. CASE recreate_context
  <2>1. pc = "serving" /\ pc' = "recreate" /\ UNCHANGED <<worker, orphans>>
    BY <1>7 DEF recreate_context
  <2>2. TornDown(backend.context, worker) /\ backend.context[1] = worker
    BY <1>7, RecoveryEmpties
  <2> QED
    BY <1>1, <2>1, <2>2, OneDeath DEF Elsewhere
<1>8. CASE UNCHANGED <<worker, orphans, deaths>>
           /\ (pc' \in {"construct", "prewarm", "register", "streams"} =>
                   pc \in {"construct", "prewarm", "register", "streams"})
           /\ (pc' \notin {"failed", "none", "gone"} => pc \notin {"failed", "none", "gone"})
           /\ (pc' \notin {"none", "gone"} => pc \notin {"none", "gone"})
  BY <1>8 DEF Elsewhere
<1>9. CASE UNCHANGED vars
  BY <1>8, <1>9 DEF vars
<1>10. CASE CudaContext \/ PrewarmLoad \/ PrewarmInsert \/ RegisterSlots \/ StreamSlotMember
  BY <1>8, <1>10
  DEF CudaContext, PrewarmLoad, LoadModule, PrewarmInsert, RegisterSlots, StreamSlotMember, Create, NoDestroy
<1>11. CASE Ready \/ StartThrows \/ DriverFault \/ ServeLoad \/ ServeInsert
  BY <1>8, <1>11 DEF Ready, StartThrows, DriverFault, ServeLoad, LoadModule, ServeInsert, Create, NoDestroy
<1>12. CASE RecreateContext \/ Attach \/ RecreateThrows \/ Recovered
  BY <1>8, <1>12 DEF RecreateContext, Attach, RecreateThrows, Recovered, Create, NoDestroy
<1> QED
  BY <1>2, <1>3, <1>4, <1>5, <1>6, <1>7, <1>9, <1>10, <1>11, <1>12 DEF Next

(* Which contexts die on another thread than the one that made them, for   *)
(* any number of starts, recoveries and failures: those of the workers     *)
(* that ended with an exception from allocate_slots(), all of those and no *)
(* other.  The comments of cuda_raii.h and server.cpp allow for none.      *)
THEOREM OrphansDieElsewhere == Spec => []OnlyOrphansDieElsewhere
<1>1. IInv /\ Elsewhere => OnlyOrphansDieElsewhere
  BY DEF IInv, HomeOrOrphan, Elsewhere, OnlyOrphansDieElsewhere
<1>2. IInv /\ Elsewhere /\ [Next]_vars => IInv' /\ Elsewhere'
  BY NextPreserves, ElsewhereNext
<1>3. Init => Elsewhere
  BY DEF Init, Elsewhere
<1> QED
  BY <1>1, <1>2, <1>3, InitHolds, PTL DEF Spec

=============================================================================
