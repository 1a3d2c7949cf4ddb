--------------------------- MODULE BackendProofs ----------------------------
(***************************************************************************)
(* The CUDA backend forgets no job, completes none twice, answers each     *)
(* with its own image and implements the IBackend contract, for every      *)
(* number of streams, jobs and driver faults.  The argument: a handle is a *)
(* token that lies on a stream, in the hands of claim_stream(), in         *)
(* completed_ or in what poll_completions() returned; a sweep and a        *)
(* recovery move tokens from the streams to completed_, as many of each    *)
(* handle as they take away.  The CPU backend has the last section.        *)
(***************************************************************************)
EXTENDS CudaBackend, FiniteSetTheorems, FunctionTheorems, SequenceTheorems, WellFoundedInduction, TLAPS

Params == {j.param : j \in Jobs} \cup {Nil}
Images == [handle : Nat, param : Params] \cup {Nil}
Completion == [handle : Nat, status : {"ok", "error"}, image : Images]
Slot == [busy : BOOLEAN, handle : Nat, queued : Seq(Images), staging : Images]

(* Handle h in a sequence of completions, and on the streams *)
Count(s, h) == Cardinality({k \in 1 .. Len(s) : s[k].handle = h})
OnStreams(slots, h) == Cardinality({s \in 1 .. Len(slots) : slots[s].busy /\ slots[s].handle = h})

----------------------------------------------------------------------------
(* The inductive invariant                                                 *)

(* The image job h asked for, when the parameters asked for are w *)
Own(h, w) == [handle |-> h, param |-> w[h]]

(* A stream holds at most one frame: queued, or computed and not yet       *)
(* handed over.  A free stream has nothing left to run.                    *)
SlotOK(slot, w) ==
    IF slot.busy
    THEN /\ slot.handle \in 1 .. Len(w)
         /\ \/ slot.queued = <<Own(slot.handle, w)>>
            \/ slot.queued = <<>> /\ slot.staging = Own(slot.handle, w)
    ELSE slot.queued = <<>>

CompletionOK(c, w) == c.handle \in 1 .. Len(w) /\ (c.status = "ok" => c.image = Own(c.handle, w))

(* The worker's counters and the job it is placing, for which there is a   *)
(* kernel *)
CallsOK ==
    /\ constants_ \in {"baked", "parameterized"}
    /\ next_handle \in 1 .. (MaxJobs + 1)
    /\ wanted \in Seq(Params) /\ Len(wanted) = next_handle - 1
    /\ claiming \in [handle : 1 .. next_handle - 1, job : Jobs] \cup {Nil}
    /\ claiming # Nil => Hits(claiming.job) # {} /\ wanted[claiming.handle] = claiming.job.param

(* A cached kernel belongs to the context that is current. *)
CacheOK == \A entry \in cache : entry.context = context

StreamsOK == streams \in Seq(Slot) /\ \A s \in 1 .. Len(streams) : SlotOK(streams[s], wanted)

(* There are no streams before allocate_slots(). *)
NoStreamsYet == ~allocated => streams = <<>>

LogOK(log, w) == log \in Seq(Completion) /\ \A k \in 1 .. Len(log) : CompletionOK(log[k], w)

Logs == LogOK(completed, wanted) /\ LogOK(returned, wanted)

IInv == CallsOK /\ CacheOK /\ StreamsOK /\ NoStreamsYet /\ Logs /\ EachJobOnce

----------------------------------------------------------------------------
(* The order of the loops over streams_                                    *)

(* A set of slot numbers listed in ascending order *)
Ascending(f, S) ==
    /\ f \in [1 .. Cardinality(S) -> S]
    /\ \A i, k \in 1 .. Cardinality(S) : i < k => f[i] < f[k]

(* A nonempty set of natural numbers has a least element. *)
LEMMA LeastElement ==
    ASSUME NEW T, T \subseteq Nat, T # {}
    PROVE  \E x \in T : \A y \in T : x <= y
<1>1. PICK x \in T : \A y \in T : ~(<<y, x>> \in OpToRel(<, Nat))
  BY NatLessThanWellFounded, WFMin
<1>2. \A y \in T : ~(y < x)
  BY <1>1 DEF OpToRel
<1> QED
  BY <1>2

(* A nonempty set of slot numbers has a last one. *)
LEMMA LastElement ==
    ASSUME NEW n \in Nat, NEW S, S \subseteq 1 .. n, S # {}
    PROVE  \E x \in S : \A y \in S : y <= x
<1> DEFINE Bounds == {b \in Nat : \A y \in S : y <= b}
<1>1. n \in Bounds
  OBVIOUS
<1>2. PICK b \in Bounds : \A c \in Bounds : b <= c
  BY <1>1, LeastElement
<1>3. b \in S
  <2> SUFFICES ASSUME b \notin S PROVE FALSE
    OBVIOUS
  <2>1. \A y \in S : y \in Nat \ {0} /\ y <= b /\ y # b
    BY <1>2
  <2>2. b \in Nat /\ b # 0
    <3>1. PICK y \in S : y \in Nat \ {0} /\ y <= b
      BY <2>1
    <3> QED
      BY <3>1, <1>2
  <2>3. b - 1 \in Bounds
    BY <2>1, <2>2
  <2> QED
    BY <2>2, <2>3, <1>2
<1> QED
  BY <1>2, <1>3

(* A set of slot numbers is finite. *)
LEMMA SlotSets ==
    ASSUME NEW n \in Nat, NEW S, S \subseteq 1 .. n
    PROVE  IsFiniteSet(S) /\ Cardinality(S) \in Nat /\ \A s \in S : s \in Nat /\ s > 0
<1>1. IsFiniteSet(1 .. n)
  BY FS_Interval
<1>2. S \in SUBSET (1 .. n)
  OBVIOUS
<1>3. IsFiniteSet(S)
  BY <1>1, <1>2, FS_Subset
<1>4. Cardinality(S) \in Nat
  BY <1>3, FS_CardinalityType
<1> QED
  BY <1>3, <1>4

(* The order in which a loop visits a set of slots exists.  By descent on  *)
(* the size of the set: its last element follows those before it.          *)
LEMMA OrderExists ==
    ASSUME NEW n \in Nat, NEW S0, S0 \subseteq 1 .. n
    PROVE  \E f : Ascending(f, S0)
<1> DEFINE Unlisted(m) == \E S \in SUBSET (1 .. n) : Cardinality(S) = m /\ \A f : ~Ascending(f, S)
           Bad == {m \in Nat : Unlisted(m)}
<1>0. ASSUME NEW S, S \subseteq 1 .. n PROVE IsFiniteSet(S) /\ Cardinality(S) \in Nat
  BY <1>0, SlotSets
<1> SUFFICES ASSUME \A f : ~Ascending(f, S0) PROVE FALSE
  OBVIOUS
<1>1. Cardinality(S0) \in Bad
  BY <1>0
<1>2. PICK m \in Bad : \A k \in Bad : m <= k
  BY <1>1, LeastElement
<1>3. PICK S \in SUBSET (1 .. n) : Cardinality(S) = m /\ \A f : ~Ascending(f, S)
  BY <1>2
<1>4. IsFiniteSet(S) /\ m \in Nat
  BY <1>0, <1>3
<1>5. S # {}
  <2> SUFFICES ASSUME S = {} PROVE FALSE
    OBVIOUS
  <2>1. m = 0 /\ 1 .. m = {}
    BY <1>3, <1>4, FS_EmptySet
  <2>2. Ascending([i \in 1 .. m |-> i], S)
    BY <2>1, <1>3 DEF Ascending
  <2> QED
    BY <2>2, <1>3
<1>6. PICK x \in S : \A y \in S : y <= x
  BY <1>5, LastElement
<1> DEFINE R == S \ {x}
<1>7. IsFiniteSet(R) /\ Cardinality(R) = m - 1 /\ R \in SUBSET (1 .. n) /\ m - 1 \in Nat
  <2>1. IsFiniteSet(R) /\ Cardinality(R) = m - 1
    BY <1>3, <1>4, <1>6, FS_RemoveElement
  <2> QED
    BY <2>1, <1>0
<1>8. PICK f : Ascending(f, R)
  <2>1. m - 1 \notin Bad
    BY <1>2, <1>4
  <2> QED
    BY <2>1, <1>7
<1> DEFINE g == [i \in 1 .. m |-> IF i = m THEN x ELSE f[i]]
<1>9. \A i \in 1 .. m - 1 : f[i] \in R /\ g[i] = f[i]
  <2>1. f \in [1 .. m - 1 -> R]
    BY <1>7, <1>8 DEF Ascending
  <2>2. \A i \in 1 .. m - 1 : i \in 1 .. m /\ i # m
    BY <1>4
  <2> QED
    BY <2>1, <2>2
<1>10. g \in [1 .. m -> S] /\ g[m] = x
  <2>1. ASSUME NEW i \in 1 .. m PROVE g[i] \in S
    <3>1. CASE i = m
      BY <3>1, <1>6
    <3>2. CASE i # m
      <4>1. i \in 1 .. m - 1
        BY <3>2, <1>4
      <4> QED
        BY <4>1, <1>9
    <3> QED
      BY <3>1, <3>2
  <2>2. m \in 1 .. m
    BY <1>7, <1>4
  <2> QED
    BY <2>1, <2>2
<1>11. ASSUME NEW i \in 1 .. m, NEW k \in 1 .. m, i < k PROVE g[i] < g[k]
  <2>1. i \in 1 .. m - 1
    BY <1>11, <1>4
  <2>2. f[i] \in R /\ g[i] = f[i]
    BY <2>1, <1>9
  <2>3. CASE k = m
    <3>1. \A s \in S : s \in Nat
      BY <1>3, SlotSets
    <3>2. f[i] \in Nat /\ x \in Nat /\ f[i] <= x /\ f[i] # x
      BY <3>1, <2>2, <1>6
    <3> QED
      BY <3>2, <2>2, <2>3, <1>10
  <2>4. CASE k # m
    <3>1. k \in 1 .. m - 1
      BY <2>4, <1>4
    <3>2. f[i] < f[k]
      BY <3>1, <2>1, <1>8, <1>7, <1>11 DEF Ascending
    <3> QED
      BY <3>1, <3>2, <2>2, <1>9
  <2> QED
    BY <2>3, <2>4
<1> HIDE DEF g
<1>12. Ascending(g, S)
  BY <1>3, <1>10, <1>11 DEF Ascending
<1> QED
  BY <1>12, <1>3

(* InSlotOrder visits every slot of the set, and each once. *)
LEMMA VisitsEachOnce ==
    ASSUME NEW n \in Nat, NEW S, S \subseteq 1 .. n
    PROVE  /\ IsFiniteSet(S) /\ Cardinality(S) \in Nat
           /\ InSlotOrder(S) \in Bijection(1 .. Cardinality(S), S)
<1> DEFINE m == Cardinality(S)
           v == InSlotOrder(S)
<1>1. IsFiniteSet(S) /\ m \in Nat /\ \A s \in S : s \in Nat
  BY SlotSets
<1>2. Ascending(v, S)
  <2>1. \E f : Ascending(f, S)
    BY OrderExists
  <2> QED
    BY <2>1 DEF InSlotOrder, Ascending
<1> HIDE DEF v
<1>3. v \in Injection(1 .. m, S)
  <2>1. ASSUME NEW i \in 1 .. m, NEW k \in 1 .. m, v[i] = v[k] PROVE i = k
    <3>1. v[i] \in Nat /\ v[k] \in Nat
      BY <1>1, <1>2 DEF Ascending
    <3>2. ~(i < k) /\ ~(k < i)
      BY <3>1, <2>1, <1>2 DEF Ascending
    <3> QED
      BY <3>2, <1>1
  <2>2. v \in [1 .. m -> S]
    BY <1>2 DEF Ascending
  <2> QED
    BY <2>1, <2>2 DEF Injection, IsInjective
<1>4. Cardinality(1 .. m) = m
  BY <1>1, FS_Interval
<1>5. v \in Surjection(1 .. m, S)
  BY <1>1, <1>3, <1>4, FS_Injection
<1> QED
  BY <1>1, <1>3, <1>5 DEF Bijection, v

----------------------------------------------------------------------------
(* Counting handles                                                        *)

(* The counts are natural numbers. *)
LEMMA CountType ==
    ASSUME NEW X, NEW s \in Seq(X), NEW h
    PROVE  Len(s) \in Nat /\ IsFiniteSet({k \in 1 .. Len(s) : s[k].handle = h}) /\ Count(s, h) \in Nat
<1>1. Len(s) \in Nat /\ {k \in 1 .. Len(s) : s[k].handle = h} \subseteq 1 .. Len(s)
  BY LenProperties
<1> QED
  BY <1>1, SlotSets DEF Count

(* So are the counts of frames on streams. *)
LEMMA OnStreamsType ==
    ASSUME NEW X, NEW slots \in Seq(X), NEW h
    PROVE  /\ Len(slots) \in Nat /\ OnStreams(slots, h) \in Nat
           /\ IsFiniteSet({s \in 1 .. Len(slots) : slots[s].busy /\ slots[s].handle = h})
<1>1. Len(slots) \in Nat /\ {s \in 1 .. Len(slots) : slots[s].busy /\ slots[s].handle = h} \subseteq 1 .. Len(slots)
  BY LenProperties
<1> QED
  BY <1>1, SlotSets DEF OnStreams

(* Nothing is counted in an empty sequence. *)
LEMMA CountEmpty == \A h : Count(<<>>, h) = 0 /\ OnStreams(<<>>, h) = 0
<1>1. ASSUME NEW h PROVE /\ {k \in 1 .. Len(<<>>) : <<>>[k].handle = h} = {}
                        /\ {s \in 1 .. Len(<<>>) : <<>>[s].busy /\ <<>>[s].handle = h} = {}
  OBVIOUS
<1> QED
  BY <1>1, FS_EmptySet DEF Count, OnStreams

(* Two sequences of completions, one after the other *)
LEMMA CountConcat ==
    ASSUME NEW s \in Seq(Completion), NEW t \in Seq(Completion), NEW h
    PROVE  s \o t \in Seq(Completion) /\ Count(s \o t, h) = Count(s, h) + Count(t, h)
<1> DEFINE n == Len(s)
           A == {k \in 1 .. Len(s) : s[k].handle = h}
           B == {k \in 1 .. Len(t) : t[k].handle = h}
           C == {k \in 1 .. Len(s \o t) : (s \o t)[k].handle = h}
           D == {n + k : k \in B}
           f == [k \in B |-> n + k]
<1>1. /\ n \in Nat /\ Len(t) \in Nat /\ s \o t \in Seq(Completion) /\ Len(s \o t) = n + Len(t)
      /\ \A k \in 1 .. n : (s \o t)[k] = s[k]
      /\ \A k \in 1 .. Len(t) : (s \o t)[n + k] = t[k]
  OBVIOUS
<1>2. IsFiniteSet(A) /\ IsFiniteSet(B) /\ Cardinality(A) \in Nat /\ Cardinality(B) \in Nat
  BY CountType DEF Count
<1>3. IsFiniteSet(D) /\ Cardinality(D) = Cardinality(B)
  <2>1. f \in Bijection(B, D)
    BY <1>1 DEF Bijection, Injection, Surjection, IsInjective
  <2> QED
    BY <2>1, <1>2, FS_Bijection DEF ExistsBijection
<1>4. C = A \cup D
  <2>1. ASSUME NEW k \in C PROVE k \in A \cup D
    <3>1. CASE k <= n
      BY <3>1, <1>1
    <3>2. CASE k > n
      <4>1. k - n \in 1 .. Len(t) /\ k = n + (k - n)
        BY <3>2, <1>1
      <4>2. k - n \in B
        BY <4>1, <1>1
      <4> QED
        BY <4>1, <4>2
    <3> QED
      BY <3>1, <3>2, <1>1
  <2>2. ASSUME NEW k \in A PROVE k \in C
    BY <1>1
  <2>3. ASSUME NEW k \in B PROVE n + k \in C
    BY <1>1
  <2> QED
    BY <2>1, <2>2, <2>3
<1>5. A \cap D = {}
  BY <1>1
<1>6. Cardinality(C) = Cardinality(A) + Cardinality(D) - Cardinality(A \cap D)
  BY <1>2, <1>3, <1>4, FS_Union
<1>7. Cardinality(C) = Cardinality(A) + Cardinality(B)
  <2>1. Cardinality(A \cap D) = 0
    BY <1>5, FS_EmptySet
  <2> HIDE DEF A, B, C, D
  <2> QED
    BY <2>1, <1>2, <1>3, <1>6
<1> QED
  BY <1>1, <1>7 DEF Count

(* One completion more *)
LEMMA CountAppend ==
    ASSUME NEW s \in Seq(Completion), NEW c \in Completion, NEW h
    PROVE  /\ Append(s, c) \in Seq(Completion) /\ Append(s, c) = s \o <<c>> /\ <<c>> \in Seq(Completion)
           /\ Count(<<c>>, h) = (IF c.handle = h THEN 1 ELSE 0)
           /\ Count(Append(s, c), h) = Count(s, h) + (IF c.handle = h THEN 1 ELSE 0)
<1>1. Append(s, c) = s \o <<c>> /\ <<c>> \in Seq(Completion) /\ Append(s, c) \in Seq(Completion)
  OBVIOUS
<1>2. Count(<<c>>, h) = (IF c.handle = h THEN 1 ELSE 0)
  <2> DEFINE S == {k \in 1 .. Len(<<c>>) : <<c>>[k].handle = h}
  <2>1. Len(<<c>>) = 1 /\ <<c>>[1] = c
    OBVIOUS
  <2>2. CASE c.handle = h
    <3>1. S = {1}
      BY <2>1, <2>2
    <3> QED
      BY <3>1, <2>2, FS_Singleton DEF Count
  <2>3. CASE c.handle # h
    <3>1. S = {}
      BY <2>1, <2>3
    <3> QED
      BY <3>1, <2>3, FS_EmptySet DEF Count
  <2> QED
    BY <2>2, <2>3
<1>3. Count(s \o <<c>>, h) = Count(s, h) + Count(<<c>>, h)
  BY <1>1, CountConcat
<1> QED
  BY <1>1, <1>2, <1>3

(* A set of slot numbers, and those of its slots whose completion is for   *)
(* handle h *)
SlotNumbers(S) == \E n \in Nat : S \subseteq 1 .. n
SlotsFor(S, c, h) == {s \in S : c[s].handle = h}

(* A loop that makes one completion for each slot of a set counts a handle *)
(* as often as the slots do.                                               *)
LEMMA LoopCounts ==
    ASSUME NEW S, SlotNumbers(S), NEW c \in [S -> Completion],
           NEW v, v = InSlotOrder(S), NEW made \in [DOMAIN v -> Completion],
           \A k \in DOMAIN v : made[k] = c[v[k]]
    PROVE  /\ made \in Seq(Completion)
           /\ \A k \in 1 .. Len(made) : \E s \in S : made[k] = c[s]
           /\ \A h : Count(made, h) = Cardinality(SlotsFor(S, c, h))
<1> DEFINE m == Cardinality(S)
<1>2. m \in Nat /\ v \in Bijection(1 .. m, S)
  BY VisitsEachOnce DEF SlotNumbers
<1>3. /\ v \in [1 .. m -> S]
      /\ \A i, k \in 1 .. m : v[i] = v[k] => i = k
      /\ \A s \in S : \E k \in 1 .. m : v[k] = s
  BY <1>2 DEF Bijection, Injection, Surjection, IsInjective
<1> HIDE DEF m
<1>4. made \in [1 .. m -> Completion] /\ \A k \in 1 .. m : made[k] = c[v[k]]
  BY <1>3
<1>5. made \in Seq(Completion) /\ Len(made) = m
  BY <1>2, <1>4, SeqDef
<1>6. \A k \in 1 .. m : v[k] \in S /\ made[k] = c[v[k]]
  BY <1>3, <1>4
<1>7. ASSUME NEW h PROVE Count(made, h) = Cardinality(SlotsFor(S, c, h))
  <2> DEFINE P == {k \in 1 .. Len(made) : made[k].handle = h}
             Q == SlotsFor(S, c, h)
             f == [k \in P |-> v[k]]
  <2>1. IsFiniteSet(P)
    <3>1. Len(made) \in Nat /\ P \subseteq 1 .. Len(made)
      BY <1>2, <1>5
    <3> QED
      BY <3>1, SlotSets
  <2>2. f \in [P -> Q]
    BY <1>5, <1>6 DEF SlotsFor
  <2>3. \A i, k \in P : f[i] = f[k] => i = k
    BY <1>3, <1>5
  <2>4. ASSUME NEW s \in Q PROVE \E k \in P : f[k] = s
    <3>1. PICK k \in 1 .. m : v[k] = s
      BY <1>3 DEF SlotsFor
    <3>2. k \in P
      BY <3>1, <1>5, <1>6 DEF SlotsFor
    <3> QED
      BY <3>1, <3>2
  <2> HIDE DEF P, Q, f
  <2>5. f \in Bijection(P, Q)
    BY <2>2, <2>3, <2>4 DEF Bijection, Injection, Surjection, IsInjective
  <2>6. Cardinality(P) = Cardinality(Q)
    BY <2>1, <2>5, FS_Bijection DEF ExistsBijection
  <2> QED
    BY <2>6 DEF P, Q, Count
<1> QED
  BY <1>5, <1>6, <1>7

----------------------------------------------------------------------------
(* Sweeps and recoveries                                                   *)

(* A failed job is a completion without an image. *)
LEMMA FailedJob ==
    ASSUME NEW h \in Nat, NEW w, h \in 1 .. Len(w)
    PROVE  fail_job(h) \in Completion /\ fail_job(h).handle = h /\ CompletionOK(fail_job(h), w)
  BY DEF fail_job, Completion, CompletionOK, Images

(* The first step of a recovery fails every frame on the GPU, once. *)
LEMMA FailsWhatIsBusy ==
    ASSUME NEW slots \in Seq(Slot), NEW w, \A s \in 1 .. Len(slots) : SlotOK(slots[s], w)
    PROVE  /\ FailBusy(slots) \in Seq(Completion)
           /\ \A k \in 1 .. Len(FailBusy(slots)) : CompletionOK(FailBusy(slots)[k], w)
           /\ \A h : Count(FailBusy(slots), h) = OnStreams(slots, h)
<1> DEFINE n == Len(slots)
           S == {s \in 1 .. n : slots[s].busy}
           c == [s \in S |-> fail_job(slots[s].handle)]
           made == FailBusy(slots)
<1>1. n \in Nat /\ S \subseteq 1 .. n
  BY LenProperties
<1>2. ASSUME NEW s \in S
      PROVE  c[s] \in Completion /\ c[s].handle = slots[s].handle /\ CompletionOK(c[s], w)
  <2>1. slots[s] \in Slot /\ SlotOK(slots[s], w) /\ slots[s].busy
    BY <1>1, ElementOfSeq
  <2>2. slots[s].handle \in Nat /\ slots[s].handle \in 1 .. Len(w)
    BY <2>1 DEF Slot, SlotOK
  <2> QED
    BY <2>2, FailedJob
<1>3. PICK visit : visit = InSlotOrder(S)
  OBVIOUS
<1>4. \A k \in DOMAIN visit : visit[k] \in S
  BY <1>1, <1>3, VisitsEachOnce DEF Bijection, Injection
<1>5. made = [k \in DOMAIN visit |-> fail_job(slots[visit[k]].handle)]
  BY <1>3 DEF FailBusy
<1>6. made \in [DOMAIN visit -> Completion] /\ \A k \in DOMAIN visit : made[k] = c[visit[k]]
  BY <1>2, <1>4, <1>5
<1>7. c \in [S -> Completion] /\ SlotNumbers(S)
  BY <1>1, <1>2 DEF SlotNumbers
<1> HIDE DEF c, made
<1>8. /\ made \in Seq(Completion)
      /\ \A k \in 1 .. Len(made) : \E s \in S : made[k] = c[s]
      /\ \A h : Count(made, h) = Cardinality(SlotsFor(S, c, h))
  <2> HIDE DEF S, n
  <2> QED
    BY <1>3, <1>6, <1>7, LoopCounts
<1>9. ASSUME NEW h PROVE Cardinality(SlotsFor(S, c, h)) = OnStreams(slots, h)
  <2>1. SlotsFor(S, c, h) = {s \in 1 .. n : slots[s].busy /\ slots[s].handle = h}
    BY <1>2 DEF SlotsFor
  <2> QED
    BY <2>1 DEF OnStreams
<1>10. \A k \in 1 .. Len(made) : CompletionOK(made[k], w)
  BY <1>8, <1>2
<1> QED
  BY <1>8, <1>9, <1>10 DEF made

(* The frames on slots 1 .. n that the sweep hands over *)
Ready(n, h) == {s \in 1 .. n : Finished(streams[s]) /\ streams[s].handle = h}

(* A sweep hands over the finished frames, each once and with its image. *)
LEMMA SweepHandsOver ==
    ASSUME StreamsOK, NEW n \in 0 .. Len(streams)
    PROVE  /\ Retired(n) \in Seq(Completion)
           /\ \A k \in 1 .. Len(Retired(n)) : CompletionOK(Retired(n)[k], wanted)
           /\ \A h : Count(Retired(n), h) = Cardinality(Ready(n, h))
<1> DEFINE S == {s \in 1 .. n : Finished(streams[s])}
           c == [s \in S |-> Succeed(streams[s].handle, streams[s].staging)]
           made == Retired(n)
<1>1. Len(streams) \in Nat /\ n \in Nat /\ S \subseteq 1 .. n /\ S \subseteq 1 .. Len(streams)
  <2>1. Len(streams) \in Nat
    BY LenProperties DEF StreamsOK
  <2> QED
    BY <2>1
<1>2. ASSUME NEW s \in S
      PROVE  c[s] \in Completion /\ c[s].handle = streams[s].handle /\ CompletionOK(c[s], wanted)
  <2>1. streams[s] \in Slot /\ SlotOK(streams[s], wanted) /\ streams[s].busy /\ streams[s].queued = <<>>
    BY <1>1, ElementOfSeq DEF StreamsOK, Finished, Done
  <2>2. streams[s].handle \in 1 .. Len(wanted) /\ streams[s].staging = Own(streams[s].handle, wanted)
    BY <2>1 DEF SlotOK
  <2>3. streams[s].handle \in Nat /\ streams[s].staging \in Images
    BY <2>1 DEF Slot
  <2> QED
    BY <2>2, <2>3 DEF Succeed, Completion, CompletionOK
<1>3. PICK visit : visit = InSlotOrder(S)
  OBVIOUS
<1>4. \A k \in DOMAIN visit : visit[k] \in S
  BY <1>1, <1>3, VisitsEachOnce DEF Bijection, Injection
<1>5. made = [k \in DOMAIN visit |-> Succeed(streams[visit[k]].handle, streams[visit[k]].staging)]
  BY <1>3 DEF Retired
<1>6. made \in [DOMAIN visit -> Completion] /\ \A k \in DOMAIN visit : made[k] = c[visit[k]]
  BY <1>2, <1>4, <1>5
<1>7. c \in [S -> Completion] /\ SlotNumbers(S)
  BY <1>1, <1>2 DEF SlotNumbers
<1> HIDE DEF c, made
<1>8. /\ made \in Seq(Completion)
      /\ \A k \in 1 .. Len(made) : \E s \in S : made[k] = c[s]
      /\ \A h : Count(made, h) = Cardinality(SlotsFor(S, c, h))
  <2> HIDE DEF S
  <2> QED
    BY <1>3, <1>6, <1>7, LoopCounts
<1>9. ASSUME NEW h PROVE Cardinality(SlotsFor(S, c, h)) = Cardinality(Ready(n, h))
  <2>1. SlotsFor(S, c, h) = Ready(n, h)
    BY <1>2 DEF Ready, SlotsFor
  <2> QED
    BY <2>1
<1>10. \A k \in 1 .. Len(made) : CompletionOK(made[k], wanted)
  BY <1>8, <1>2
<1> QED
  BY <1>8, <1>9, <1>10 DEF made

(* What the sweep leaves on the streams is the rest. *)
LEMMA SweepLeaves ==
    ASSUME StreamsOK, NEW n \in 0 .. Len(streams)
    PROVE  /\ AfterRetire(n) \in Seq(Slot)
           /\ \A s \in 1 .. Len(AfterRetire(n)) : SlotOK(AfterRetire(n)[s], wanted)
           /\ \A h : /\ Cardinality(Ready(n, h)) \in Nat /\ OnStreams(AfterRetire(n), h) \in Nat
                    /\ Cardinality(Ready(n, h)) + OnStreams(AfterRetire(n), h) = OnStreams(streams, h)
<1> DEFINE m == Len(streams)
           left == AfterRetire(n)
           free(s) == [streams[s] EXCEPT !.busy = FALSE]
<1>1. m \in Nat /\ n \in Nat /\ n <= m
  <2>1. m \in Nat
    BY LenProperties DEF StreamsOK
  <2> QED
    BY <2>1
<1>2. \A s \in 1 .. m : streams[s] \in Slot /\ SlotOK(streams[s], wanted)
  BY <1>1, ElementOfSeq DEF StreamsOK
<1>3. \A s \in 1 .. m : left[s] = IF s <= n /\ Finished(streams[s]) THEN free(s) ELSE streams[s]
  BY DEF AfterRetire
<1>4. ASSUME NEW s \in 1 .. m, Finished(streams[s])
      PROVE  free(s) \in Slot /\ ~free(s).busy /\ SlotOK(free(s), wanted)
  <2>1. streams[s] \in Slot /\ streams[s].queued = <<>>
    BY <1>2, <1>4 DEF Finished, Done
  <2>2. free(s) \in Slot /\ free(s).busy = FALSE /\ free(s).queued = <<>>
    BY <2>1 DEF Slot
  <2> QED
    BY <2>2 DEF SlotOK
<1> HIDE DEF free
<1>5. \A s \in 1 .. m : left[s] \in Slot /\ SlotOK(left[s], wanted)
  BY <1>2, <1>3, <1>4
<1>6. left \in Seq(Slot) /\ Len(left) = m
  <2>1. left \in [1 .. m -> Slot]
    <3>1. left = [s \in 1 .. m |-> left[s]]
      BY DEF AfterRetire
    <3> HIDE DEF left
    <3> QED
      BY <3>1, <1>5
  <2> HIDE DEF left
  <2> QED
    BY <2>1, <1>1, SeqDef
<1>7. ASSUME NEW h
      PROVE  /\ Cardinality(Ready(n, h)) \in Nat /\ OnStreams(left, h) \in Nat
             /\ Cardinality(Ready(n, h)) + OnStreams(left, h) = OnStreams(streams, h)
  <2> DEFINE A == Ready(n, h)
             B == {s \in 1 .. Len(left) : left[s].busy /\ left[s].handle = h}
             C == {s \in 1 .. m : streams[s].busy /\ streams[s].handle = h}
  <2>1. A \subseteq 1 .. n /\ B \subseteq 1 .. m
    BY <1>6 DEF Ready
  <2>2. IsFiniteSet(A) /\ IsFiniteSet(B) /\ Cardinality(A) \in Nat /\ Cardinality(B) \in Nat
    BY <2>1, <1>1, SlotSets
  <2>3. ASSUME NEW s \in 1 .. m PROVE (s \in C <=> s \in A \/ s \in B) /\ ~(s \in A /\ s \in B)
    <3>1. CASE s <= n /\ Finished(streams[s])
      <4>1. ~left[s].busy /\ streams[s].busy /\ s \in 1 .. n
        BY <3>1, <1>1, <1>3, <1>4 DEF Finished
      <4> QED
        BY <4>1, <3>1, <1>6 DEF Ready
    <3>2. CASE ~(s <= n /\ Finished(streams[s]))
      <4>1. left[s] = streams[s] /\ s \notin A
        BY <3>2, <1>1, <1>3 DEF Ready
      <4> QED
        BY <4>1, <1>6
    <3> QED
      BY <3>1, <3>2
  <2>4. C = A \cup B /\ A \cap B = {}
    <3>1. A \subseteq 1 .. m /\ C \subseteq 1 .. m
      BY <2>1, <1>1
    <3> HIDE DEF A, B, C
    <3> QED
      BY <3>1, <2>1, <2>3
  <2>5. Cardinality(A \cap B) = 0 /\ Cardinality(C) = Cardinality(A) + Cardinality(B) - Cardinality(A \cap B)
    <3> HIDE DEF A, B, C
    <3> QED
      BY <2>2, <2>4, FS_Union, FS_EmptySet
  <2>6. OnStreams(streams, h) = Cardinality(C) /\ OnStreams(left, h) = Cardinality(B)
    BY DEF OnStreams
  <2> HIDE DEF A, B, C, left
  <2>7. Cardinality(A) + Cardinality(B) = Cardinality(C)
    BY <2>2, <2>5
  <2> QED
    BY <2>2, <2>6, <2>7 DEF A
<1> HIDE DEF left
<1>8. \A s \in 1 .. Len(left) : SlotOK(left[s], wanted)
  BY <1>5, <1>6
<1> QED
  BY <1>6, <1>7, <1>8 DEF left

(* Fresh slots hold no frame. *)
LEMMA FreshSlots ==
    ASSUME NEW n \in Nat, NEW slots, slots = [s \in 1 .. n |-> FreshSlot]
    PROVE  /\ slots \in Seq(Slot)
           /\ \A w : \A s \in 1 .. Len(slots) : SlotOK(slots[s], w)
           /\ \A h : OnStreams(slots, h) = 0
<1>1. FreshSlot \in Slot /\ ~FreshSlot.busy /\ FreshSlot.queued = <<>>
  BY EmptySeq DEF FreshSlot, Slot, Images
<1>2. slots \in [1 .. n -> Slot] /\ \A s \in 1 .. n : slots[s] = FreshSlot
  BY <1>1
<1>3. slots \in Seq(Slot) /\ Len(slots) = n
  BY <1>2, SeqDef
<1>4. \A w : \A s \in 1 .. Len(slots) : SlotOK(slots[s], w)
  BY <1>1, <1>2, <1>3 DEF SlotOK
<1>5. ASSUME NEW h PROVE OnStreams(slots, h) = 0
  <2>1. {s \in 1 .. Len(slots) : slots[s].busy /\ slots[s].handle = h} = {}
    BY <1>1, <1>2, <1>3
  <2> QED
    BY <2>1, FS_EmptySet DEF OnStreams
<1> QED
  BY <1>3, <1>4, <1>5

(* After a recovery no stream holds a frame and no kernel is cached. *)
LEMMA RebuildClears ==
    ASSUME Rebuild
    PROVE  /\ cache' = {} /\ streams' \in Seq(Slot)
           /\ \A w : \A s \in 1 .. Len(streams') : SlotOK(streams'[s], w)
           /\ \A h : OnStreams(streams', h) = 0
<1>1. K \in Nat
  BY BackendAssumption DEF K
<1>2. \E n \in Nat : streams' = [s \in 1 .. n |-> FreshSlot]
  <2>1. CASE streams' = <<>>
    <3>1. <<>> = [s \in 1 .. 0 |-> FreshSlot]
      OBVIOUS
    <3> QED
      BY <2>1, <3>1
  <2>2. CASE \E n \in 0 .. K : streams' = Slots(n)
    <3>1. PICK n \in 0 .. K : streams' = Slots(n)
      BY <2>2
    <3>2. CASE allocated
      BY <3>1, <3>2, <1>1 DEF Slots
    <3>3. CASE ~allocated
      BY <3>1, <3>3 DEF Slots
    <3> QED
      BY <3>2, <3>3
  <2> QED
    BY <2>1, <2>2 DEF Rebuild
<1>3. cache' = {}
  BY DEF Rebuild, clear
<1> QED
  BY <1>2, <1>3, FreshSlots

(* A longer history of parameters changes nothing for the jobs before. *)
LEMMA EarlierJobs ==
    ASSUME NEW w \in Seq(Params), NEW p \in Params
    PROVE  /\ Append(w, p) \in Seq(Params) /\ Len(w) \in Nat /\ Len(Append(w, p)) = Len(w) + 1
           /\ Append(w, p)[Len(w) + 1] = p
           /\ \A h \in 1 .. Len(w) : h \in 1 .. Len(Append(w, p)) /\ Append(w, p)[h] = w[h] /\ Own(h, Append(w, p)) = Own(h, w)
           /\ \A slot : SlotOK(slot, w) => SlotOK(slot, Append(w, p))
           /\ \A c : CompletionOK(c, w) => CompletionOK(c, Append(w, p))
<1>1. /\ Append(w, p) \in Seq(Params) /\ Len(w) \in Nat /\ Len(Append(w, p)) = Len(w) + 1
      /\ Append(w, p)[Len(w) + 1] = p
      /\ \A h \in 1 .. Len(w) : Append(w, p)[h] = w[h]
  OBVIOUS
<1>2. \A h \in 1 .. Len(w) : h \in 1 .. Len(Append(w, p)) /\ Own(h, Append(w, p)) = Own(h, w)
  BY <1>1 DEF Own
<1> HIDE DEF Own
<1>3. ASSUME NEW slot, SlotOK(slot, w) PROVE SlotOK(slot, Append(w, p))
  BY <1>2, <1>3 DEF SlotOK
<1>4. ASSUME NEW c, CompletionOK(c, w) PROVE CompletionOK(c, Append(w, p))
  BY <1>2, <1>4 DEF CompletionOK
<1> QED
  BY <1>1, <1>2, <1>3, <1>4

(* The parameter of a job is a parameter. *)
LEMMA JobParam == \A j \in Jobs : j.param \in Params
  BY DEF Params

----------------------------------------------------------------------------
(* The calls                                                               *)

(* Every step keeps the worker's part of the invariant. *)
LEMMA CallsStep == CallsOK /\ CacheOK /\ [Next]_vars => CallsOK' /\ CacheOK'
<1> SUFFICES ASSUME CallsOK, CacheOK, [Next]_vars PROVE CallsOK' /\ CacheOK'
  OBVIOUS
<1>0. MaxJobs \in Nat /\ next_handle \in Nat /\ wanted \in Seq(Params) /\ Len(wanted) = next_handle - 1
  BY BackendAssumption DEF CallsOK
<1>1. CASE UNCHANGED <<constants_, context, cache, next_handle, claiming, wanted>>
  BY <1>1 DEF CallsOK, CacheOK, Hits, SameKey
<1>2. ASSUME UNCHANGED <<constants_, next_handle, wanted>>, claiming' = Nil, cache' = {}
      PROVE  CallsOK' /\ CacheOK'
  BY <1>2 DEF CallsOK, CacheOK
<1>3. ASSUME NEW j \in Jobs, NewHandle(j), UNCHANGED constants_,
             \/ claiming' = Nil
             \/ claiming' = [handle |-> next_handle, job |-> j] /\ Hits(j)' # {}
      PROVE  CallsOK'
  <2> DEFINE p == j.param
  <2>1. next_handle' = next_handle + 1 /\ wanted' = Append(wanted, p) /\ next_handle <= MaxJobs
    BY <1>3 DEF NewHandle
  <2>2. p \in Params
    BY JobParam
  <2> HIDE DEF p
  <2>3. wanted' \in Seq(Params) /\ Len(wanted') = Len(wanted) + 1 /\ wanted'[Len(wanted) + 1] = p
    BY <2>1, <2>2, <1>0, EarlierJobs
  <2>4. next_handle' \in 1 .. (MaxJobs + 1) /\ Len(wanted') = next_handle' - 1 /\ wanted'[next_handle] = p
    BY <2>1, <2>3, <1>0 DEF CallsOK
  <2>5. CASE claiming' = Nil
    BY <2>3, <2>4, <2>5, <1>3 DEF CallsOK
  <2>6. CASE claiming' = [handle |-> next_handle, job |-> j] /\ Hits(j)' # {}
    <3>1. next_handle \in 1 .. next_handle' - 1
      BY <2>1, <1>0 DEF CallsOK
    <3>2. /\ claiming' \in [handle : 1 .. next_handle' - 1, job : Jobs]
          /\ claiming'.handle = next_handle /\ claiming'.job = j
      BY <3>1, <2>6
    <3>3. Hits(claiming.job)' # {}
      BY <3>2, <2>6 DEF Hits, SameKey
    <3> QED
      BY <3>2, <3>3, <2>3, <2>4, <1>3 DEF CallsOK, p
  <2> QED
    BY <2>5, <2>6, <1>3
<1>4. CASE GpuStep \/ DriverFault \/ allocate_slots \/ ClaimWaits \/ poll_completions \/ UNCHANGED vars
  BY <1>1, <1>4 DEF GpuStep, DriverFault, allocate_slots, ClaimWaits, poll_completions, vars
<1>5. ASSUME NEW j \in Jobs, prewarm(j) PROVE CallsOK' /\ CacheOK'
  <2>1. UNCHANGED <<constants_, context, next_handle, claiming, wanted>> /\ claiming = Nil
        /\ cache' = cache \cup {Compiled(j)}
    BY <1>5 DEF prewarm, Idle
  <2> QED
    BY <2>1 DEF CallsOK, CacheOK, Compiled
<1>6. ASSUME NEW j \in Jobs, SubmitRefused(j) \/ SubmitIdentity(j) PROVE CallsOK' /\ CacheOK'
  <2>1. NewHandle(j) /\ UNCHANGED <<constants_, context, cache>> /\ claiming' = Nil
    BY <1>6 DEF SubmitRefused, SubmitIdentity, NewHandle, Idle
  <2> QED
    BY <2>1, <1>3 DEF CacheOK
<1>7. ASSUME NEW j \in Jobs, SubmitLoadFails(j) PROVE CallsOK' /\ CacheOK'
  <2>1. NewHandle(j) /\ UNCHANGED constants_ /\ claiming' = Nil /\ Rebuild
    BY <1>7 DEF SubmitLoadFails, NewHandle, Idle, recover
  <2>2. cache' = {}
    BY <2>1, RebuildClears
  <2> QED
    BY <2>1, <2>2, <1>3 DEF CacheOK
<1>8. ASSUME NEW j \in Jobs, SubmitKernel(j) PROVE CallsOK' /\ CacheOK'
  <2>1. /\ NewHandle(j) /\ UNCHANGED <<constants_, context>> /\ claiming = Nil
        /\ cache' = IF Hits(j) = {} THEN cache \cup {Compiled(j)} ELSE cache
        /\ claiming' = claiming \/ claiming' = [handle |-> next_handle, job |-> j]
    BY <1>8 DEF SubmitKernel, NewHandle, Idle
  <2>2. CacheOK' /\ Hits(j)' # {}
    <3>1. CASE Hits(j) = {}
      <4>1. SameKey(Compiled(j), j) /\ Compiled(j).context = context
        BY DEF SameKey, Compiled
      <4>2. Compiled(j) \in cache'
        BY <3>1, <2>1
      <4>3. Compiled(j) \in Hits(j)'
        BY <4>1, <4>2, <2>1 DEF Hits, SameKey
      <4> QED
        BY <3>1, <4>1, <4>3, <2>1 DEF CacheOK
    <3>2. CASE Hits(j) # {}
      BY <3>2, <2>1 DEF CacheOK, Hits, SameKey
    <3> QED
      BY <3>1, <3>2
  <2> QED
    BY <2>1, <2>2, <1>3
<1>9. CASE Launch
  <2>1. UNCHANGED <<constants_, context, cache, next_handle, wanted>> /\ claiming' = Nil
    BY <1>9 DEF Launch
  <2> QED
    BY <2>1 DEF CallsOK, CacheOK
<1>10. CASE LaunchFails \/ ClaimFails \/ PollRecovers \/ recreate_context
  <2>1. UNCHANGED <<constants_, next_handle, wanted>> /\ claiming' = Nil /\ Rebuild
    BY <1>10 DEF LaunchFails, ClaimFails, PollRecovers, recreate_context, recover, Idle
  <2>2. cache' = {}
    BY <2>1, RebuildClears
  <2> QED
    BY <2>1, <2>2, <1>2
<1> QED
  BY <1>4, <1>5, <1>6, <1>7, <1>8, <1>9, <1>10 DEF Next, Claim

(* The sequence of streams after one of them has changed *)
LEMMA OneSlotChanges ==
    ASSUME StreamsOK, NEW s \in 1 .. Len(streams), NEW slot \in Slot, SlotOK(slot, wanted),
           streams' = [streams EXCEPT ![s] = slot]
    PROVE  /\ streams' \in Seq(Slot) /\ Len(streams') = Len(streams)
           /\ \A r \in 1 .. Len(streams) : streams'[r] = IF r = s THEN slot ELSE streams[r]
           /\ \A r \in 1 .. Len(streams') : SlotOK(streams'[r], wanted)
<1>1. streams \in Seq(Slot) /\ Len(streams) \in Nat /\ \A r \in 1 .. Len(streams) : SlotOK(streams[r], wanted)
  BY LenProperties DEF StreamsOK
<1>2. /\ streams' \in Seq(Slot) /\ Len(streams') = Len(streams)
      /\ \A r \in 1 .. Len(streams) : streams'[r] = IF r = s THEN slot ELSE streams[r]
  BY <1>1, ExceptSeq
<1> QED
  BY <1>1, <1>2

(* The GPU finishes the frame of a busy stream and touches no other. *)
LEMMA GpuFinishes ==
    ASSUME StreamsOK, GpuStep
    PROVE  /\ streams' \in Seq(Slot) /\ \A r \in 1 .. Len(streams') : SlotOK(streams'[r], wanted)
           /\ \A h : OnStreams(streams', h) = OnStreams(streams, h)
<1>1. PICK s \in 1 .. Len(streams) :
          /\ ~Done(streams[s])
          /\ streams' = [streams EXCEPT ![s] = [@ EXCEPT !.staging = Head(streams[s].queued),
                                                         !.queued = Tail(streams[s].queued)]]
  BY DEF GpuStep
<1>2. streams \in Seq(Slot) /\ Len(streams) \in Nat /\ streams[s] \in Slot /\ SlotOK(streams[s], wanted)
  BY LenProperties, ElementOfSeq DEF StreamsOK
<1> DEFINE old == streams[s]
           new == [old EXCEPT !.staging = Head(old.queued), !.queued = Tail(old.queued)]
<1>3. old.busy /\ old.queued = <<Own(old.handle, wanted)>> /\ old.handle \in 1 .. Len(wanted)
  BY <1>1, <1>2 DEF SlotOK, Done
<1>5. streams' = [streams EXCEPT ![s] = new]
  BY <1>1
<1>6. Head(old.queued) = Own(old.handle, wanted) /\ Tail(old.queued) = <<>>
  BY <1>3
<1>7. Own(old.handle, wanted) \in Images
  <2>1. old.queued \in Seq(Images)
    BY <1>2 DEF Slot
  <2> QED
    BY <2>1, <1>3
<1>8. new \in Slot /\ SlotOK(new, wanted) /\ new.busy = old.busy /\ new.handle = old.handle
  <2>1. new.busy = old.busy /\ new.handle = old.handle /\ new.queued = <<>> /\ new.staging = Own(old.handle, wanted)
    BY <1>2, <1>6 DEF Slot
  <2>2. new \in Slot
    BY <1>2, <1>6, <1>7, EmptySeq DEF Slot
  <2> QED
    BY <2>1, <2>2, <1>3 DEF SlotOK
<1> HIDE DEF new
<1>9. /\ streams' \in Seq(Slot) /\ Len(streams') = Len(streams)
      /\ \A r \in 1 .. Len(streams) : streams'[r] = IF r = s THEN new ELSE streams[r]
      /\ \A r \in 1 .. Len(streams') : SlotOK(streams'[r], wanted)
  BY <1>5, <1>8, OneSlotChanges
<1>10. ASSUME NEW h PROVE OnStreams(streams', h) = OnStreams(streams, h)
  <2>1. \A r \in 1 .. Len(streams) : streams'[r].busy = streams[r].busy /\ streams'[r].handle = streams[r].handle
    BY <1>8, <1>9
  <2>2.   {r \in 1 .. Len(streams') : streams'[r].busy /\ streams'[r].handle = h}
        = {r \in 1 .. Len(streams) : streams[r].busy /\ streams[r].handle = h}
    BY <2>1, <1>9
  <2> QED
    BY <2>2 DEF OnStreams
<1> QED
  BY <1>9, <1>10

(* The kernel that a launch finds in the cache computes the image that its *)
(* job asked for: it is of the current context, and its literals are the   *)
(* job's or it has none.                                                   *)
LEMMA LaunchedKernel ==
    ASSUME CallsOK, CacheOK, claiming # Nil, NEW entry \in Hits(claiming.job)
    PROVE  /\ Run(entry, claiming.handle, claiming.job) = Own(claiming.handle, wanted)
           /\ Own(claiming.handle, wanted) \in Images /\ claiming.handle \in 1 .. Len(wanted)
           /\ claiming.handle \in Nat
<1>1. entry.context = context /\ (constants_ = "parameterized" \/ entry.param = claiming.job.param)
  BY DEF Hits, SameKey, CacheOK
<1>2. /\ claiming.handle \in 1 .. Len(wanted) /\ claiming.job \in Jobs
      /\ wanted[claiming.handle] = claiming.job.param /\ claiming.handle \in Nat
  BY DEF CallsOK
<1>3. claiming.job.param \in Params
  BY <1>2, JobParam
<1>4. Run(entry, claiming.handle, claiming.job) = [handle |-> claiming.handle, param |-> claiming.job.param]
  <2>1. CASE constants_ = "parameterized"
    BY <2>1, <1>1 DEF Run
  <2>2. CASE constants_ # "parameterized"
    BY <2>2, <1>1 DEF Run
  <2> QED
    BY <2>1, <2>2
<1> QED
  BY <1>2, <1>3, <1>4 DEF Own, Images

(* A launch moves the job from the hands of claim_stream() to a free       *)
(* stream.                                                                 *)
LEMMA LaunchPlaces ==
    ASSUME CallsOK, CacheOK, StreamsOK, Launch
    PROVE  /\ streams' \in Seq(Slot) /\ \A r \in 1 .. Len(streams') : SlotOK(streams'[r], wanted)
           /\ \A h : OnStreams(streams', h) = OnStreams(streams, h) + (IF claiming.handle = h THEN 1 ELSE 0)
<1> DEFINE least == CHOOSE s \in FreeSlots : \A r \in FreeSlots : s <= r
           hit == CHOOSE entry \in Hits(claiming.job) : TRUE
           image == Run(hit, claiming.handle, claiming.job)
<1>1. claiming # Nil /\ FreeSlots # {} /\ Hits(claiming.job) # {}
  BY DEF Launch, Idle, CallsOK
<1>2. /\ image = Own(claiming.handle, wanted) /\ image \in Images
      /\ claiming.handle \in 1 .. Len(wanted) /\ claiming.handle \in Nat
  <2>1. hit \in Hits(claiming.job)
    BY <1>1
  <2> HIDE DEF hit
  <2> QED
    BY <2>1, <1>1, LaunchedKernel
<1>3. Len(streams) \in Nat /\ FreeSlots \subseteq 1 .. Len(streams)
  BY LenProperties DEF StreamsOK, FreeSlots
<1>4. least \in FreeSlots
  <2>1. FreeSlots \subseteq Nat
    BY <1>3
  <2>2. \E s \in FreeSlots : \A r \in FreeSlots : s <= r
    BY <2>1, <1>1, LeastElement
  <2> QED
    BY <2>2
<1>5. PICK s : s = least
  OBVIOUS
<1>6. streams' = [streams EXCEPT ![s] = [@ EXCEPT !.busy = TRUE, !.handle = claiming.handle,
                                                  !.queued = Append(streams[s].queued, image)]]
  BY <1>5 DEF Launch
<1>7. s \in 1 .. Len(streams) /\ ~streams[s].busy
  BY <1>4, <1>5 DEF FreeSlots
<1> HIDE DEF least, hit, image
<1> DEFINE old == streams[s]
           new == [old EXCEPT !.busy = TRUE, !.handle = claiming.handle, !.queued = Append(old.queued, image)]
<1>8. old \in Slot /\ old.queued = <<>> /\ streams \in Seq(Slot)
  <2>1. old \in Slot /\ SlotOK(old, wanted) /\ streams \in Seq(Slot)
    BY <1>3, <1>7, ElementOfSeq DEF StreamsOK
  <2> QED
    BY <2>1, <1>7 DEF SlotOK
<1>10. Append(old.queued, image) = <<image>>
  BY <1>8
<1>11. streams' = [streams EXCEPT ![s] = new]
  BY <1>6
<1>12. new \in Slot /\ SlotOK(new, wanted) /\ new.busy /\ new.handle = claiming.handle
  <2>1. <<image>> \in Seq(Images)
    BY <1>2
  <2>2. new \in Slot
    BY <2>1, <1>2, <1>8, <1>10 DEF Slot
  <2>3. new.busy = TRUE /\ new.handle = claiming.handle /\ new.queued = <<image>>
    BY <1>8, <1>10 DEF Slot
  <2> QED
    BY <2>2, <2>3, <1>2 DEF SlotOK
<1> HIDE DEF new
<1>13. /\ streams' \in Seq(Slot) /\ Len(streams') = Len(streams)
       /\ \A r \in 1 .. Len(streams) : streams'[r] = IF r = s THEN new ELSE streams[r]
       /\ \A r \in 1 .. Len(streams') : SlotOK(streams'[r], wanted)
  BY <1>7, <1>11, <1>12, OneSlotChanges
<1>14. ASSUME NEW h
       PROVE  OnStreams(streams', h) = OnStreams(streams, h) + (IF claiming.handle = h THEN 1 ELSE 0)
  <2> DEFINE A == {r \in 1 .. Len(streams) : streams[r].busy /\ streams[r].handle = h}
             B == {r \in 1 .. Len(streams') : streams'[r].busy /\ streams'[r].handle = h}
  <2>0. IsFiniteSet(A) /\ OnStreams(streams, h) = Cardinality(A) /\ Cardinality(A) \in Nat
    BY <1>3, SlotSets DEF OnStreams
  <2>1. IsFiniteSet(A) /\ s \notin A
    BY <2>0, <1>7
  <2>2. CASE claiming.handle = h
    <3>1. B = A \cup {s}
      BY <2>2, <1>7, <1>12, <1>13
    <3>2. Cardinality(A \cup {s}) = Cardinality(A) + 1
      BY <2>1, FS_AddElement
    <3> QED
      BY <2>2, <3>1, <3>2 DEF OnStreams
  <2>3. CASE claiming.handle # h
    <3>1. B = A
      BY <2>3, <1>7, <1>12, <1>13
    <3>2. OnStreams(streams', h) = OnStreams(streams, h)
      BY <3>1 DEF OnStreams
    <3> HIDE DEF A, B
    <3> QED
      BY <2>0, <2>3, <3>2
  <2> QED
    BY <2>2, <2>3
<1> QED
  BY <1>13, <1>14

(* Every step keeps the streams' part of the invariant. *)
LEMMA StreamsStep == CallsOK /\ CacheOK /\ StreamsOK /\ [Next]_vars => StreamsOK'
<1> SUFFICES ASSUME CallsOK, CacheOK, StreamsOK, [Next]_vars PROVE StreamsOK'
  OBVIOUS
<1>1. CASE UNCHANGED <<streams, wanted>>
  BY <1>1 DEF StreamsOK
<1>2. CASE Rebuild
  BY <1>2, RebuildClears DEF StreamsOK
<1>3. CASE GpuStep
  <2>1. wanted' = wanted
    BY <1>3 DEF GpuStep
  <2> QED
    BY <2>1, <1>3, GpuFinishes DEF StreamsOK
<1>4. CASE allocate_slots
  <2>1. streams' = [s \in 1 .. K |-> FreshSlot] /\ K \in Nat
    BY <1>4, BackendAssumption DEF allocate_slots, K
  <2> QED
    BY <2>1, FreshSlots DEF StreamsOK
<1>5. ASSUME NEW j \in Jobs, NewHandle(j), streams' = streams PROVE StreamsOK'
  <2> DEFINE p == j.param
  <2>1. wanted' = Append(wanted, p) /\ p \in Params /\ wanted \in Seq(Params)
    BY <1>5, JobParam DEF NewHandle, CallsOK
  <2> HIDE DEF p
  <2>2. \A slot : SlotOK(slot, wanted) => SlotOK(slot, wanted')
    BY <2>1, EarlierJobs
  <2> QED
    BY <2>2, <1>5 DEF StreamsOK
<1>6. ASSUME NEW j \in Jobs,
             prewarm(j) \/ SubmitRefused(j) \/ SubmitIdentity(j) \/ SubmitLoadFails(j) \/ SubmitKernel(j)
      PROVE  StreamsOK'
  BY <1>1, <1>2, <1>5, <1>6 DEF prewarm, SubmitRefused, SubmitIdentity, SubmitLoadFails, SubmitKernel, recover
<1>7. CASE Launch
  <2>1. wanted' = wanted
    BY <1>7 DEF Launch
  <2> QED
    BY <2>1, <1>7, LaunchPlaces DEF StreamsOK
<1>8. CASE ClaimWaits \/ poll_completions
  <2>1. wanted' = wanted /\ streams' = AfterRetire(Len(streams)) /\ Len(streams) \in 0 .. Len(streams)
    BY <1>8, LenProperties DEF ClaimWaits, poll_completions, StreamsOK
  <2> QED
    BY <2>1, SweepLeaves DEF StreamsOK
<1>9. CASE LaunchFails \/ ClaimFails \/ PollRecovers \/ recreate_context
  BY <1>2, <1>9 DEF LaunchFails, ClaimFails, PollRecovers, recreate_context, recover
<1>10. CASE DriverFault \/ UNCHANGED vars
  BY <1>1, <1>10 DEF DriverFault, vars
<1> QED
  BY <1>3, <1>4, <1>6, <1>7, <1>8, <1>9, <1>10 DEF Next, Claim

----------------------------------------------------------------------------
(* What a step does to the handles                                         *)

(* Two logs, one after the other *)
Join(s, t) == s \o t

(* A join of two logs is a log, and counts what both count. *)
LEMMA JoinLogs ==
    ASSUME NEW w, NEW s, NEW t, LogOK(s, w), LogOK(t, w), NEW h
    PROVE  /\ LogOK(Join(s, t), w)
           /\ Count(s, h) \in Nat /\ Count(t, h) \in Nat
           /\ Count(Join(s, t), h) = Count(s, h) + Count(t, h)
<1>1. s \in Seq(Completion) /\ t \in Seq(Completion)
  BY DEF LogOK
<1>2. /\ s \o t \in Seq(Completion) /\ Count(s \o t, h) = Count(s, h) + Count(t, h)
      /\ Count(s, h) \in Nat /\ Count(t, h) \in Nat
  BY <1>1, CountConcat, CountType
<1>3. ASSUME NEW k \in 1 .. Len(s \o t) PROVE CompletionOK((s \o t)[k], w)
  <2>1. Len(s) \in Nat /\ Len(t) \in Nat /\ Len(s \o t) = Len(s) + Len(t)
    BY <1>1
  <2>2. CASE k <= Len(s)
    <3>1. k \in 1 .. Len(s) /\ (s \o t)[k] = s[k]
      BY <1>1, <2>1, <2>2
    <3> QED
      BY <3>1 DEF LogOK
  <2>3. CASE k > Len(s)
    <3>1. k - Len(s) \in 1 .. Len(t) /\ (s \o t)[k] = t[k - Len(s)]
      BY <1>1, <2>1, <2>3
    <3> QED
      BY <3>1 DEF LogOK
  <2> QED
    BY <2>1, <2>2, <2>3
<1> QED
  BY <1>2, <1>3 DEF LogOK, Join

(* No completion, and one *)
LEMMA ShortLogs ==
    ASSUME NEW w
    PROVE  /\ LogOK(<<>>, w)
           /\ \A c \in Completion : CompletionOK(c, w) =>
                 LogOK(<<c>>, w) /\ \A h : Count(<<c>>, h) = (IF c.handle = h THEN 1 ELSE 0)
<1>1. LogOK(<<>>, w)
  BY EmptySeq DEF LogOK
<1>2. ASSUME NEW c \in Completion, CompletionOK(c, w)
      PROVE  LogOK(<<c>>, w) /\ \A h : Count(<<c>>, h) = (IF c.handle = h THEN 1 ELSE 0)
  <2>1. <<c>> \in Seq(Completion) /\ Len(<<c>>) = 1 /\ <<c>>[1] = c
    OBVIOUS
  <2>2. LogOK(<<c>>, w)
    BY <2>1, <1>2 DEF LogOK
  <2>3. <<>> \in Seq(Completion)
    BY EmptySeq
  <2> QED
    BY <2>2, <2>3, CountAppend
<1> QED
  BY <1>1, <1>2

(* A recovery turns every frame on the GPU into a failed completion. *)
LEMMA RecoveryMakes ==
    ASSUME NEW w, NEW slots \in Seq(Slot), \A s \in 1 .. Len(slots) : SlotOK(slots[s], w),
           NEW failed, LogOK(failed, w)
    PROVE  /\ LogOK(failed \o FailBusy(slots), w)
           /\ \A h : /\ Count(failed, h) \in Nat /\ OnStreams(slots, h) \in Nat
                    /\ Count(failed \o FailBusy(slots), h) = Count(failed, h) + OnStreams(slots, h)
<1> DEFINE made == FailBusy(slots)
<1>1. LogOK(made, w) /\ \A h : Count(made, h) = OnStreams(slots, h)
  BY FailsWhatIsBusy DEF LogOK
<1> HIDE DEF made
<1>2. /\ LogOK(Join(failed, made), w)
      /\ \A h : Count(Join(failed, made), h) = Count(failed, h) + Count(made, h)
  BY <1>1, JoinLogs
<1>3. \A h : Count(failed, h) \in Nat /\ Count(made, h) \in Nat
  BY <1>1, JoinLogs
<1> QED
  BY <1>1, <1>2, <1>3 DEF made, Join

(* So does a recovery out of the middle of a sweep, but for the frames the *)
(* sweep had already handed over.                                          *)
LEMMA InterruptedMakes ==
    ASSUME StreamsOK, NEW n \in 0 .. Len(streams), NEW failed, LogOK(failed, wanted)
    PROVE  /\ LogOK(Interrupted(n, failed), wanted)
           /\ \A h : Count(Interrupted(n, failed), h) = Count(failed, h) + OnStreams(streams, h)
<1> DEFINE swept == Retired(n)
           left == AfterRetire(n)
           rest == FailBusy(left)
<1>1. LogOK(swept, wanted) /\ \A h : Count(swept, h) = Cardinality(Ready(n, h))
  BY SweepHandsOver DEF LogOK
<1>2. /\ left \in Seq(Slot) /\ \A s \in 1 .. Len(left) : SlotOK(left[s], wanted)
      /\ \A h : /\ Cardinality(Ready(n, h)) \in Nat /\ OnStreams(left, h) \in Nat
               /\ Cardinality(Ready(n, h)) + OnStreams(left, h) = OnStreams(streams, h)
  BY SweepLeaves
<1>3. Interrupted(n, failed) = Join(Join(swept, failed), rest)
  BY DEF Interrupted, Join
<1> HIDE DEF swept, left
<1>4. LogOK(rest, wanted) /\ \A h : Count(rest, h) = OnStreams(left, h)
  BY <1>2, FailsWhatIsBusy DEF LogOK
<1> HIDE DEF rest
<1>5. /\ LogOK(Join(swept, failed), wanted)
      /\ \A h : Count(Join(swept, failed), h) = Count(swept, h) + Count(failed, h)
  BY <1>1, JoinLogs
<1>8. \A h : Count(swept, h) \in Nat /\ Count(failed, h) \in Nat
  BY <1>1, JoinLogs
<1>6. /\ LogOK(Join(Join(swept, failed), rest), wanted)
      /\ \A h : Count(Join(Join(swept, failed), rest), h) = Count(Join(swept, failed), h) + Count(rest, h)
  BY <1>4, <1>5, JoinLogs
<1>7. ASSUME NEW h PROVE Count(Join(Join(swept, failed), rest), h) = Count(failed, h) + OnStreams(streams, h)
  <2>1. /\ Count(Join(Join(swept, failed), rest), h) = Cardinality(Ready(n, h)) + Count(failed, h) + OnStreams(left, h)
        /\ Cardinality(Ready(n, h)) \in Nat /\ OnStreams(left, h) \in Nat /\ Count(failed, h) \in Nat
        /\ Cardinality(Ready(n, h)) + OnStreams(left, h) = OnStreams(streams, h)
    BY <1>1, <1>2, <1>4, <1>5, <1>6, <1>8
  <2> QED
    BY <2>1
<1> QED
  BY <1>3, <1>6, <1>7

(* Handle h in the hands of claim_stream() *)
Claimed(c, h) == IF c # Nil /\ c.handle = h THEN 1 ELSE 0

(* A step of the calls makes the completions `made`, submits a job when it *)
(* gives out a handle, and moves each handle from one place to another.    *)
Moves(made, given) ==
    /\ LogOK(made, wanted')
    /\ \A h : OnStreams(streams', h) + Claimed(claiming', h) + Count(made, h)
                = OnStreams(streams, h) + Claimed(claiming, h) + (IF given /\ h = next_handle THEN 1 ELSE 0)

Submits(made) ==
    /\ Moves(made, TRUE)
    /\ next_handle \in Handles /\ next_handle' = next_handle + 1
    /\ \E p \in Params : wanted' = Append(wanted, p)
    /\ completed' = Join(completed, made) /\ returned' = returned

Settles(made) ==
    /\ Moves(made, FALSE)
    /\ UNCHANGED <<next_handle, wanted>>
    /\ completed' = Join(completed, made) /\ returned' = returned

Polls(made) ==
    /\ Moves(made, FALSE)
    /\ UNCHANGED <<next_handle, wanted>>
    /\ completed' = <<>> /\ returned' = Join(Join(returned, completed), made)

(* Joining in either order of the parentheses *)
LEMMA JoinAssociates ==
    ASSUME NEW w, NEW s, NEW t, NEW u, LogOK(s, w), LogOK(t, w), LogOK(u, w)
    PROVE  Join(Join(s, t), u) = Join(s, Join(t, u))
  BY ConcatAssociative DEF LogOK, Join

(* Joining nothing *)
LEMMA JoinNothing ==
    ASSUME NEW w, NEW s, LogOK(s, w)
    PROVE  Join(s, <<>>) = s
  BY DEF LogOK, Join

(* What submit() gives the next job: a handle, and room in the history. *)
LEMMA HandleGiven ==
    ASSUME CallsOK, StreamsOK, Logs, NEW j \in Jobs, NewHandle(j)
    PROVE  /\ claiming = Nil /\ next_handle \in Handles /\ next_handle \in Nat /\ next_handle' = next_handle + 1
           /\ \E p \in Params : wanted' = Append(wanted, p)
           /\ next_handle \in 1 .. Len(wanted') /\ wanted'[next_handle] = j.param
           /\ \A s \in 1 .. Len(streams) : SlotOK(streams[s], wanted')
           /\ LogOK(completed, wanted') /\ LogOK(returned, wanted')
<1> DEFINE p == j.param
<1>1. claiming = Nil /\ next_handle <= MaxJobs /\ next_handle' = next_handle + 1 /\ wanted' = Append(wanted, p)
  BY DEF NewHandle, Idle
<1>2. next_handle \in Nat \ {0} /\ MaxJobs \in Nat /\ Len(wanted) = next_handle - 1 /\ wanted \in Seq(Params)
  BY BackendAssumption DEF CallsOK
<1>3. p \in Params
  BY JobParam
<1> HIDE DEF p
<1>4. /\ Len(wanted') = Len(wanted) + 1 /\ wanted'[Len(wanted) + 1] = p
      /\ \A slot : SlotOK(slot, wanted) => SlotOK(slot, wanted')
      /\ \A c : CompletionOK(c, wanted) => CompletionOK(c, wanted')
  BY <1>1, <1>2, <1>3, EarlierJobs
<1>5. next_handle \in Handles /\ next_handle \in 1 .. Len(wanted') /\ wanted'[next_handle] = p
  BY <1>1, <1>2, <1>4 DEF Handles
<1>6. /\ \A s \in 1 .. Len(streams) : SlotOK(streams[s], wanted')
      /\ LogOK(completed, wanted') /\ LogOK(returned, wanted')
  BY <1>4 DEF StreamsOK, Logs, LogOK
<1> QED
  BY <1>1, <1>2, <1>3, <1>5, <1>6 DEF p

(* submit() settles its job at once, or leaves it to claim_stream(). *)
LEMMA SubmitMoves ==
    ASSUME CallsOK, StreamsOK, Logs, NEW j \in Jobs,
           SubmitRefused(j) \/ SubmitIdentity(j) \/ SubmitLoadFails(j) \/ SubmitKernel(j)
    PROVE  \E made : Submits(made)
<1> DEFINE nh == next_handle
           w == wanted'
<1>1. NewHandle(j) /\ returned' = returned
  BY DEF SubmitRefused, SubmitIdentity, SubmitLoadFails, SubmitKernel
<1>2. /\ claiming = Nil /\ nh \in Handles /\ nh \in Nat /\ next_handle' = nh + 1
      /\ \E p \in Params : w = Append(wanted, p)
      /\ nh \in 1 .. Len(w) /\ w[nh] = j.param
      /\ \A s \in 1 .. Len(streams) : SlotOK(streams[s], w)
      /\ LogOK(completed, w) /\ LogOK(returned, w)
  BY <1>1, HandleGiven
<1>3. fail_job(nh) \in Completion /\ fail_job(nh).handle = nh /\ CompletionOK(fail_job(nh), w)
  BY <1>2, FailedJob
<1>4. streams \in Seq(Slot) /\ \A h : OnStreams(streams, h) \in Nat
  BY OnStreamsType DEF StreamsOK
<1>5. \A h : Claimed(Nil, h) = 0
  BY DEF Claimed
<1> HIDE DEF w
<1>6. ASSUME NEW c \in Completion, CompletionOK(c, w), c.handle = nh, completed' = Append(completed, c),
             claiming' = Nil, streams' = streams
      PROVE  \E made : Submits(made)
  <2>1. LogOK(<<c>>, w) /\ \A h : Count(<<c>>, h) = (IF c.handle = h THEN 1 ELSE 0)
    BY <1>6, ShortLogs
  <2>2. completed' = Join(completed, <<c>>)
    BY <1>2, <1>6 DEF Join, LogOK
  <2>3. \A h : OnStreams(streams', h) + Claimed(claiming', h) + Count(<<c>>, h)
                = OnStreams(streams, h) + Claimed(claiming, h) + (IF TRUE /\ h = nh THEN 1 ELSE 0)
    BY <2>1, <1>2, <1>4, <1>5, <1>6
  <2>4. Moves(<<c>>, TRUE)
    BY <2>1, <2>3 DEF Moves, w
  <2> QED
    BY <2>2, <2>4, <1>1, <1>2 DEF Submits, w
<1>7. CASE SubmitRefused(j)
  <2>1. completed' = Append(completed, fail_job(nh)) /\ claiming' = Nil /\ streams' = streams
    BY <1>2, <1>7 DEF SubmitRefused
  <2> QED
    BY <2>1, <1>3, <1>6
<1>8. CASE SubmitIdentity(j)
  <2> DEFINE c == Succeed(nh, [handle |-> nh, param |-> j.param])
  <2>1. completed' = Append(completed, c) /\ claiming' = Nil /\ streams' = streams
    BY <1>2, <1>8 DEF SubmitIdentity
  <2>2. c.handle = nh /\ c \in Completion
    BY <1>2, JobParam DEF Succeed, Completion, Images
  <2>3. CompletionOK(c, w)
    BY <1>2 DEF Succeed, CompletionOK, Own
  <2> HIDE DEF c
  <2> QED
    BY <2>1, <2>2, <2>3, <1>6
<1>9. CASE SubmitLoadFails(j)
  <2> DEFINE failed == <<fail_job(nh)>>
             busy == FailBusy(streams)
             made == failed \o busy
  <2>1. completed' = (completed \o failed) \o busy /\ claiming' = Nil /\ Rebuild
    BY <1>2, <1>9 DEF SubmitLoadFails, recover
  <2>2. LogOK(failed, w) /\ \A h : Count(failed, h) = (IF nh = h THEN 1 ELSE 0)
    BY <1>3, ShortLogs
  <2> HIDE DEF failed
  <2>3. /\ LogOK(made, w)
        /\ \A h : Count(made, h) = Count(failed, h) + OnStreams(streams, h)
    BY <2>2, <1>2, <1>4, RecoveryMakes
  <2>4. LogOK(busy, w)
    BY <1>2, <1>4, FailsWhatIsBusy DEF LogOK
  <2> HIDE DEF busy
  <2>5. completed' = Join(completed, made)
    <3>1. Join(Join(completed, failed), busy) = Join(completed, Join(failed, busy))
      BY <2>2, <2>4, <1>2, JoinAssociates
    <3> QED
      BY <3>1, <2>1 DEF Join
  <2> HIDE DEF made
  <2>6. \A h : OnStreams(streams', h) = 0
    BY <2>1, RebuildClears
  <2>7. \A h : OnStreams(streams', h) + Claimed(claiming', h) + Count(made, h)
                = OnStreams(streams, h) + Claimed(claiming, h) + (IF TRUE /\ h = nh THEN 1 ELSE 0)
    BY <2>1, <2>2, <2>3, <2>6, <1>2, <1>4, <1>5
  <2>8. Moves(made, TRUE)
    BY <2>3, <2>7 DEF Moves, w
  <2> QED
    BY <2>5, <2>8, <1>1, <1>2 DEF Submits, w
<1>10. CASE SubmitKernel(j)
  <2>1. CASE completed' = Append(completed, fail_job(nh)) /\ claiming' = claiming
    <3>1. streams' = streams
      BY <1>10 DEF SubmitKernel
    <3> QED
      BY <3>1, <2>1, <1>2, <1>3, <1>6
  <2>2. CASE claiming' = [handle |-> nh, job |-> j] /\ completed' = completed
    <3>1. streams' = streams
      BY <1>10 DEF SubmitKernel
    <3>2. claiming' # Nil /\ claiming'.handle = nh
      BY <2>2, <1>2, BackendAssumption
    <3>3. \A h : Claimed(claiming', h) = IF h = nh THEN 1 ELSE 0
      BY <3>2 DEF Claimed
    <3>4. LogOK(<<>>, w) /\ completed' = Join(completed, <<>>) /\ \A h : Count(<<>>, h) = 0
      BY <2>2, <1>2, ShortLogs, JoinNothing, CountEmpty
    <3>5. \A h : OnStreams(streams', h) + Claimed(claiming', h) + Count(<<>>, h)
                  = OnStreams(streams, h) + Claimed(claiming, h) + (IF TRUE /\ h = nh THEN 1 ELSE 0)
      BY <3>1, <3>3, <3>4, <1>2, <1>4, <1>5
    <3>6. Moves(<<>>, TRUE)
      BY <3>4, <3>5 DEF Moves, w
    <3> QED
      BY <3>4, <3>6, <1>1, <1>2 DEF Submits, w
  <2> QED
    BY <2>1, <2>2, <1>10 DEF SubmitKernel
<1> QED
  BY <1>7, <1>8, <1>9, <1>10

(* Every step keeps the streams away until allocate_slots(). *)
LEMMA NoStreamsStep == StreamsOK /\ NoStreamsYet /\ [Next]_vars => NoStreamsYet'
<1> SUFFICES ASSUME StreamsOK, NoStreamsYet, [Next]_vars PROVE NoStreamsYet'
  OBVIOUS
<1>1. CASE UNCHANGED <<allocated, streams>>
  BY <1>1 DEF NoStreamsYet
<1>2. CASE Rebuild /\ allocated' = allocated
  <2> SUFFICES ASSUME ~allocated PROVE streams' = <<>>
    BY <1>2 DEF NoStreamsYet
  <2>1. \A n : Slots(n) = [s \in 1 .. 0 |-> FreshSlot]
    BY DEF Slots
  <2>2. [s \in 1 .. 0 |-> FreshSlot] = <<>>
    OBVIOUS
  <2> QED
    BY <2>1, <2>2, <1>2 DEF Rebuild
<1>3. CASE allocate_slots
  BY <1>3 DEF allocate_slots, NoStreamsYet
<1>4. CASE GpuStep \/ Launch
  <2>1. allocated' = allocated /\ \E s : s \in 1 .. Len(streams)
    BY <1>4 DEF GpuStep, Launch, FreeSlots
  <2>2. streams # <<>>
    BY <2>1
  <2> QED
    BY <2>1, <2>2 DEF NoStreamsYet
<1>5. CASE ClaimWaits \/ poll_completions
  <2>1. allocated' = allocated /\ streams' = AfterRetire(Len(streams))
    BY <1>5 DEF ClaimWaits, poll_completions
  <2> SUFFICES ASSUME ~allocated PROVE streams' = <<>>
    BY <2>1 DEF NoStreamsYet
  <2>2. streams = <<>> /\ Len(streams) = 0
    BY DEF NoStreamsYet
  <2>3. AfterRetire(0) = [s \in 1 .. 0 |-> FreshSlot]
    BY <2>2 DEF AfterRetire
  <2>4. [s \in 1 .. 0 |-> FreshSlot] = <<>>
    OBVIOUS
  <2> QED
    BY <2>1, <2>2, <2>3, <2>4
<1>6. CASE LaunchFails \/ ClaimFails \/ PollRecovers \/ recreate_context
  BY <1>2, <1>6 DEF LaunchFails, ClaimFails, PollRecovers, recreate_context, recover
<1>7. ASSUME NEW j \in Jobs,
             prewarm(j) \/ SubmitRefused(j) \/ SubmitIdentity(j) \/ SubmitLoadFails(j) \/ SubmitKernel(j)
      PROVE  NoStreamsYet'
  BY <1>1, <1>2, <1>7 DEF prewarm, SubmitRefused, SubmitIdentity, SubmitLoadFails, SubmitKernel, recover
<1>8. CASE DriverFault \/ UNCHANGED vars
  BY <1>1, <1>8 DEF DriverFault, vars
<1> QED
  BY <1>3, <1>4, <1>5, <1>6, <1>7, <1>8 DEF Next, Claim

(* The counts are natural numbers. *)
LEMMA PlacesTypes ==
    ASSUME CallsOK, StreamsOK
    PROVE  \A h : OnStreams(streams, h) \in Nat /\ Claimed(claiming, h) \in Nat /\ Claimed(Nil, h) = 0
  BY OnStreamsType DEF StreamsOK, Claimed

(* A sweep of all the streams *)
LEMMA SweepMoves ==
    ASSUME CallsOK, StreamsOK, streams' = AfterRetire(Len(streams)), UNCHANGED <<claiming, wanted>>
    PROVE  Moves(Retired(Len(streams)), FALSE)
<1> DEFINE n == Len(streams)
           made == Retired(n)
<1>1. n \in 0 .. Len(streams)
  BY LenProperties DEF StreamsOK
<1>2. LogOK(made, wanted) /\ \A h : Count(made, h) = Cardinality(Ready(n, h))
  BY <1>1, SweepHandsOver DEF LogOK
<1>3. \A h : /\ Cardinality(Ready(n, h)) \in Nat /\ OnStreams(streams', h) \in Nat
            /\ Cardinality(Ready(n, h)) + OnStreams(streams', h) = OnStreams(streams, h)
  BY <1>1, SweepLeaves
<1> HIDE DEF made
<1>4. ASSUME NEW h
      PROVE  OnStreams(streams', h) + Claimed(claiming', h) + Count(made, h)
                = OnStreams(streams, h) + Claimed(claiming, h) + (IF FALSE /\ h = next_handle THEN 1 ELSE 0)
  <2>1. Claimed(claiming', h) = Claimed(claiming, h) /\ Claimed(claiming, h) \in Nat
    BY PlacesTypes
  <2>2. /\ Count(made, h) \in Nat /\ OnStreams(streams', h) \in Nat
        /\ Count(made, h) + OnStreams(streams', h) = OnStreams(streams, h)
    BY <1>2, <1>3
  <2> QED
    BY <2>1, <2>2
<1> QED
  BY <1>2, <1>4 DEF Moves, made

(* A recovery in which the job in the hands of claim_stream(), if any, is  *)
(* among the completions made just before.                                 *)
LEMMA RecoveryMoves ==
    ASSUME CallsOK, StreamsOK, Rebuild, claiming' = Nil, wanted' = wanted, NEW made, LogOK(made, wanted),
           \A h : Count(made, h) = Claimed(claiming, h) + OnStreams(streams, h)
    PROVE  Moves(made, FALSE)
<1>1. \A h : OnStreams(streams', h) = 0
  BY RebuildClears
<1>2. \A h : OnStreams(streams, h) \in Nat /\ Claimed(claiming, h) \in Nat /\ Claimed(claiming', h) = 0
  BY PlacesTypes
<1>3. \A h : OnStreams(streams', h) + Claimed(claiming', h) + Count(made, h)
                = OnStreams(streams, h) + Claimed(claiming, h) + (IF FALSE /\ h = next_handle THEN 1 ELSE 0)
  BY <1>1, <1>2
<1> QED
  BY <1>3 DEF Moves

(* The completion of the job that claim_stream() could not place *)
LEMMA ClaimFailed ==
    ASSUME CallsOK, claiming # Nil
    PROVE  /\ LogOK(<<fail_job(claiming.handle)>>, wanted)
           /\ \A h : Count(<<fail_job(claiming.handle)>>, h) = Claimed(claiming, h)
<1>1. claiming.handle \in Nat /\ claiming.handle \in 1 .. Len(wanted)
  BY DEF CallsOK
<1>2. /\ fail_job(claiming.handle) \in Completion /\ fail_job(claiming.handle).handle = claiming.handle
      /\ CompletionOK(fail_job(claiming.handle), wanted)
  BY <1>1, FailedJob
<1> QED
  BY <1>2, ShortLogs DEF Claimed

(* recover(), wherever it is called from *)
LEMMA RecoverSettles ==
    ASSUME CallsOK, StreamsOK, Logs, NEW failed, LogOK(failed, wanted),
           \A h : Count(failed, h) = Claimed(claiming, h),
           recover(failed), claiming' = Nil, UNCHANGED <<next_handle, wanted, returned>>
    PROVE  \E made : Settles(made)
<1> DEFINE busy == FailBusy(streams)
           made == failed \o busy
<1>1. completed' = (completed \o failed) \o busy /\ Rebuild
  BY DEF recover
<1>2. streams \in Seq(Slot) /\ \A s \in 1 .. Len(streams) : SlotOK(streams[s], wanted)
  BY DEF StreamsOK
<1>3. LogOK(made, wanted) /\ \A h : Count(made, h) = Count(failed, h) + OnStreams(streams, h)
  BY <1>2, RecoveryMakes
<1>4. LogOK(busy, wanted) /\ LogOK(completed, wanted)
  BY <1>2, FailsWhatIsBusy DEF LogOK, Logs
<1> HIDE DEF busy
<1>5. completed' = Join(completed, made)
  <2>1. Join(Join(completed, failed), busy) = Join(completed, Join(failed, busy))
    BY <1>4, JoinAssociates
  <2> QED
    BY <2>1, <1>1 DEF Join
<1> HIDE DEF made
<1>6. Moves(made, FALSE)
  BY <1>1, <1>3, RecoveryMoves
<1> QED
  BY <1>5, <1>6 DEF Settles

(* A step that makes no completion *)
LEMMA QuietMoves ==
    ASSUME CallsOK, StreamsOK, Logs, UNCHANGED <<completed, next_handle, returned, wanted>>,
           \A h : OnStreams(streams', h) + Claimed(claiming', h) = OnStreams(streams, h) + Claimed(claiming, h)
    PROVE  \E made : Settles(made)
<1>1. LogOK(<<>>, wanted) /\ completed = Join(completed, <<>>) /\ \A h : Count(<<>>, h) = 0
  BY ShortLogs, JoinNothing, CountEmpty DEF Logs
<1>2. \A h : OnStreams(streams, h) \in Nat /\ Claimed(claiming, h) \in Nat
  BY PlacesTypes
<1>3. \A h : OnStreams(streams', h) + Claimed(claiming', h) + Count(<<>>, h)
                = OnStreams(streams, h) + Claimed(claiming, h) + (IF FALSE /\ h = next_handle THEN 1 ELSE 0)
  BY <1>1, <1>2
<1>4. Moves(<<>>, FALSE)
  BY <1>1, <1>3 DEF Moves
<1> QED
  BY <1>1, <1>4 DEF Settles

(* The GPU, claim_stream() and recreate_context() settle jobs: they        *)
(* neither submit one nor return one.                                      *)
LEMMA SettleMoves ==
    ASSUME CallsOK, CacheOK, StreamsOK, NoStreamsYet, Logs,
           \/ GpuStep \/ DriverFault \/ allocate_slots \/ \E j \in Jobs : prewarm(j)
           \/ Claim \/ recreate_context \/ UNCHANGED vars
    PROVE  \E made : Settles(made)
<1>1. CASE UNCHANGED <<streams, claiming, completed, next_handle, returned, wanted>>
  BY <1>1, QuietMoves
<1>2. CASE DriverFault \/ UNCHANGED vars \/ \E j \in Jobs : prewarm(j)
  BY <1>1, <1>2 DEF DriverFault, prewarm, vars
<1>3. CASE GpuStep
  <2>1. UNCHANGED <<claiming, completed, next_handle, returned, wanted>>
    BY <1>3 DEF GpuStep
  <2> QED
    BY <2>1, <1>3, GpuFinishes, QuietMoves
<1>4. CASE allocate_slots
  <2>1. /\ UNCHANGED <<claiming, completed, next_handle, returned, wanted>> /\ ~allocated /\ K \in Nat
        /\ streams' = [s \in 1 .. K |-> FreshSlot]
    BY <1>4, BackendAssumption DEF allocate_slots, K
  <2>2. \A h : OnStreams(streams', h) = 0
    BY <2>1, FreshSlots
  <2>3. \A h : OnStreams(streams, h) = 0
    BY <2>1, CountEmpty DEF NoStreamsYet
  <2>4. \A h : OnStreams(streams', h) + Claimed(claiming', h) = OnStreams(streams, h) + Claimed(claiming, h)
    BY <2>1, <2>2, <2>3
  <2> QED
    BY <2>1, <2>4, QuietMoves
<1>5. CASE Launch
  <2>1. UNCHANGED <<completed, next_handle, returned, wanted>> /\ claiming # Nil /\ claiming' = Nil
    BY <1>5 DEF Launch, Idle
  <2>2. \A h : OnStreams(streams', h) = OnStreams(streams, h) + (IF claiming.handle = h THEN 1 ELSE 0)
    BY <1>5, LaunchPlaces
  <2>3. \A h : /\ Claimed(claiming', h) = 0 /\ Claimed(claiming, h) = (IF claiming.handle = h THEN 1 ELSE 0)
              /\ OnStreams(streams, h) \in Nat
    BY <2>1, PlacesTypes DEF Claimed
  <2>4. \A h : OnStreams(streams', h) + Claimed(claiming', h) = OnStreams(streams, h) + Claimed(claiming, h)
    BY <2>2, <2>3
  <2> QED
    BY <2>1, <2>4, QuietMoves
<1>6. CASE ClaimWaits
  <2>1. /\ UNCHANGED <<claiming, next_handle, returned, wanted>> /\ streams' = AfterRetire(Len(streams))
        /\ completed' = Join(completed, Retired(Len(streams)))
    BY <1>6 DEF ClaimWaits, Join
  <2>2. Moves(Retired(Len(streams)), FALSE)
    BY <2>1, SweepMoves
  <2> QED
    BY <2>1, <2>2 DEF Settles
<1>7. ASSUME recover(<<fail_job(claiming.handle)>>), claiming # Nil, claiming' = Nil,
             UNCHANGED <<next_handle, wanted, returned>>
      PROVE  \E made : Settles(made)
  <2> DEFINE failed == <<fail_job(claiming.handle)>>
  <2>1. LogOK(failed, wanted) /\ \A h : Count(failed, h) = Claimed(claiming, h)
    BY <1>7, ClaimFailed
  <2>2. recover(failed)
    BY <1>7
  <2> HIDE DEF failed
  <2> QED
    BY <2>1, <2>2, <1>7, RecoverSettles
<1>8. CASE LaunchFails
  BY <1>7, <1>8 DEF LaunchFails, Idle
<1>9. CASE ClaimFails
  <2>1. claiming # Nil /\ claiming' = Nil /\ UNCHANGED <<next_handle, wanted, returned>>
    BY <1>9 DEF ClaimFails, Idle
  <2>2. CASE recover(<<fail_job(claiming.handle)>>)
    BY <2>1, <2>2, <1>7
  <2>3. CASE /\ \E n \in Interruptions : completed' = completed \o Interrupted(n, <<fail_job(claiming.handle)>>)
             /\ Rebuild
    <3> DEFINE failed == <<fail_job(claiming.handle)>>
    <3>1. PICK n \in Interruptions : completed' = completed \o Interrupted(n, failed)
      BY <2>3
    <3>2. LogOK(failed, wanted) /\ \A h : Count(failed, h) = Claimed(claiming, h)
      BY <2>1, ClaimFailed
    <3>3. n \in 0 .. Len(streams)
      <4>1. Len(streams) \in Nat
        BY LenProperties DEF StreamsOK
      <4> QED
        BY <4>1 DEF Interruptions
    <3> HIDE DEF failed
    <3> DEFINE made == Interrupted(n, failed)
    <3>4. LogOK(made, wanted) /\ \A h : Count(made, h) = Count(failed, h) + OnStreams(streams, h)
      BY <3>2, <3>3, InterruptedMakes
    <3> HIDE DEF made
    <3>5. Moves(made, FALSE)
      BY <2>1, <2>3, <3>2, <3>4, RecoveryMoves
    <3>6. completed' = Join(completed, made)
      BY <3>1 DEF made, Join
    <3> QED
      BY <2>1, <3>5, <3>6 DEF Settles
  <2> QED
    BY <2>2, <2>3, <1>9 DEF ClaimFails
<1>10. CASE recreate_context
  <2>1. recover(<<>>) /\ claiming = Nil /\ claiming' = Nil /\ UNCHANGED <<next_handle, wanted, returned>>
    BY <1>10 DEF recreate_context, Idle
  <2>2. LogOK(<<>>, wanted) /\ \A h : Count(<<>>, h) = Claimed(claiming, h)
    BY <2>1, ShortLogs, CountEmpty, PlacesTypes
  <2> QED
    BY <2>1, <2>2, RecoverSettles
<1> QED
  BY <1>2, <1>3, <1>4, <1>5, <1>6, <1>8, <1>9, <1>10 DEF Claim

(* poll_completions() returns all that waited and all that it finds done,  *)
(* or fails in a recovery.                                                 *)
LEMMA PollMoves ==
    ASSUME CallsOK, StreamsOK, Logs, poll_completions \/ PollRecovers
    PROVE  \E made : Polls(made)
<1>0. LogOK(completed, wanted) /\ LogOK(returned, wanted)
  BY DEF Logs
<1>1. CASE poll_completions
  <2> DEFINE made == Retired(Len(streams))
  <2>1. /\ UNCHANGED <<claiming, next_handle, wanted>> /\ streams' = AfterRetire(Len(streams))
        /\ completed' = <<>> /\ returned' = Join(returned, Join(completed, made))
    BY <1>1 DEF poll_completions, Polled, Join
  <2>2. Moves(made, FALSE)
    BY <2>1, SweepMoves
  <2>3. LogOK(made, wanted)
    BY <2>1, <2>2 DEF Moves
  <2> HIDE DEF made
  <2>4. returned' = Join(Join(returned, completed), made)
    BY <2>1, <2>3, <1>0, JoinAssociates
  <2> QED
    BY <2>1, <2>2, <2>4 DEF Polls
<1>2. CASE PollRecovers
  <2>1. PICK n \in Interruptions : returned' = returned \o completed \o Interrupted(n, <<>>)
    BY <1>2 DEF PollRecovers
  <2>2. /\ claiming = Nil /\ claiming' = Nil /\ UNCHANGED <<next_handle, wanted>> /\ completed' = <<>> /\ Rebuild
    BY <1>2 DEF PollRecovers, Idle
  <2>3. LogOK(<<>>, wanted) /\ \A h : Count(<<>>, h) = Claimed(claiming, h)
    BY <2>2, ShortLogs, CountEmpty, PlacesTypes
  <2>4. n \in 0 .. Len(streams)
    <3>1. Len(streams) \in Nat
      BY LenProperties DEF StreamsOK
    <3> QED
      BY <3>1 DEF Interruptions
  <2> DEFINE made == Interrupted(n, <<>>)
  <2>5. LogOK(made, wanted) /\ \A h : Count(made, h) = Count(<<>>, h) + OnStreams(streams, h)
    BY <2>3, <2>4, InterruptedMakes
  <2>6. returned' = Join(Join(returned, completed), made)
    BY <2>1 DEF Join
  <2> HIDE DEF made
  <2>7. Moves(made, FALSE)
    BY <2>2, <2>3, <2>5, RecoveryMoves
  <2> QED
    BY <2>2, <2>6, <2>7 DEF Polls
<1> QED
  BY <1>1, <1>2

(* Every step is one of the three. *)
LEMMA StepMoves ==
    ASSUME CallsOK, CacheOK, StreamsOK, NoStreamsYet, Logs, [Next]_vars
    PROVE  \E made : Submits(made) \/ Settles(made) \/ Polls(made)
<1>1. CASE \E j \in Jobs : SubmitRefused(j) \/ SubmitIdentity(j) \/ SubmitLoadFails(j) \/ SubmitKernel(j)
  BY <1>1, SubmitMoves
<1>2. CASE poll_completions \/ PollRecovers
  BY <1>2, PollMoves
<1>3. CASE \/ GpuStep \/ DriverFault \/ allocate_slots \/ \E j \in Jobs : prewarm(j)
           \/ Claim \/ recreate_context \/ UNCHANGED vars
  BY <1>3, SettleMoves
<1> QED
  BY <1>1, <1>2, <1>3 DEF Next

----------------------------------------------------------------------------
(* The invariant holds                                                     *)

(* Every completion made is added to the logs, and stays true of its job. *)
LEMMA LogsStep ==
    ASSUME CallsOK, Logs, NEW made, Submits(made) \/ Settles(made) \/ Polls(made)
    PROVE  Logs'
<1>1. LogOK(made, wanted') /\ LogOK(<<>>, wanted')
  BY ShortLogs DEF Submits, Settles, Polls, Moves
<1>2. LogOK(completed, wanted') /\ LogOK(returned, wanted')
  <2>1. CASE wanted' = wanted
    BY <2>1 DEF Logs
  <2>2. CASE \E p \in Params : wanted' = Append(wanted, p)
    <3>1. wanted \in Seq(Params)
      BY DEF CallsOK
    <3>2. \A c : CompletionOK(c, wanted) => CompletionOK(c, wanted')
      BY <2>2, <3>1, EarlierJobs
    <3> QED
      BY <3>2 DEF Logs, LogOK
  <2> QED
    BY <2>1, <2>2 DEF Submits, Settles, Polls
<1>3. LogOK(Join(completed, made), wanted') /\ LogOK(Join(returned, completed), wanted')
  BY <1>1, <1>2, JoinLogs
<1>4. LogOK(Join(Join(returned, completed), made), wanted')
  BY <1>1, <1>3, JoinLogs
<1> QED
  BY <1>1, <1>2, <1>3, <1>4 DEF Logs, Submits, Settles, Polls

(* Adding up the places of a handle *)
LEMMA PlacesAdd ==
    ASSUME NEW h
    PROVE  /\ Places(h) = OnStreams(streams, h) + Claimed(claiming, h) + Count(completed, h) + Count(returned, h)
           /\ Places(h)' = OnStreams(streams', h) + Claimed(claiming', h) + Count(completed', h) + Count(returned', h)
  BY DEF Places, OnStreams, Claimed, Count

(* A handle leaves one place for another, or is new. *)
LEMMA OnceStep ==
    ASSUME CallsOK, StreamsOK, Logs, EachJobOnce, CallsOK', StreamsOK',
           NEW made, Submits(made) \/ Settles(made) \/ Polls(made)
    PROVE  EachJobOnce'
<1> SUFFICES ASSUME NEW h \in Handles PROVE Places(h)' = (IF h < next_handle' THEN 1 ELSE 0)
  BY DEF EachJobOnce
<1> DEFINE a == OnStreams(streams, h)
           b == Claimed(claiming, h)
           x == Count(completed, h)
           y == Count(returned, h)
           m == Count(made, h)
           a1 == OnStreams(streams', h)
           b1 == Claimed(claiming', h)
           x1 == Count(completed', h)
           y1 == Count(returned', h)
<1>1. Places(h) = a + b + x + y /\ Places(h)' = a1 + b1 + x1 + y1
  BY PlacesAdd
<1>2. Places(h) = (IF h < next_handle THEN 1 ELSE 0) /\ h \in Nat /\ next_handle \in Nat
  BY DEF EachJobOnce, CallsOK, Handles
<1>3. a \in Nat /\ b \in Nat /\ a1 \in Nat /\ b1 \in Nat
  <2>1. a \in Nat /\ b \in Nat
    BY PlacesTypes
  <2>2. streams' \in Seq(Slot)
    BY DEF StreamsOK
  <2>3. a1 \in Nat
    BY <2>2, OnStreamsType
  <2>4. b1 \in Nat
    BY DEF Claimed
  <2> QED
    BY <2>1, <2>3, <2>4
<1>4. completed \in Seq(Completion) /\ returned \in Seq(Completion) /\ made \in Seq(Completion)
  BY DEF Logs, LogOK, Submits, Settles, Polls, Moves
<1>5. x \in Nat /\ y \in Nat /\ m \in Nat
  BY <1>4, CountType
<1>6. CASE Submits(made)
  <2>1. a1 + b1 + m = a + b + (IF h = next_handle THEN 1 ELSE 0) /\ next_handle' = next_handle + 1
    BY <1>6 DEF Submits, Moves
  <2>2. x1 = x + m /\ y1 = y
    BY <1>4, <1>6, CountConcat DEF Submits, Join
  <2> HIDE DEF a, b, x, y, m, a1, b1, x1, y1
  <2>3. CASE h = next_handle
    BY <2>1, <2>2, <2>3, <1>1, <1>2, <1>3, <1>5
  <2>4. CASE h # next_handle
    <3>1. a1 + b1 + x1 + y1 = a + b + x + y /\ (h < next_handle' <=> h < next_handle)
      BY <2>1, <2>2, <2>4, <1>2, <1>3, <1>5
    <3> QED
      BY <3>1, <1>1, <1>2
  <2> QED
    BY <2>3, <2>4
<1>7. CASE Settles(made)
  <2>1. a1 + b1 + m = a + b + 0 /\ next_handle' = next_handle
    BY <1>7 DEF Settles, Moves
  <2>2. x1 = x + m /\ y1 = y
    BY <1>4, <1>7, CountConcat DEF Settles, Join
  <2> HIDE DEF a, b, x, y, m, a1, b1, x1, y1
  <2> QED
    BY <2>1, <2>2, <1>1, <1>2, <1>3, <1>5
<1>8. CASE Polls(made)
  <2>1. a1 + b1 + m = a + b + 0 /\ next_handle' = next_handle
    BY <1>8 DEF Polls, Moves
  <2>2. x1 = 0
    BY <1>8, CountEmpty DEF Polls
  <2>3. y1 = (y + x) + m
    <3>1. returned \o completed \in Seq(Completion) /\ Count(returned \o completed, h) = y + x
      BY <1>4, CountConcat
    <3>2. Count((returned \o completed) \o made, h) = Count(returned \o completed, h) + m
      BY <3>1, <1>4, CountConcat
    <3> QED
      BY <3>1, <3>2, <1>8 DEF Polls, Join
  <2> HIDE DEF a, b, x, y, m, a1, b1, x1, y1
  <2> QED
    BY <2>1, <2>2, <2>3, <1>1, <1>2, <1>3, <1>5
<1> QED
  BY <1>6, <1>7, <1>8

(* The constructor's state *)
LEMMA InitInv == Init => IInv
<1> SUFFICES ASSUME Init PROVE IInv
  OBVIOUS
<1>1. CallsOK /\ CacheOK
  BY BackendAssumption, EmptySeq DEF Init, CallsOK, CacheOK
<1>2. StreamsOK /\ NoStreamsYet
  BY EmptySeq DEF Init, StreamsOK, NoStreamsYet
<1>3. Logs
  BY EmptySeq DEF Init, Logs, LogOK
<1>4. ASSUME NEW h \in Handles PROVE Places(h) = 0 /\ ~(h < next_handle)
  <2>1. OnStreams(streams, h) = 0 /\ Claimed(claiming, h) = 0 /\ Count(completed, h) = 0 /\ Count(returned, h) = 0
    BY CountEmpty DEF Init, Claimed
  <2> QED
    BY <2>1, PlacesAdd DEF Init, Handles
<1> QED
  BY <1>1, <1>2, <1>3, <1>4 DEF IInv, EachJobOnce

(* Every step keeps the invariant. *)
LEMMA StepInv == IInv /\ [Next]_vars => IInv'
<1> SUFFICES ASSUME IInv, [Next]_vars PROVE IInv'
  OBVIOUS
<1> USE DEF IInv
<1>1. CallsOK' /\ CacheOK'
  BY CallsStep
<1>2. StreamsOK'
  BY StreamsStep
<1>3. NoStreamsYet'
  BY NoStreamsStep
<1>4. PICK made : Submits(made) \/ Settles(made) \/ Polls(made)
  BY StepMoves
<1>5. Logs'
  BY <1>4, LogsStep
<1>6. EachJobOnce'
  BY <1>1, <1>2, <1>4, OnceStep
<1> QED
  BY <1>1, <1>2, <1>3, <1>5, <1>6

(* The invariant holds throughout. *)
LEMMA Invariance == Spec => []IInv
  BY InitInv, StepInv, PTL DEF Spec

(* No job is forgotten and none completes twice: through stalls in         *)
(* claim_stream(), sweeps that a driver error interrupts and recoveries    *)
(* that replace the context, every handle submit() has given out is in one *)
(* place, for every number of streams, jobs and faults.                    *)
THEOREM NoJobLostOrDoubled == Spec => []EachJobOnce
<1>1. IInv => EachJobOnce
  BY DEF IInv
<1> QED
  BY <1>1, Invariance, PTL

(* Invariant 3 of the backend: an ok completion carries the image of its   *)
(* own frame, computed with its own parameters, whatever kernels the cache *)
(* held and however often the context was replaced.                        *)
THEOREM ImagesAreTheirOwn == Spec => []ImagesAreOwn
<1>1. IInv => ImagesAreOwn
  BY DEF IInv, Logs, LogOK, CompletionOK, Own, ImagesAreOwn
<1> QED
  BY <1>1, Invariance, PTL

----------------------------------------------------------------------------
(* The refinement                                                          *)

(* What a log reports of a handle it counts *)
LEMMA ReportsCounted ==
    ASSUME NEW s \in Seq(Completion), NEW h, NEW status, Reports(s, h, status)
    PROVE  Count(s, h) \in Nat /\ Count(s, h) >= 1
<1> DEFINE S == {k \in 1 .. Len(s) : s[k].handle = h}
<1>1. S # {}
  BY DEF Reports
<1>2. IsFiniteSet(S) /\ Cardinality(S) \in Nat /\ Count(s, h) = Cardinality(S)
  BY CountType DEF Count
<1>3. Cardinality(S) # 0
  BY <1>1, <1>2, FS_EmptySet
<1> QED
  BY <1>2, <1>3

(* Two logs report what either reports. *)
LEMMA ReportsJoin ==
    ASSUME NEW s \in Seq(Completion), NEW t \in Seq(Completion), NEW h, NEW status
    PROVE  Reports(Join(s, t), h, status) <=> Reports(s, h, status) \/ Reports(t, h, status)
<1> DEFINE n == Len(s)
           st == s \o t
<1>1. /\ n \in Nat /\ Len(t) \in Nat /\ Len(st) = n + Len(t)
      /\ \A k \in 1 .. n : st[k] = s[k]
      /\ \A k \in 1 .. Len(t) : st[n + k] = t[k]
  OBVIOUS
<1> HIDE DEF st
<1>2. ASSUME Reports(st, h, status) PROVE Reports(s, h, status) \/ Reports(t, h, status)
  <2>1. PICK k \in 1 .. Len(st) : st[k].handle = h /\ st[k].status = status
    BY <1>2 DEF Reports
  <2>2. CASE k <= n
    <3>1. k \in 1 .. n
      BY <2>2, <1>1
    <3> QED
      BY <2>1, <3>1, <1>1 DEF Reports
  <2>3. CASE k > n
    <3>1. k - n \in 1 .. Len(t) /\ k = n + (k - n)
      BY <2>3, <1>1
    <3>2. st[k] = t[k - n]
      BY <3>1, <1>1
    <3> QED
      BY <2>1, <3>1, <3>2 DEF Reports
  <2> QED
    BY <2>2, <2>3, <1>1
<1>3. ASSUME Reports(s, h, status) PROVE Reports(st, h, status)
  <2>1. PICK k \in 1 .. n : s[k].handle = h /\ s[k].status = status
    BY <1>3 DEF Reports
  <2>2. k \in 1 .. Len(st) /\ st[k] = s[k]
    BY <1>1
  <2> QED
    BY <2>1, <2>2 DEF Reports
<1>4. ASSUME Reports(t, h, status) PROVE Reports(st, h, status)
  <2>1. PICK k \in 1 .. Len(t) : t[k].handle = h /\ t[k].status = status
    BY <1>4 DEF Reports
  <2>2. n + k \in 1 .. Len(st) /\ st[n + k] = t[k]
    BY <1>1
  <2> QED
    BY <2>1, <2>2 DEF Reports
<1> QED
  BY <1>2, <1>3, <1>4 DEF st, Join

(* What is reported of a job that `out`, `waiting` and `made` hold at most *)
(* once between them                                                       *)
HeldOnce(h, out, waiting, made) ==
    /\ out \in Seq(Completion) /\ waiting \in Seq(Completion) /\ made \in Seq(Completion)
    /\ Count(out, h) + Count(waiting, h) + Count(made, h) <= 1

(* A job held once is reported by one of the three only. *)
LEMMA ReportedOnce ==
    ASSUME NEW h, NEW out, NEW waiting, NEW made, HeldOnce(h, out, waiting, made), NEW a, NEW b
    PROVE  /\ Reports(out, h, a) => ~Reports(waiting, h, b) /\ ~Reports(made, h, b)
           /\ Reports(waiting, h, a) => ~Reports(made, h, b)
<1>1. out \in Seq(Completion) /\ waiting \in Seq(Completion) /\ made \in Seq(Completion)
  BY DEF HeldOnce
<1> DEFINE x == Count(out, h)
           y == Count(waiting, h)
           z == Count(made, h)
<1>2. x \in Nat /\ y \in Nat /\ z \in Nat /\ x + y + z <= 1
  BY <1>1, CountType DEF HeldOnce
<1>3. /\ Reports(out, h, a) => x >= 1
      /\ Reports(waiting, h, a) => y >= 1
      /\ Reports(waiting, h, b) => y >= 1
      /\ Reports(made, h, b) => z >= 1
  BY <1>1, ReportsCounted
<1> HIDE DEF x, y, z
<1> QED
  BY <1>2, <1>3

(* Completions that wait settle their jobs and touch no other. *)
LEMMA SettledState ==
    ASSUME NEW h, NEW nh, NEW then, NEW out, NEW waiting, NEW made, HeldOnce(h, out, waiting, made),
           h < then <=> h < nh, ~(h < nh) => \A a : ~Reports(made, h, a)
    PROVE  Service!Settles(JobState(h, nh, waiting, out), JobState(h, then, Join(waiting, made), out))
<1>1. waiting \in Seq(Completion) /\ made \in Seq(Completion)
  BY DEF HeldOnce
<1>2. /\ Reports(Join(waiting, made), h, "ok") <=> Reports(waiting, h, "ok") \/ Reports(made, h, "ok")
      /\ Reports(Join(waiting, made), h, "error") <=> Reports(waiting, h, "error") \/ Reports(made, h, "error")
  BY <1>1, ReportsJoin
<1>3. Reports(waiting, h, "error") => ~Reports(made, h, "ok")
  BY ReportedOnce
<1> QED
  BY <1>2, <1>3 DEF Service!Settles, JobState

(* Completions that are returned return their jobs and no other. *)
LEMMA ReturnedState ==
    ASSUME NEW h, NEW nh, NEW out, NEW waiting, NEW made, HeldOnce(h, out, waiting, made),
           ~(h < nh) => \A a : ~Reports(made, h, a)
    PROVE  Service!Returns(JobState(h, nh, waiting, out), JobState(h, nh, <<>>, Join(Join(out, waiting), made)))
<1>1. /\ waiting \in Seq(Completion) /\ made \in Seq(Completion) /\ out \in Seq(Completion)
      /\ Join(out, waiting) \in Seq(Completion)
  BY DEF HeldOnce, Join
<1> DEFINE all == Join(Join(out, waiting), made)
<1>2. /\ Reports(Join(out, waiting), h, "ok") <=> Reports(out, h, "ok") \/ Reports(waiting, h, "ok")
      /\ Reports(Join(out, waiting), h, "error") <=> Reports(out, h, "error") \/ Reports(waiting, h, "error")
  BY <1>1, ReportsJoin
<1>3. /\ Reports(all, h, "ok") <=> Reports(Join(out, waiting), h, "ok") \/ Reports(made, h, "ok")
      /\ Reports(all, h, "error") <=> Reports(Join(out, waiting), h, "error") \/ Reports(made, h, "error")
  BY <1>1, ReportsJoin
<1>4. ~Reports(<<>>, h, "ok") /\ ~Reports(<<>>, h, "error")
  BY DEF Reports
<1>5. /\ Reports(waiting, h, "error") => ~Reports(made, h, "ok")
      /\ Reports(out, h, "error") => ~Reports(made, h, "ok") /\ ~Reports(waiting, h, "ok")
  BY ReportedOnce
<1> HIDE DEF all
<1>6. Service!Returns(JobState(h, nh, waiting, out), JobState(h, nh, <<>>, all))
  BY <1>2, <1>3, <1>4, <1>5 DEF Service!Returns, JobState
<1> QED
  BY <1>6 DEF all

(* Before and after a step each handle is held at most once, and only if   *)
(* it has been given out.                                                  *)
LEMMA HeldBeforeAndAfter ==
    ASSUME IInv, IInv', NEW made, Submits(made) \/ Settles(made) \/ Polls(made), NEW h \in Handles
    PROVE  /\ HeldOnce(h, returned, completed, made)
           /\ ~(h < next_handle) => \A a : ~Reports(returned, h, a) /\ ~Reports(completed, h, a)
           /\ ~(h < next_handle') => \A a : ~Reports(made, h, a)
<1> DEFINE x == Count(completed, h)
           y == Count(returned, h)
           m == Count(made, h)
           x1 == Count(completed', h)
           y1 == Count(returned', h)
<1>1. completed \in Seq(Completion) /\ returned \in Seq(Completion) /\ made \in Seq(Completion)
  BY DEF IInv, Logs, LogOK, Submits, Settles, Polls, Moves
<1>2. x \in Nat /\ y \in Nat /\ m \in Nat
  BY <1>1, CountType
<1>3. x1 + y1 = x + y + m
  <2>1. CASE Submits(made) \/ Settles(made)
    <3>1. x1 = x + m /\ y1 = y
      <4>1. completed' = completed \o made /\ returned' = returned
        BY <2>1 DEF Submits, Settles, Join
      <4> QED
        BY <4>1, <1>1, CountConcat
    <3> HIDE DEF x, y, m, x1, y1
    <3> QED
      BY <3>1, <1>2
  <2>2. CASE Polls(made)
    <3>1. returned \o completed \in Seq(Completion) /\ Count(returned \o completed, h) = y + x
      BY <1>1, CountConcat
    <3>2. Count((returned \o completed) \o made, h) = Count(returned \o completed, h) + m
      BY <3>1, <1>1, CountConcat
    <3>3. y1 = (y + x) + m /\ x1 = 0
      BY <3>1, <3>2, <2>2, CountEmpty DEF Polls, Join
    <3> HIDE DEF x, y, m, x1, y1
    <3> QED
      BY <3>3, <1>2
  <2> QED
    BY <2>1, <2>2
<1>4. ASSUME NEW nh, NEW places, NEW a, NEW b, NEW p, NEW q, a \in Nat, b \in Nat, p + q \in Nat,
             p \in Int, q \in Int,
             places = a + b + p + q, places = (IF h < nh THEN 1 ELSE 0)
      PROVE  p + q <= 1 /\ (~(h < nh) => p + q = 0)
  BY <1>4
<1>5. x + y <= 1 /\ (~(h < next_handle) => x + y = 0)
  <2>1. OnStreams(streams, h) \in Nat /\ Claimed(claiming, h) \in Nat
    BY PlacesTypes DEF IInv
  <2>2. /\ Places(h) = OnStreams(streams, h) + Claimed(claiming, h) + x + y
        /\ Places(h) = (IF h < next_handle THEN 1 ELSE 0)
    BY PlacesAdd DEF IInv, EachJobOnce
  <2> HIDE DEF x, y
  <2> QED
    BY <2>1, <2>2, <1>2, <1>4
<1>6. x1 + y1 <= 1 /\ (~(h < next_handle') => x1 + y1 = 0)
  <2>0. streams' \in Seq(Slot) /\ completed' \in Seq(Completion) /\ returned' \in Seq(Completion)
    BY DEF IInv, StreamsOK, Logs, LogOK
  <2>1. OnStreams(streams', h) \in Nat /\ Claimed(claiming', h) \in Nat /\ x1 \in Nat /\ y1 \in Nat
    BY <2>0, OnStreamsType, CountType DEF Claimed
  <2>2. /\ Places(h)' = OnStreams(streams', h) + Claimed(claiming', h) + x1 + y1
        /\ Places(h)' = (IF h < next_handle' THEN 1 ELSE 0)
    BY PlacesAdd DEF IInv, EachJobOnce
  <2> HIDE DEF x1, y1
  <2> QED
    BY <2>1, <2>2, <1>4
<1>7. /\ x + y + m <= 1 /\ (~(h < next_handle') => m = 0) /\ (~(h < next_handle) => x = 0 /\ y = 0)
  <2> HIDE DEF x, y, m, x1, y1
  <2> QED
    BY <1>2, <1>3, <1>5, <1>6
<1>8. HeldOnce(h, returned, completed, made)
  <2>1. y + x + m <= 1
    <3> HIDE DEF x, y, m
    <3> QED
      BY <1>2, <1>7
  <2> QED
    BY <2>1, <1>1 DEF HeldOnce
<1> HIDE DEF x, y, m
<1>9. ASSUME ~(h < next_handle), NEW a PROVE ~Reports(returned, h, a) /\ ~Reports(completed, h, a)
  <2>1. x = 0 /\ y = 0
    BY <1>7, <1>9
  <2>2. ASSUME Reports(returned, h, a) PROVE FALSE
    <3>1. y >= 1
      BY <1>1, <2>2, ReportsCounted DEF y
    <3> QED
      BY <2>1, <3>1
  <2>3. ASSUME Reports(completed, h, a) PROVE FALSE
    <3>1. x >= 1
      BY <1>1, <2>3, ReportsCounted DEF x
    <3> QED
      BY <2>1, <3>1
  <2> QED
    BY <2>2, <2>3
<1>10. ASSUME ~(h < next_handle'), NEW a PROVE ~Reports(made, h, a)
  <2>1. m = 0
    BY <1>7, <1>10
  <2>2. ASSUME Reports(made, h, a) PROVE FALSE
    <3>1. m >= 1
      BY <1>1, <2>2, ReportsCounted DEF m
    <3> QED
      BY <2>1, <3>1
  <2> QED
    BY <2>2
<1> QED
  BY <1>8, <1>9, <1>10

(* The refinement mapping *)
Mapped == [h \in Handles |-> JobState(h, next_handle, completed, returned)]

(* The CUDA backend implements the IBackend contract: submit() hands out   *)
(* the next handle, a job is settled once, ok or error, a recovery is a    *)
(* way of settling and never takes a settlement back, and                  *)
(* poll_completions() returns every settled job once.                      *)
THEOREM CudaImplementsContract == Spec => ImplementsJobService
<1>1. Init => Service!Init
  BY DEF Init, Service!Init, Service!Handles, Handles, JobState, Reports
<1>2. IInv /\ IInv' /\ [Next]_vars => [Service!Next]_Mapped
  <2> SUFFICES ASSUME IInv, IInv', [Next]_vars PROVE Service!Next
    BY DEF Service!Next
  <2> DEFINE now(h) == JobState(h, next_handle, completed, returned)
             then(h) == JobState(h, next_handle', completed', returned')
  <2>1. Mapped' \in [Handles -> Service!JobStates]
    <3>1. \A h \in Handles : then(h) \in Service!JobStates
      BY DEF JobState, Service!JobStates
    <3> QED
      BY <3>1 DEF Mapped
  <2>2. \A h \in Handles : Mapped[h] = now(h) /\ Mapped'[h] = then(h)
    BY DEF Mapped
  <2>3. PICK made : Submits(made) \/ Settles(made) \/ Polls(made)
    BY StepMoves DEF IInv
  <2>4. \A h \in Handles :
            /\ HeldOnce(h, returned, completed, made)
            /\ ~(h < next_handle) => \A a : ~Reports(returned, h, a) /\ ~Reports(completed, h, a)
            /\ ~(h < next_handle') => \A a : ~Reports(made, h, a)
    BY <2>3, HeldBeforeAndAfter
  <2>5. next_handle \in Nat /\ \A h \in Handles : h \in Nat
    BY DEF IInv, CallsOK, Handles
  <2>6. CASE Submits(made)
    <3>1. /\ completed' = Join(completed, made) /\ returned' = returned
          /\ next_handle \in Handles /\ next_handle' = next_handle + 1
      BY <2>6 DEF Submits
    <3>2. now(next_handle) = "none"
      BY <2>4, <2>5, <3>1 DEF JobState
    <3>3. then(next_handle) \in {"pending", "ok", "error"}
      <4>1. /\ ~Reports(returned', next_handle, "ok") /\ ~Reports(returned', next_handle, "error")
            /\ next_handle < next_handle'
        BY <2>4, <2>5, <3>1
      <4> QED
        BY <4>1 DEF JobState
    <3>4. ASSUME NEW g \in Handles, g < next_handle PROVE now(g) # "none"
      BY <3>4 DEF JobState
    <3>5. ASSUME NEW g \in Handles \ {next_handle} PROVE Service!Settles(now(g), then(g))
      <4>1. g < next_handle' <=> g < next_handle
        BY <2>5, <3>1
      <4>2. HeldOnce(g, returned, completed, made) /\ (~(g < next_handle) => \A a : ~Reports(made, g, a))
        BY <2>4, <4>1
      <4> QED
        BY <3>1, <4>1, <4>2, SettledState
    <3> HIDE DEF now, then
    <3>6. Service!Submit
      BY <2>2, <3>1, <3>2, <3>3, <3>4, <3>5 DEF Service!Submit, Service!Handles, Handles, Mapped
    <3> QED
      BY <2>1, <3>6 DEF Service!Next, Service!Handles, Handles, Mapped
  <2>7. CASE Settles(made)
    <3>1. completed' = Join(completed, made) /\ returned' = returned /\ next_handle' = next_handle
      BY <2>7 DEF Settles
    <3>2. \A h \in Handles : Service!Settles(now(h), then(h))
      BY <2>4, <3>1, SettledState
    <3> HIDE DEF now, then
    <3>3. Service!Settle
      BY <2>2, <3>2 DEF Service!Settle, Service!Handles, Handles, Mapped
    <3> QED
      BY <2>1, <3>3 DEF Service!Next, Service!Handles, Handles, Mapped
  <2>8. CASE Polls(made)
    <3>1. /\ completed' = <<>> /\ returned' = Join(Join(returned, completed), made)
          /\ next_handle' = next_handle
      BY <2>8 DEF Polls
    <3>2. \A h \in Handles : Service!Returns(now(h), then(h))
      BY <2>4, <3>1, ReturnedState
    <3> HIDE DEF now, then
    <3>3. Service!Poll
      BY <2>2, <3>2 DEF Service!Poll, Service!Handles, Handles, Mapped
    <3> QED
      BY <2>1, <3>3 DEF Service!Next, Service!Handles, Handles, Mapped
  <2> QED
    BY <2>3, <2>6, <2>7, <2>8
<1> QED
  BY <1>1, <1>2, Invariance, PTL DEF Spec, ImplementsJobService, Service!Spec, Mapped

----------------------------------------------------------------------------
(* The CPU backend (module CpuBackend) implements the same contract, and   *)
(* returns every job once and in order, for every number of jobs.  The     *)
(* argument: the completions returned and those waiting are together the   *)
(* handles 1, 2, 3 ..., so the position of a job in them is its handle,    *)
(* and the state JobService gives it can be read off that position.  The   *)
(* variables are this module's of the same names, here those of the CPU    *)
(* backend.                                                                *)

Cpu == INSTANCE CpuBackend

CpuStatuses == {"ok", "error"}
CpuCompletion == [handle : Nat, status : CpuStatuses]

(* Completions `out` returned and `waiting` to be, where they join *)
InOrder(nh, waiting, out) ==
    /\ nh \in Nat
    /\ waiting \in Seq(CpuCompletion)
    /\ out \in Seq(CpuCompletion)
    /\ nh = Len(out) + Len(waiting) + 1
    /\ \A k \in 1 .. Len(out) : out[k].handle = k
    /\ \A k \in 1 .. Len(waiting) : waiting[k].handle = Len(out) + k

(* The inductive invariant *)
CpuInv == InOrder(next_handle, completed, returned)

(* submit() appends the next handle. *)
LEMMA AppendInOrder ==
    ASSUME NEW nh, NEW waiting, NEW out, InOrder(nh, waiting, out), NEW status \in CpuStatuses
    PROVE  InOrder(nh + 1, Append(waiting, [handle |-> nh, status |-> status]), out)
<1> DEFINE c == [handle |-> nh, status |-> status]
           longer == Append(waiting, c)
<1>1. c \in CpuCompletion /\ c.handle = nh
  BY DEF InOrder, CpuCompletion
<1> HIDE DEF c
<1>2. /\ waiting \in Seq(CpuCompletion) /\ Len(waiting) \in Nat /\ Len(out) \in Nat
      /\ nh = Len(out) + Len(waiting) + 1
  BY DEF InOrder
<1>3. longer \in Seq(CpuCompletion) /\ Len(longer) = Len(waiting) + 1
  BY <1>1, <1>2
<1>4. ASSUME NEW k \in 1 .. Len(longer) PROVE longer[k].handle = Len(out) + k
  <2>1. CASE k = Len(waiting) + 1
    <3>1. longer[k] = c
      BY <1>1, <1>2, <2>1
    <3> QED
      BY <3>1, <1>1, <1>2, <2>1
  <2>2. CASE k \in 1 .. Len(waiting)
    <3>1. longer[k] = waiting[k]
      BY <1>1, <1>2, <2>2
    <3> QED
      BY <3>1, <2>2 DEF InOrder
  <2> QED
    BY <1>2, <1>3, <1>4, <2>1, <2>2
<1> HIDE DEF longer
<1>5. InOrder(nh + 1, longer, out)
  BY <1>2, <1>3, <1>4 DEF InOrder
<1> QED
  BY <1>5 DEF longer, c

(* The two sequences together are in order. *)
LEMMA JoinInOrder ==
    ASSUME NEW nh, NEW waiting, NEW out, InOrder(nh, waiting, out)
    PROVE  /\ out \o waiting \in Seq(CpuCompletion)
           /\ Len(out \o waiting) = Len(out) + Len(waiting)
           /\ \A k \in 1 .. Len(out \o waiting) : (out \o waiting)[k].handle = k
<1> DEFINE all == out \o waiting
<1>1. /\ waiting \in Seq(CpuCompletion) /\ out \in Seq(CpuCompletion)
      /\ Len(waiting) \in Nat /\ Len(out) \in Nat /\ nh = Len(out) + Len(waiting) + 1
  BY DEF InOrder
<1>2. all \in Seq(CpuCompletion) /\ Len(all) = Len(out) + Len(waiting)
  BY <1>1
<1>3. \A k \in 1 .. Len(out) : all[k] = out[k]
  BY <1>1
<1>4. ASSUME NEW k \in Len(out) + 1 .. nh - 1
      PROVE  all[k] = waiting[k - Len(out)] /\ k - Len(out) \in 1 .. Len(waiting)
  BY <1>1
<1> HIDE DEF all
<1>5. ASSUME NEW k \in 1 .. Len(all) PROVE all[k].handle = k
  <2>1. CASE k <= Len(out)
    <3>1. k \in 1 .. Len(out)
      BY <1>1, <1>2, <2>1
    <3> QED
      BY <1>3, <3>1 DEF InOrder
  <2>2. CASE k > Len(out)
    <3>1. all[k] = waiting[k - Len(out)] /\ k - Len(out) \in 1 .. Len(waiting)
      BY <1>1, <1>2, <1>4, <2>2
    <3>2. waiting[k - Len(out)].handle = Len(out) + (k - Len(out))
      BY <3>1 DEF InOrder
    <3> QED
      BY <3>1, <3>2, <1>1
  <2> QED
    BY <1>1, <1>2, <2>1, <2>2
<1> QED
  BY <1>2, <1>3, <1>4, <1>5 DEF all

(* poll_completions() returns all that waited. *)
LEMMA PollInOrder ==
    ASSUME NEW nh, NEW waiting, NEW out, InOrder(nh, waiting, out)
    PROVE  InOrder(nh, <<>>, out \o waiting)
<1> DEFINE all == out \o waiting
<1>1. all \in Seq(CpuCompletion) /\ Len(all) = Len(out) + Len(waiting) /\ \A k \in 1 .. Len(all) : all[k].handle = k
  BY JoinInOrder
<1>2. nh \in Nat /\ nh = Len(out) + Len(waiting) + 1 /\ Len(out) \in Nat /\ Len(waiting) \in Nat
  BY DEF InOrder
<1>3. <<>> \in Seq(CpuCompletion) /\ Len(<<>>) = 0
  OBVIOUS
<1> HIDE DEF all
<1>4. InOrder(nh, <<>>, all)
  BY <1>1, <1>2, <1>3 DEF InOrder
<1> QED
  BY <1>4 DEF all

(* Every call keeps the invariant. *)
LEMMA CpuInvHolds == Cpu!Spec => []CpuInv
<1>1. Cpu!Init => CpuInv
  BY DEF Cpu!Init, CpuInv, InOrder
<1>2. CpuInv /\ [Cpu!Next]_(Cpu!vars) => CpuInv'
  <2> SUFFICES ASSUME CpuInv, [Cpu!Next]_(Cpu!vars) PROVE CpuInv'
    OBVIOUS
  <2>1. CASE Cpu!allocate_slots
    BY <2>1 DEF Cpu!allocate_slots, CpuInv
  <2>2. ASSUME NEW status \in CpuStatuses, Cpu!submit(status) PROVE CpuInv'
    BY <2>2, AppendInOrder DEF Cpu!submit, CpuInv
  <2>3. CASE Cpu!poll_completions
    BY <2>3, PollInOrder DEF Cpu!poll_completions, CpuInv
  <2>4. CASE UNCHANGED Cpu!vars
    BY <2>4 DEF Cpu!vars, CpuInv
  <2> QED
    BY <2>1, <2>2, <2>3, <2>4 DEF Cpu!Next, CpuStatuses
<1> QED
  BY <1>1, <1>2, PTL DEF Cpu!Spec

(* Every job comes back once and in the order of submission: the handles   *)
(* that poll_completions() has returned and those that wait for it are     *)
(* together 1, 2, 3 ...                                                    *)
THEOREM CpuReturnsInOrder == Cpu!Spec => []Cpu!ReturnedInOrder
<1>1. CpuInv => Cpu!ReturnedInOrder
  <2> SUFFICES ASSUME CpuInv PROVE Cpu!ReturnedInOrder
    OBVIOUS
  <2>1. /\ Len(returned \o completed) = Len(returned) + Len(completed)
        /\ \A k \in 1 .. Len(returned \o completed) : (returned \o completed)[k].handle = k
    BY JoinInOrder DEF CpuInv
  <2>2. Len(returned) + Len(completed) = next_handle - 1
    BY DEF CpuInv, InOrder
  <2> QED
    BY <2>1, <2>2 DEF Cpu!ReturnedInOrder
<1> QED
  BY <1>1, CpuInvHolds, PTL

----------------------------------------------------------------------------
(* The refinement                                                          *)

(* What JobState is when the position of a job is its handle *)
Got(status) == IF status = "ok" THEN "got_ok" ELSE "got_error"

StateByPosition(h, nh, waiting, out) ==
    IF h <= Len(out) THEN Got(out[h].status) ELSE IF h < nh THEN waiting[h - Len(out)].status ELSE "none"

(* What the completions say of a job can be read off one position. *)
LEMMA StateReadOff ==
    ASSUME NEW nh, NEW waiting, NEW out, InOrder(nh, waiting, out), NEW h \in Nat \ {0}
    PROVE  /\ Cpu!JobState(h, nh, waiting, out) = StateByPosition(h, nh, waiting, out)
           /\ h <= Len(out) => out[h].status \in CpuStatuses
           /\ (h > Len(out) /\ h < nh) => waiting[h - Len(out)].status \in CpuStatuses
<1>1. \A k \in 1 .. Len(out) : out[k] \in CpuCompletion /\ out[k].handle = k
  BY DEF InOrder
<1>2. \A k \in 1 .. Len(waiting) : waiting[k] \in CpuCompletion /\ waiting[k].handle = Len(out) + k
  BY DEF InOrder
<1>3. Len(out) \in Nat /\ Len(waiting) \in Nat /\ nh = Len(out) + Len(waiting) + 1
  BY DEF InOrder
<1>4. \A s : Cpu!Reports(out, h, s) <=> (h <= Len(out) /\ out[h].status = s)
  BY <1>1, <1>3 DEF Cpu!Reports
<1>5. \A s : Cpu!Reports(waiting, h, s) <=> (h > Len(out) /\ h < nh /\ waiting[h - Len(out)].status = s)
  <2>1. \A k \in 1 .. Len(waiting) : waiting[k].handle = h <=> k = h - Len(out)
    BY <1>2, <1>3
  <2>2. h > Len(out) /\ h < nh <=> h - Len(out) \in 1 .. Len(waiting)
    BY <1>3
  <2> QED
    BY <2>1, <2>2 DEF Cpu!Reports
<1>6. CASE h <= Len(out)
  <2>1. out[h].status \in {"ok", "error"}
    BY <1>1, <1>3, <1>6 DEF CpuCompletion, CpuStatuses
  <2>2. Cpu!JobState(h, nh, waiting, out) = Got(out[h].status)
    <3>1. CASE out[h].status = "ok"
      BY <3>1, <1>4, <1>6 DEF Cpu!JobState, Got
    <3>2. CASE out[h].status = "error"
      <4>1. ~Cpu!Reports(out, h, "ok") /\ Cpu!Reports(out, h, "error")
        BY <3>2, <1>4, <1>6
      <4> QED
        BY <4>1, <3>2 DEF Cpu!JobState, Got
    <3> QED
      BY <2>1, <3>1, <3>2
  <2> QED
    BY <2>1, <2>2, <1>3, <1>6 DEF StateByPosition, CpuStatuses
<1>7. CASE h > Len(out) /\ h < nh
  <2>1. waiting[h - Len(out)].status \in {"ok", "error"}
    <3>1. h - Len(out) \in 1 .. Len(waiting)
      BY <1>3, <1>7
    <3> QED
      BY <3>1, <1>2 DEF CpuCompletion, CpuStatuses
  <2>2. ~Cpu!Reports(out, h, "ok") /\ ~Cpu!Reports(out, h, "error") /\ ~(h <= Len(out))
    BY <1>3, <1>4, <1>7
  <2>3. Cpu!JobState(h, nh, waiting, out) = waiting[h - Len(out)].status
    <3>1. CASE waiting[h - Len(out)].status = "ok"
      BY <3>1, <2>2, <1>5, <1>7 DEF Cpu!JobState
    <3>2. CASE waiting[h - Len(out)].status = "error"
      <4>1. ~Cpu!Reports(waiting, h, "ok") /\ Cpu!Reports(waiting, h, "error")
        BY <3>2, <1>5, <1>7
      <4> QED
        BY <4>1, <3>2, <2>2 DEF Cpu!JobState
    <3> QED
      BY <2>1, <3>1, <3>2
  <2> QED
    BY <2>1, <2>2, <2>3, <1>7 DEF StateByPosition, CpuStatuses
<1>8. CASE h >= nh
  <2>1. /\ ~Cpu!Reports(out, h, "ok") /\ ~Cpu!Reports(out, h, "error") /\ ~Cpu!Reports(waiting, h, "ok")
        /\ ~Cpu!Reports(waiting, h, "error") /\ ~(h < nh) /\ ~(h <= Len(out))
    BY <1>3, <1>4, <1>5, <1>8
  <2> QED
    BY <2>1 DEF Cpu!JobState, StateByPosition
<1> QED
  BY <1>3, <1>6, <1>7, <1>8

(* The refinement mapping *)
CpuMapped == [h \in Cpu!Handles |-> Cpu!JobState(h, next_handle, completed, returned)]

(* In every reachable state the mapping is well typed. *)
LEMMA MappedTypes ==
    ASSUME NEW nh, NEW waiting, NEW out, InOrder(nh, waiting, out), NEW h \in Cpu!Handles
    PROVE  Cpu!JobState(h, nh, waiting, out) \in {"none", "pending", "ok", "error", "got_ok", "got_error"}
  BY DEF Cpu!JobState

(* submit() gives the next handle its status and touches no other job. *)
LEMMA SubmitMaps ==
    ASSUME CpuInv, CpuInv', NEW status \in CpuStatuses, Cpu!submit(status)
    PROVE  /\ CpuMapped[next_handle] = "none" /\ CpuMapped'[next_handle] = status /\ next_handle \in Cpu!Handles
           /\ \A g \in Cpu!Handles : g < next_handle => CpuMapped[g] # "none"
           /\ \A g \in Cpu!Handles \ {next_handle} : CpuMapped'[g] = CpuMapped[g]
<1> DEFINE nh == next_handle
           now(h) == StateByPosition(h, next_handle, completed, returned)
           then(h) == StateByPosition(h, next_handle', completed', returned')
           c == [handle |-> nh, status |-> status]
<1>1. /\ completed' = Append(completed, c) /\ returned' = returned /\ next_handle' = nh + 1
      /\ nh <= MaxJobs
  BY DEF Cpu!submit
<1>2. /\ completed \in Seq(CpuCompletion) /\ Len(completed) \in Nat /\ Len(returned) \in Nat
      /\ nh = Len(returned) + Len(completed) + 1 /\ nh \in Nat \ {0}
  BY DEF CpuInv, InOrder
<1>3. \A h \in Cpu!Handles : h \in Nat \ {0} /\ CpuMapped[h] = now(h) /\ CpuMapped'[h] = then(h)
  <2> SUFFICES ASSUME NEW h \in Cpu!Handles PROVE h \in Nat \ {0} /\ CpuMapped[h] = now(h) /\ CpuMapped'[h] = then(h)
    OBVIOUS
  <2>1. h \in Nat \ {0}
    BY DEF Cpu!Handles
  <2>2. Cpu!JobState(h, next_handle, completed, returned) = now(h)
    BY <2>1, StateReadOff DEF CpuInv
  <2>3. Cpu!JobState(h, next_handle', completed', returned') = then(h)
    BY <2>1, StateReadOff DEF CpuInv
  <2> QED
    BY <2>1, <2>2, <2>3 DEF CpuMapped
<1>4. nh \in Cpu!Handles
  BY <1>1, <1>2 DEF Cpu!Handles
<1>5. c \in CpuCompletion /\ c.status = status
  BY <1>2 DEF CpuCompletion
<1> HIDE DEF c
<1>6. now(nh) = "none" /\ then(nh) = status
  <2>1. nh - Len(returned) = Len(completed) + 1 /\ ~(nh <= Len(returned)) /\ nh < nh + 1
    BY <1>2
  <2>2. completed'[Len(completed) + 1] = c
    BY <1>1, <1>2, <1>5
  <2> QED
    BY <2>1, <2>2, <1>1, <1>2, <1>5 DEF StateByPosition
<1>7. ASSUME NEW g \in Cpu!Handles \ {nh} PROVE then(g) = now(g)
  <2>0. g \in Nat \ {0}
    BY <1>3
  <2>1. CASE g <= Len(returned)
    BY <2>1, <1>1 DEF StateByPosition
  <2>2. CASE g > Len(returned) /\ g < nh
    <3>1. g - Len(returned) \in 1 .. Len(completed) /\ g < nh + 1 /\ ~(g <= Len(returned))
      BY <2>0, <2>2, <1>2
    <3>2. completed'[g - Len(returned)] = completed[g - Len(returned)]
      BY <3>1, <1>1, <1>2, <1>5
    <3> QED
      BY <3>1, <3>2, <2>2, <1>1 DEF StateByPosition
  <2>3. CASE g > nh
    BY <2>0, <2>3, <1>1, <1>2 DEF StateByPosition
  <2> QED
    BY <2>0, <2>1, <2>2, <2>3, <1>2
<1>8. ASSUME NEW g \in Cpu!Handles, g < nh PROVE now(g) # "none"
  <2>1. g \in Nat \ {0}
    BY <1>3
  <2>2. CASE g <= Len(returned)
    BY <2>2 DEF StateByPosition, Got
  <2>3. CASE g > Len(returned)
    <3>1. completed[g - Len(returned)].status \in CpuStatuses
      BY <2>1, <2>3, <1>8, StateReadOff DEF CpuInv
    <3> QED
      BY <3>1, <2>1, <2>3, <1>2, <1>8 DEF StateByPosition, CpuStatuses
  <2> QED
    BY <2>1, <2>2, <2>3, <1>2
<1> HIDE DEF now, then
<1> QED
  BY <1>3, <1>4, <1>6, <1>7, <1>8

(* poll_completions() returns every job that waited and no other. *)
LEMMA PollMaps ==
    ASSUME CpuInv, CpuInv', Cpu!poll_completions, NEW h \in Cpu!Handles
    PROVE  \/ CpuMapped[h] \in {"none", "got_ok", "got_error"} /\ CpuMapped'[h] = CpuMapped[h]
           \/ CpuMapped[h] = "ok" /\ CpuMapped'[h] = "got_ok"
           \/ CpuMapped[h] = "error" /\ CpuMapped'[h] = "got_error"
<1> DEFINE now == StateByPosition(h, next_handle, completed, returned)
<1>1. completed' = <<>> /\ returned' = returned \o completed /\ next_handle' = next_handle
  BY DEF Cpu!poll_completions
<1>2. /\ Len(completed) \in Nat /\ Len(returned) \in Nat
      /\ next_handle = Len(returned) + Len(completed) + 1
  BY DEF CpuInv, InOrder
<1>3. h \in Nat \ {0}
  BY DEF Cpu!Handles
<1>4. CpuMapped[h] = now /\ CpuMapped'[h] = now'
  <2>1. Cpu!JobState(h, next_handle, completed, returned) = now
    BY <1>3, StateReadOff DEF CpuInv
  <2>2. Cpu!JobState(h, next_handle', completed', returned') = now'
    BY <1>3, StateReadOff DEF CpuInv
  <2> QED
    BY <2>1, <2>2 DEF CpuMapped
<1>5. /\ Len(returned') = Len(returned) + Len(completed)
      /\ \A k \in 1 .. Len(returned) : returned'[k] = returned[k]
      /\ \A k \in Len(returned) + 1 .. next_handle - 1 : returned'[k] = completed[k - Len(returned)]
  <2>1. completed \in Seq(CpuCompletion) /\ returned \in Seq(CpuCompletion)
    BY DEF CpuInv, InOrder
  <2> QED
    BY <2>1, <1>1, <1>2
<1>6. CASE h <= Len(returned)
  BY <1>2, <1>3, <1>4, <1>5, <1>6 DEF StateByPosition, Got
<1>7. CASE h > Len(returned) /\ h < next_handle
  <2>1. completed[h - Len(returned)].status \in CpuStatuses
    BY <1>3, <1>7, StateReadOff DEF CpuInv
  <2>2. now = completed[h - Len(returned)].status
    BY <1>2, <1>3, <1>7 DEF StateByPosition
  <2>3. now' = Got(completed[h - Len(returned)].status)
    <3>1. h <= Len(returned') /\ returned'[h] = completed[h - Len(returned)]
      BY <1>2, <1>3, <1>5, <1>7
    <3> QED
      BY <3>1 DEF StateByPosition
  <2> QED
    BY <1>4, <2>1, <2>2, <2>3 DEF Got, CpuStatuses
<1>8. CASE h >= next_handle
  <2>1. ~(h <= Len(returned)) /\ ~(h <= Len(returned')) /\ ~(h < next_handle) /\ ~(h < next_handle')
    BY <1>1, <1>2, <1>3, <1>5, <1>8
  <2> QED
    BY <2>1, <1>4 DEF StateByPosition
<1> QED
  BY <1>2, <1>3, <1>6, <1>7, <1>8

(* The CPU backend implements the IBackend contract: submit() settles its  *)
(* job at once, poll_completions() returns each settled job once, and no   *)
(* other call changes a job.                                               *)
THEOREM CpuImplementsContract == Cpu!Spec => Cpu!ImplementsJobService
<1>1. Cpu!Init => Cpu!Service!Init
  BY DEF Cpu!Init, Cpu!Service!Init, Cpu!Service!Handles, Cpu!Handles, Cpu!JobState, Cpu!Reports
<1>2. CpuInv /\ CpuInv' /\ [Cpu!Next]_(Cpu!vars) => [Cpu!Service!Next]_CpuMapped
  <2> SUFFICES ASSUME CpuInv, CpuInv', [Cpu!Next]_(Cpu!vars) PROVE Cpu!Service!Next \/ CpuMapped' = CpuMapped
    BY DEF Cpu!Service!Next
  <2>1. CpuMapped' \in [Cpu!Handles -> Cpu!Service!JobStates]
    <3>1. \A h \in Cpu!Handles : Cpu!JobState(h, next_handle', completed', returned') \in Cpu!Service!JobStates
      BY MappedTypes DEF CpuInv, Cpu!Service!JobStates
    <3> QED
      BY <3>1 DEF CpuMapped
  <2>2. ASSUME NEW status \in CpuStatuses, Cpu!submit(status) PROVE Cpu!Service!Submit
    BY <2>2, SubmitMaps DEF Cpu!Service!Submit, Cpu!Service!Settles, Cpu!Service!Handles, Cpu!Handles, CpuMapped, CpuStatuses
  <2>3. CASE Cpu!poll_completions
    <3>1. Cpu!Service!Poll
      BY <2>3, PollMaps DEF Cpu!Service!Poll, Cpu!Service!Returns, Cpu!Service!Handles, Cpu!Handles, CpuMapped
    <3> QED
      BY <3>1, <2>1 DEF Cpu!Service!Next, Cpu!Service!Handles, Cpu!Handles, CpuMapped
  <2>4. CASE Cpu!allocate_slots \/ UNCHANGED Cpu!vars
    BY <2>4 DEF Cpu!allocate_slots, Cpu!vars, CpuMapped
  <2>5. ASSUME NEW status \in CpuStatuses, Cpu!submit(status) PROVE Cpu!Service!Next
    BY <2>1, <2>2, <2>5 DEF Cpu!Service!Next, Cpu!Service!Handles, Cpu!Handles, CpuMapped
  <2> QED
    BY <2>3, <2>4, <2>5 DEF Cpu!Next, CpuStatuses
<1> QED
  BY <1>1, <1>2, CpuInvHolds, PTL DEF Cpu!Spec, Cpu!ImplementsJobService, Cpu!Service!Spec, CpuMapped
=============================================================================
