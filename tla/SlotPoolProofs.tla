--------------------------- MODULE SlotPoolProofs ---------------------------
(***************************************************************************)
(* Invariance proofs for SlotPool, for every number of threads, owners and *)
(* slots and every cap.  The inductive invariant is IInv; the parts        *)
(* FreeOrOwned and HeldWithinCap are inductive together (a claim needs to  *)
(* know that the slot it pops was unowned), NoLostWakeup needs TypeOK only.*)
(***************************************************************************)
EXTENDS SlotPool, FiniteSetTheorems, SequenceTheorems, TLAPS

PoolInv == FreeOrOwned /\ HeldWithinCap

IInv == TypeOK /\ PoolInv /\ NoLostWakeup

(* The slots are finitely many and there are Count of them. *)
LEMMA SlotsFinite == IsFiniteSet(Slots) /\ Cardinality(Slots) = Count
<1>1. Count - 1 \in Int /\ 0 \in Int
  BY PoolAssumption
<1>2. IsFiniteSet(0 .. (Count - 1)) /\ Cardinality(0 .. (Count - 1)) = IF 0 > Count - 1 THEN 0 ELSE (Count - 1) - 0 + 1
  BY <1>1, FS_Interval
<1> QED
  BY <1>2, PoolAssumption DEF Slots

(* Cap is a positive number whatever the constructor was given. *)
LEMMA CapPositive == Cap \in Nat /\ Cap > 0
  BY PoolAssumption DEF Cap

(* Giving an unowned slot to an owner adds exactly that slot to its set. *)
LEMMA OwnedAfterTake ==
    ASSUME TypeOK, NEW i \in Slots, NEW o \in Owners, owner_of[i] = NoOwner,
           owner_of' = [owner_of EXCEPT ![i] = o]
    PROVE  /\ Cardinality(OwnedBy(o)') = Cardinality(OwnedBy(o)) + 1
           /\ \A p \in Owners \ {o} : OwnedBy(p)' = OwnedBy(p)
<1>1. o # NoOwner
  BY PoolAssumption
<1>2. IsFiniteSet(OwnedBy(o))
  BY SlotsFinite, FS_Subset DEF OwnedBy
<1>3. OwnedBy(o)' = OwnedBy(o) \cup {i}
  BY DEF OwnedBy, TypeOK
<1>4. i \notin OwnedBy(o)
  BY <1>1 DEF OwnedBy
<1>5. Cardinality(OwnedBy(o) \cup {i}) = Cardinality(OwnedBy(o)) + 1
  BY <1>2, <1>4, FS_AddElement
<1>6. \A p \in Owners \ {o} : OwnedBy(p)' = OwnedBy(p)
  BY PoolAssumption DEF OwnedBy, TypeOK
<1> QED
  BY <1>3, <1>5, <1>6

(* Releasing a slot removes exactly that slot from its owner's set. *)
LEMMA OwnedAfterRelease ==
    ASSUME TypeOK, NEW i \in Slots, NEW o \in Owners, owner_of[i] = o,
           owner_of' = [owner_of EXCEPT ![i] = NoOwner]
    PROVE  /\ Cardinality(OwnedBy(o)') = Cardinality(OwnedBy(o)) - 1
           /\ \A p \in Owners \ {o} : OwnedBy(p)' = OwnedBy(p)
<1>1. o # NoOwner
  BY PoolAssumption
<1>2. IsFiniteSet(OwnedBy(o))
  BY SlotsFinite, FS_Subset DEF OwnedBy
<1>3. OwnedBy(o)' = OwnedBy(o) \ {i}
  BY <1>1 DEF OwnedBy, TypeOK
<1>4. i \in OwnedBy(o)
  BY DEF OwnedBy
<1>5. Cardinality(OwnedBy(o) \ {i}) = Cardinality(OwnedBy(o)) - 1
  BY <1>2, <1>4, FS_RemoveElement
<1>6. \A p \in Owners \ {o} : OwnedBy(p)' = OwnedBy(p)
  BY PoolAssumption DEF OwnedBy, TypeOK
<1> QED
  BY <1>3, <1>5, <1>6

(* The constructor establishes the invariant. *)
LEMMA InitIInv == Init => IInv
<1> SUFFICES ASSUME Init PROVE IInv
  OBVIOUS
<1> USE PoolAssumption
<1>1. TypeOK
  <2>1. free_list \in [1 .. Count -> Slots]
    BY DEF Init, Slots
  <2>2. free_list \in Seq(Slots)
    BY <2>1
  <2> QED
    BY <2>2 DEF Init, TypeOK, States, Threads
<1>2. FreeOrOwned
  <2>1. Len(free_list) = Count
    BY DEF Init
  <2>2. \A j, k \in 1 .. Len(free_list) : free_list[j] = free_list[k] => j = k
    BY <2>1 DEF Init
  <2>3. \A i \in Slots : \E k \in 1 .. Len(free_list) : free_list[k] = i
    <3> TAKE i \in Slots
    <3>1. (Count - i) \in 1 .. Count /\ free_list[Count - i] = i
      BY DEF Init, Slots
    <3> QED
      BY <3>1, <2>1
  <2> QED
    BY <2>2, <2>3 DEF FreeOrOwned, Init
<1>3. HeldWithinCap
  <2> SUFFICES ASSUME NEW o \in Owners PROVE held[o] = Cardinality(OwnedBy(o)) /\ held[o] <= Cap
    BY DEF HeldWithinCap
  <2>1. OwnedBy(o) = {}
    BY DEF OwnedBy, Init
  <2> QED
    BY <2>1, FS_EmptySet, CapPositive DEF Init
<1>4. NoLostWakeup
  BY DEF NoLostWakeup, Init, Threads
<1> QED
  BY <1>1, <1>2, <1>3, <1>4 DEF IInv, PoolInv

(* A step that takes a slot keeps the pool consistent. *)
LEMMA TakeStep ==
    ASSUME TypeOK, PoolInv, NEW t \in Claimers, can_claim(OwnerOf[t]), Take(t)
    PROVE  TypeOK' /\ PoolInv'
<1> USE PoolAssumption
<1> DEFINE n == Len(free_list)
           index == free_list[n]
           o == OwnerOf[t]
<1>1. n \in Nat /\ n > 0 /\ index \in Slots
  BY DEF TypeOK, can_claim
<1>2. owner_of[index] = NoOwner
  BY <1>1 DEF PoolInv, FreeOrOwned
<1>3. o \in Owners
  OBVIOUS
<1>4. /\ free_list' = SubSeq(free_list, 1, n - 1)
      /\ owner_of' = [owner_of EXCEPT ![index] = o]
      /\ held' = [held EXCEPT ![o] = @ + 1]
      /\ pc' = [pc EXCEPT ![t] = "idle"]
      /\ closed' = closed
  BY DEF Take
<1>5. /\ free_list' \in Seq(Slots)
      /\ Len(free_list') = n - 1
      /\ \A k \in 1 .. (n - 1) : free_list'[k] = free_list[k]
  <2>1. \A k \in 1 .. (n - 1) : free_list[k] \in Slots
    BY <1>1 DEF TypeOK
  <2>2. 1 \in Int /\ (n - 1) \in Int
    BY <1>1
  <2>3. /\ SubSeq(free_list, 1, n - 1) \in Seq(Slots)
        /\ Len(SubSeq(free_list, 1, n - 1)) = IF 1 <= n - 1 THEN (n - 1) - 1 + 1 ELSE 0
        /\ \A i \in 1 .. (n - 1) - 1 + 1 : SubSeq(free_list, 1, n - 1)[i] = free_list[1 + i - 1]
    BY <2>1, <2>2, SubSeqProperties
  <2>4. Len(free_list') = n - 1
    <3> HIDE DEF n
    <3>1. (IF 1 <= n - 1 THEN (n - 1) - 1 + 1 ELSE 0) = n - 1
      BY <1>1
    <3>2. Len(SubSeq(free_list, 1, n - 1)) = n - 1
      BY <2>3, <3>1
    <3> QED
      BY <1>4, <3>2, Zenon
  <2>5. ASSUME NEW k \in 1 .. (n - 1) PROVE free_list'[k] = free_list[k]
    <3>1. (n - 1) - 1 + 1 = n - 1 /\ 1 + k - 1 = k
      BY <1>1
    <3>2. SubSeq(free_list, 1, n - 1)[k] = free_list[k]
      BY <2>3, <3>1
    <3> QED
      BY <3>2, <1>4
  <2> QED
    BY <1>4, <2>3, <2>4, <2>5
<1>6. TypeOK'
  BY <1>1, <1>3, <1>4, <1>5 DEF TypeOK, States, Threads
<1>7. FreeOrOwned'
  <2>1. \A j, k \in 1 .. Len(free_list') : free_list'[j] = free_list'[k] => j = k
    BY <1>1, <1>5 DEF PoolInv, FreeOrOwned
  <2>2. ASSUME NEW i \in Slots
        PROVE  (owner_of'[i] = NoOwner) <=> \E k \in 1 .. Len(free_list') : free_list'[k] = i
    <3>1. CASE i = index
      <4>1. owner_of'[i] # NoOwner
        BY <1>3, <1>4, <1>1, <3>1 DEF TypeOK
      <4>2. \A k \in 1 .. (n - 1) : free_list'[k] # i
        BY <1>1, <1>5, <3>1 DEF PoolInv, FreeOrOwned
      <4> QED
        BY <4>1, <4>2, <1>5
    <3>2. CASE i # index
      <4>1. owner_of'[i] = owner_of[i]
        BY <1>4, <3>2, <1>1 DEF TypeOK
      <4>2. (\E k \in 1 .. n : free_list[k] = i) <=> \E k \in 1 .. (n - 1) : free_list'[k] = i
        BY <1>1, <1>5, <3>2
      <4> QED
        BY <4>1, <4>2, <1>5 DEF PoolInv, FreeOrOwned
    <3> QED
      BY <3>1, <3>2
  <2> QED
    BY <2>1, <2>2 DEF FreeOrOwned
<1>8. HeldWithinCap'
  <2>1. /\ Cardinality(OwnedBy(o)') = Cardinality(OwnedBy(o)) + 1
        /\ \A p \in Owners \ {o} : OwnedBy(p)' = OwnedBy(p)
    BY <1>1, <1>2, <1>3, <1>4, OwnedAfterTake
  <2>2. held[o] < Cap
    BY DEF can_claim
  <2> SUFFICES ASSUME NEW p \in Owners PROVE held'[p] = Cardinality(OwnedBy(p)') /\ held'[p] <= Cap
    BY DEF HeldWithinCap, OwnedBy, Cap
  <2>3. CASE p = o
    BY <2>1, <2>2, <2>3, <1>4, CapPositive DEF TypeOK, PoolInv, HeldWithinCap
  <2>4. CASE p # o
    BY <2>1, <2>4, <1>4 DEF TypeOK, PoolInv, HeldWithinCap
  <2> QED
    BY <2>3, <2>4
<1> QED
  BY <1>6, <1>7, <1>8 DEF PoolInv

(* A release keeps the pool consistent. *)
LEMMA ReleaseStep ==
    ASSUME TypeOK, PoolInv, NEW t \in Threads, NEW index \in Slots, release(t, index)
    PROVE  TypeOK' /\ PoolInv'
<1> USE PoolAssumption
<1> DEFINE n == Len(free_list)
<1>0. PICK o \in Owners : o = owner_of[index]
  BY DEF release, TypeOK
<1>1. o \in Owners /\ o # NoOwner /\ owner_of[index] = o
  BY <1>0
<1>2. /\ free_list' = Append(free_list, index)
      /\ owner_of' = [owner_of EXCEPT ![index] = NoOwner]
      /\ held' = [held EXCEPT ![o] = @ - 1]
      /\ pc' = [pc EXCEPT ![t] = "notify"]
      /\ closed' = closed
  BY <1>1 DEF release
<1>3. /\ n \in Nat
      /\ free_list' \in Seq(Slots)
      /\ Len(free_list') = n + 1
      /\ \A k \in 1 .. n : free_list'[k] = free_list[k]
      /\ free_list'[n + 1] = index
  BY <1>2 DEF TypeOK
<1>4. \A k \in 1 .. n : free_list[k] # index
  BY <1>1 DEF PoolInv, FreeOrOwned
<1>5. /\ Cardinality(OwnedBy(o)') = Cardinality(OwnedBy(o)) - 1
      /\ \A p \in Owners \ {o} : OwnedBy(p)' = OwnedBy(p)
  BY <1>1, <1>2, OwnedAfterRelease
<1>6. HeldWithinCap'
  <2> SUFFICES ASSUME NEW p \in Owners PROVE held'[p] = Cardinality(OwnedBy(p)') /\ held'[p] <= Cap
    BY DEF HeldWithinCap, OwnedBy, Cap
  <2>1. CASE p = o
    BY <2>1, <1>2, <1>5, CapPositive DEF TypeOK, PoolInv, HeldWithinCap
  <2>2. CASE p # o
    BY <2>2, <1>2, <1>5, <1>1 DEF TypeOK, PoolInv, HeldWithinCap
  <2> QED
    BY <2>1, <2>2
<1>7. held[o] > 0
  <2>1. index \in OwnedBy(o) /\ IsFiniteSet(OwnedBy(o))
    BY <1>1, SlotsFinite, FS_Subset DEF OwnedBy
  <2>2. Cardinality(OwnedBy(o)) \in Nat /\ Cardinality(OwnedBy(o)) # 0
    BY <2>1, FS_EmptySet, FS_CardinalityType
  <2> QED
    BY <2>2, <1>1 DEF PoolInv, HeldWithinCap
<1>8. TypeOK'
  BY <1>1, <1>2, <1>3, <1>7 DEF TypeOK, States, Threads
<1>9. FreeOrOwned'
  <2>1. \A j, k \in 1 .. Len(free_list') : free_list'[j] = free_list'[k] => j = k
    BY <1>3, <1>4 DEF PoolInv, FreeOrOwned
  <2>2. ASSUME NEW i \in Slots
        PROVE  (owner_of'[i] = NoOwner) <=> \E k \in 1 .. Len(free_list') : free_list'[k] = i
    <3>1. CASE i = index
      BY <3>1, <1>2, <1>3 DEF TypeOK
    <3>2. CASE i # index
      <4>1. owner_of'[i] = owner_of[i]
        BY <1>2, <3>2 DEF TypeOK
      <4>2. (\E k \in 1 .. n : free_list[k] = i) <=> \E k \in 1 .. (n + 1) : free_list'[k] = i
        BY <1>3, <3>2
      <4> QED
        BY <4>1, <4>2, <1>3 DEF PoolInv, FreeOrOwned
    <3> QED
      BY <3>1, <3>2
  <2> QED
    BY <2>1, <2>2 DEF FreeOrOwned
<1> QED
  BY <1>6, <1>8, <1>9 DEF PoolInv

(* A step that changes nothing but program counters and `closed` keeps the *)
(* pool consistent.                                                        *)
LEMMA PoolUnchanged ==
    ASSUME PoolInv, UNCHANGED <<free_list, owner_of, held>>
    PROVE  PoolInv'
  BY DEF PoolInv, FreeOrOwned, HeldWithinCap, OwnedBy

(* claim() with the mutex held preserves the whole invariant, on its first *)
(* evaluation of the predicate and on every later one.                     *)
LEMMA ClaimBodyStep ==
    ASSUME IInv, NEW t \in Claimers, pc[t] \in {"idle", "woken"}, ClaimBody(t)
    PROVE  IInv'
<1> USE PoolAssumption
<1>1. TypeOK /\ PoolInv /\ NoLostWakeup /\ t \in Threads
  BY DEF IInv, Threads
<1>2. CASE closed /\ pc' = [pc EXCEPT ![t] = "idle"] /\ UNCHANGED <<free_list, owner_of, held, closed>>
  <2>1. TypeOK'
    BY <1>1, <1>2 DEF TypeOK, States, Threads
  <2>2. NoLostWakeup'
    BY <1>1, <1>2 DEF TypeOK, States, Threads, NoLostWakeup, can_claim
  <2> QED
    BY <1>1, <1>2, <2>1, <2>2, PoolUnchanged DEF IInv
<1>3. CASE ~closed /\ can_claim(OwnerOf[t]) /\ Take(t)
  <2>1. TypeOK' /\ PoolInv'
    BY <1>1, <1>3, TakeStep
  <2>2. \A u \in Claimers \ {t} : pc'[u] = pc[u]
    BY <1>1, <1>3 DEF Take, TypeOK, Threads
  <2>3. \A o \in Owners : can_claim(o)' => can_claim(o)
    <3>1. \A o \in Owners : held'[o] >= held[o]
      BY <1>1, <1>3 DEF Take, TypeOK
    <3> QED
      BY <1>1, <1>3, <2>1, <3>1, CapPositive DEF can_claim, TypeOK, Cap
  <2>4. closed' = closed /\ pc'[t] = "idle" /\ \A u \in Threads : pc[u] = "notify" => pc'[u] = "notify"
    BY <1>1, <1>3 DEF Take, TypeOK
  <2>5. NoLostWakeup'
    BY <1>1, <2>2, <2>3, <2>4 DEF NoLostWakeup
  <2> QED
    BY <2>1, <2>5 DEF IInv
<1>4. CASE ~closed /\ ~can_claim(OwnerOf[t]) /\ pc' = [pc EXCEPT ![t] = "asleep"] /\ UNCHANGED <<free_list, owner_of, held, closed>>
  <2>1. TypeOK'
    BY <1>1, <1>4 DEF TypeOK, States, Threads
  <2>2. NoLostWakeup'
    BY <1>1, <1>4 DEF TypeOK, States, Threads, NoLostWakeup, can_claim
  <2> QED
    BY <1>1, <1>4, <2>1, <2>2, PoolUnchanged DEF IInv
<1> QED
  BY <1>2, <1>3, <1>4 DEF ClaimBody

(* Every step, and stuttering, preserves the invariant. *)
LEMMA NextIInv == IInv /\ [Next]_vars => IInv'
<1> SUFFICES ASSUME IInv, [Next]_vars PROVE IInv'
  OBVIOUS
<1> USE PoolAssumption
<1>0. TypeOK /\ PoolInv /\ NoLostWakeup
  BY DEF IInv
<1>1. CASE UNCHANGED vars
  <2>1. TypeOK' /\ NoLostWakeup'
    BY <1>0, <1>1 DEF vars, TypeOK, NoLostWakeup, can_claim
  <2> QED
    BY <1>0, <1>1, <2>1, PoolUnchanged DEF IInv, vars
<1>2. ASSUME NEW t \in Threads, claim(t) PROVE IInv'
  BY <1>2, ClaimBodyStep DEF claim
<1>3. ASSUME NEW t \in Threads, Resume(t) PROVE IInv'
  <2>1. t \in Claimers
    BY <1>0, <1>3 DEF Resume, TypeOK, Threads
  <2> QED
    BY <1>3, <2>1, ClaimBodyStep DEF Resume
<1>4. ASSUME NEW t \in Threads, SpuriousWake(t) PROVE IInv'
  <2>1. TypeOK'
    BY <1>0, <1>4 DEF SpuriousWake, TypeOK, States
  <2>2. NoLostWakeup'
    BY <1>0, <1>4 DEF SpuriousWake, TypeOK, NoLostWakeup, can_claim, Threads
  <2> QED
    BY <1>0, <1>4, <2>1, <2>2, PoolUnchanged DEF IInv, SpuriousWake
<1>5. ASSUME NEW t \in Threads, NEW index \in Slots, release(t, index) PROVE IInv'
  <2>1. TypeOK' /\ PoolInv'
    BY <1>0, <1>5, ReleaseStep
  <2>2. pc'[t] = "notify"
    BY <1>0, <1>5 DEF release, TypeOK
  <2> QED
    BY <2>1, <2>2 DEF IInv, NoLostWakeup
<1>6. ASSUME NEW t \in Threads, close(t) PROVE IInv'
  <2>1. TypeOK' /\ pc'[t] = "notify"
    BY <1>0, <1>6 DEF close, TypeOK, States
  <2> QED
    BY <1>0, <1>6, <2>1, PoolUnchanged DEF IInv, NoLostWakeup, close
<1>7. ASSUME NEW t \in Threads, NotifyAll(t) PROVE IInv'
  <2>1. TypeOK'
    BY <1>0, <1>7 DEF NotifyAll, TypeOK, States, Threads
  <2>2. \A u \in Claimers : pc'[u] # "asleep"
    BY <1>0, <1>7 DEF NotifyAll, TypeOK, Threads
  <2> QED
    BY <1>0, <1>7, <2>1, <2>2, PoolUnchanged DEF IInv, NoLostWakeup, NotifyAll
<1> QED
  BY <1>1, <1>2, <1>3, <1>4, <1>5, <1>6, <1>7 DEF Next

(* The invariant holds in every reachable state. *)
THEOREM PoolInvariance == Spec => []IInv
  BY InitIInv, NextIInv, PTL DEF Spec

(* The free list, the owner table and the per-owner counters stay within   *)
(* their types.                                                            *)
THEOREM TypeCorrect == Spec => []TypeOK
<1>1. IInv => TypeOK
  BY DEF IInv
<1> QED
  BY <1>1, PoolInvariance, PTL

(* A slot is never free and owned at once, nor free twice: claim() cannot  *)
(* hand out a slot that still holds somebody's frame.                      *)
THEOREM NoSlotSharedOrLost == Spec => []FreeOrOwned
<1>1. IInv => FreeOrOwned
  BY DEF IInv, PoolInv
<1> QED
  BY <1>1, PoolInvariance, PTL

(* The cap of slots per connection holds under every interleaving. *)
THEOREM CapHolds == Spec => []HeldWithinCap
<1>1. IInv => HeldWithinCap
  BY DEF IInv, PoolInv
<1> QED
  BY <1>1, PoolInvariance, PTL

(* notify_all after the unlock loses no wakeup, whatever the caps are. *)
THEOREM WakeupsNotLost == Spec => []NoLostWakeup
<1>1. IInv => NoLostWakeup
  BY DEF IInv
<1> QED
  BY <1>1, PoolInvariance, PTL

(* If one owner holds every claimed slot and the cap is below the pool     *)
(* size, the free list is not empty and the others are below their cap.    *)
LEMMA LoudOwnerLeavesRoom == IInv => LoudOwnerCannotStarve
<1> SUFFICES ASSUME IInv, Cap < Count, NEW loud \in Owners,
                    \A i \in Slots : owner_of[i] \in {NoOwner, loud},
                    NEW o \in Owners \ {loud}
             PROVE  can_claim(o)
  BY DEF LoudOwnerCannotStarve
<1> USE PoolAssumption
<1>1. OwnedBy(o) = {}
  BY DEF OwnedBy
<1>2. held[o] = 0
  BY <1>1, FS_EmptySet DEF IInv, PoolInv, HeldWithinCap
<1>3. free_list # <<>>
  <2> SUFFICES ASSUME free_list = <<>> PROVE FALSE
    OBVIOUS
  <2>1. \A i \in Slots : owner_of[i] = loud
    BY DEF IInv, PoolInv, FreeOrOwned
  <2>2. OwnedBy(loud) = Slots
    BY <2>1 DEF OwnedBy
  <2>3. held[loud] = Count
    BY <2>2, SlotsFinite DEF IInv, PoolInv, HeldWithinCap
  <2> QED
    BY <2>3, CapPositive DEF IInv, PoolInv, HeldWithinCap
<1> QED
  BY <1>2, <1>3, CapPositive DEF can_claim

(* slot_pool.h's promise: one loud connection cannot starve the others.    *)
THEOREM LoudOwnerHarmless == Spec => []LoudOwnerCannotStarve
  BY LoudOwnerLeavesRoom, PoolInvariance, PTL
=============================================================================
