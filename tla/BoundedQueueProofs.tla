------------------------- MODULE BoundedQueueProofs -------------------------
(***************************************************************************)
(* Invariance proofs for BoundedQueue, for every number of producers and   *)
(* consumers, every capacity and every number of pushes.                   *)
(*                                                                         *)
(* The inductive invariant IInv is the typing (which thread can be in      *)
(* which state, a capacity of at least one), WithinCapacity,               *)
(* SleepersCovered and NothingLostOrReordered.  The counting argument      *)
(* needs WithinCapacity: a producer goes to sleep only when no place is    *)
(* free.                                                                   *)
(***************************************************************************)
EXTENDS BoundedQueue, FiniteSetTheorems, SequenceTheorems, TLAPS

Values == Producers \X Nat

QueueThreadStates == {"idle", "asleep", "woken", "notify", "finished"}
CloserStates == {"idle", "notify_not_empty", "notify_not_full", "finished"}

(* The types of the variables; only close() runs on the closer. *)
TypeOK ==
    /\ capacity_ \in Nat \ {0}
    /\ depths \subseteq Nat
    /\ items \in Seq(Values)
    /\ received \in Seq(Values)
    /\ high_water \in Nat
    /\ closed \in BOOLEAN
    /\ pushed \in [Producers -> Nat]
    /\ pc \in [Threads -> States]
    /\ \A t \in Producers \cup Consumers : pc[t] \in QueueThreadStates
    /\ pc[Closer] \in CloserStates

(* The two counts of SleepersAreAnnounced; that some notification is due   *)
(* on an empty queue follows from them, the capacity being positive.       *)
SleepersCovered ==
    /\ (In(Producers, "asleep") # {} /\ ~closed) =>
          capacity_ - Len(items) <= Cardinality(In(Consumers, "notify")) + Cardinality(In(Producers, "woken"))
    /\ (In(Consumers, "asleep") # {} /\ ~closed) =>
          Len(items) <= Cardinality(In(Producers, "notify")) + Cardinality(In(Consumers, "woken"))

(* close() has set the flag before it notifies anybody. *)
ClosedFirst == pc[Closer] # "idle" => closed

IInv == TypeOK /\ WithinCapacity /\ SleepersCovered /\ NothingLostOrReordered

(* The constructor's capacity is at least one. *)
LEMMA CapPositive == TypeOK => capacity_ \in Nat /\ capacity_ > 0
  BY DEF TypeOK

----------------------------------------------------------------------------
(* Counting threads                                                        *)

(* The number of threads in a state is a natural number. *)
LEMMA CountType ==
    ASSUME NEW S, IsFiniteSet(S), NEW q
    PROVE  /\ IsFiniteSet(In(S, q)) /\ Cardinality(In(S, q)) \in Nat
           /\ IsFiniteSet(In(S, q)') /\ Cardinality(In(S, q)') \in Nat
<1>1. In(S, q) \subseteq S /\ In(S, q)' \subseteq S
  BY DEF In
<1> QED
  BY <1>1, FS_Subset, FS_CardinalityType

(* A thread of S that enters state q from another one, while the rest of S *)
(* stays where it is, adds one to the count.                               *)
LEMMA CountEnter ==
    ASSUME NEW S, IsFiniteSet(S), NEW t \in S, NEW q, pc[t] # q, pc'[t] = q,
           \A u \in S : u # t => pc'[u] = pc[u]
    PROVE  Cardinality(In(S, q)') = Cardinality(In(S, q)) + 1
<1>1. In(S, q)' = In(S, q) \cup {t} /\ t \notin In(S, q)
  BY DEF In
<1> QED
  BY <1>1, CountType, FS_AddElement

(* A thread of S that leaves state q takes one from the count. *)
LEMMA CountLeave ==
    ASSUME NEW S, IsFiniteSet(S), NEW t \in S, NEW q, pc[t] = q, pc'[t] # q,
           \A u \in S : u # t => pc'[u] = pc[u]
    PROVE  Cardinality(In(S, q)') = Cardinality(In(S, q)) - 1
<1>1. In(S, q)' = In(S, q) \ {t} /\ t \in In(S, q)
  BY DEF In
<1> QED
  BY <1>1, CountType, FS_RemoveElement

(* A thread that neither enters nor leaves q does not change who is there. *)
LEMMA CountSame ==
    ASSUME NEW S, NEW t, NEW q, pc[t] # q, pc'[t] # q, \A u \in S : u # t => pc'[u] = pc[u]
    PROVE  In(S, q)' = In(S, q)
  BY DEF In

----------------------------------------------------------------------------
(* The initial state                                                       *)

(* The constructor establishes the invariant. *)
LEMMA InitIInv == Init => IInv
<1> SUFFICES ASSUME Init PROVE IInv
  OBVIOUS
<1> USE QueueAssumption
<1>1. TypeOK
  <2>1. items \in Seq(Values) /\ received \in Seq(Values)
    BY EmptySeq DEF Init
  <2>2. pc \in [Threads -> States] /\ \A t \in Threads : pc[t] = "idle"
    BY DEF Init, States
  <2>3. pushed \in [Producers -> Nat] /\ high_water \in Nat /\ closed \in BOOLEAN
    BY DEF Init
  <2>4. capacity_ \in Nat \ {0} /\ depths \subseteq Nat
    BY DEF Init, BoundedQueue
  <2> QED
    BY <2>1, <2>2, <2>3, <2>4 DEF TypeOK, Threads, QueueThreadStates, CloserStates
<1>2. WithinCapacity
  <2>1. Len(items) = 0 /\ high_water = 0 /\ depths = {0}
    BY EmptySeq DEF Init
  <2> QED
    BY <1>1, <2>1, CapPositive DEF WithinCapacity
<1>3. SleepersCovered
  <2>1. In(Producers, "asleep") = {} /\ In(Consumers, "asleep") = {}
    BY DEF Init, In, Threads
  <2> QED
    BY <2>1 DEF SleepersCovered
<1>4. NothingLostOrReordered
  <2>1. Accepted = <<>>
    BY DEF Init, Accepted
  <2>2. Len(Accepted) = 0
    BY <2>1
  <2>3. \A p \in Producers : pushed[p] = 0
    BY DEF Init
  <2>4. ~ \E c \in Consumers : pc[c] = "finished"
    BY DEF Init, Threads
  <2> QED
    BY <2>2, <2>3, <2>4 DEF NothingLostOrReordered
<1> QED
  BY <1>1, <1>2, <1>3, <1>4 DEF IInv
----------------------------------------------------------------------------
(* Steps                                                                   *)

(* Both kinds of waiters are finite sets of threads. *)
LEMMA Sides ==
    /\ IsFiniteSet(Producers) /\ Producers \subseteq Threads
    /\ IsFiniteSet(Consumers) /\ Consumers \subseteq Threads
    /\ Producers \cap Consumers = {} /\ Closer \in Threads
    /\ Closer \notin Producers /\ Closer \notin Consumers
  BY QueueAssumption DEF Threads

(* The numbers SleepersCovered adds up are natural numbers. *)
LEMMA CountsAreNat ==
    \A q : /\ Cardinality(In(Producers, q)) \in Nat /\ Cardinality(In(Consumers, q)) \in Nat
           /\ Cardinality(In(Producers, q)') \in Nat /\ Cardinality(In(Consumers, q)') \in Nat
  BY Sides, CountType

(* A push that the queue accepts appends one value to what was accepted.   *)
LEMMA AcceptedAfterPush ==
    ASSUME TypeOK, NEW v \in Values, items' = Append(items, v), received' = received
    PROVE  /\ Accepted' \in Seq(Values) /\ Len(Accepted') = Len(Accepted) + 1
           /\ \A k \in 1 .. Len(Accepted) : Accepted'[k] = Accepted[k]
           /\ Accepted'[Len(Accepted) + 1] = v
<1>1. items \in Seq(Values) /\ received \in Seq(Values) /\ <<v>> \in Seq(Values)
  BY DEF TypeOK
<1>2. items' = items \o <<v>>
  BY <1>1, AppendIsConcat
<1>3. Accepted' = Accepted \o <<v>>
  BY <1>1, <1>2, ConcatAssociative DEF Accepted
<1>4. Accepted \in Seq(Values)
  BY <1>1, ConcatProperties DEF Accepted
<1>5. Accepted' = Append(Accepted, v)
  BY <1>3, <1>4, AppendIsConcat
<1> QED
  BY <1>4, <1>5, AppendProperties

(* Handing the front item to a consumer changes nothing about what was     *)
(* accepted: it moves from the one part of the sequence to the other.      *)
LEMMA AcceptedAfterTake ==
    ASSUME TypeOK, items # <<>>, items' = Tail(items), received' = Append(received, Head(items))
    PROVE  Accepted' = Accepted
<1>1. items \in Seq(Values) /\ received \in Seq(Values)
  BY DEF TypeOK
<1>2. /\ Head(items) \in Values /\ Tail(items) \in Seq(Values)
      /\ Len(Tail(items)) = Len(items) - 1
      /\ \A i \in 1 .. Len(Tail(items)) : Tail(items)[i] = items[i + 1]
  BY <1>1, HeadTailProperties
<1>3. <<Head(items)>> \in Seq(Values) /\ Len(items) \in Nat \ {0}
  BY <1>1, <1>2, EmptySeq
<1>4. items = <<Head(items)>> \o Tail(items)
  <2>1. <<Head(items)>> \o Tail(items) \in Seq(Values)
    BY <1>2, <1>3, ConcatProperties
  <2>2. Len(<<Head(items)>> \o Tail(items)) = Len(items)
    BY <1>2, <1>3, ConcatProperties
  <2>3. \A i \in 1 .. Len(items) : (<<Head(items)>> \o Tail(items))[i] = items[i]
    BY <1>1, <1>2, <1>3
  <2> QED
    BY <1>1, <2>1, <2>2, <2>3, SeqEqual
<1>5. received' = received \o <<Head(items)>>
  BY <1>1, <1>2, AppendIsConcat
<1>6. (received \o <<Head(items)>>) \o Tail(items) = received \o (<<Head(items)>> \o Tail(items))
  BY <1>1, <1>2, <1>3, ConcatAssociative
<1> QED
  BY <1>4, <1>5, <1>6 DEF Accepted

(* A step that only moves threads between states keeps what is queued.     *)
LEMMA HistoryUnchanged ==
    ASSUME NothingLostOrReordered, UNCHANGED <<items, received, pushed>>,
           (\E c \in Consumers : pc'[c] = "finished") => closed' /\ items = <<>>
    PROVE  NothingLostOrReordered'
<1>1. Accepted' = Accepted
  BY DEF Accepted
<1> QED
  BY <1>1 DEF NothingLostOrReordered

(* push() with the mutex held: refused, accepted or asleep.                *)
LEMMA PushStep ==
    ASSUME IInv, NEW p \in Producers, pc[p] \in {"idle", "woken"}, PushBody(p)
    PROVE  IInv'
<1> USE Sides, CapPositive DEF IInv
<1> DEFINE pn == Cardinality(In(Producers, "notify"))
           pw == Cardinality(In(Producers, "woken"))
           cn == Cardinality(In(Consumers, "notify"))
           cw == Cardinality(In(Consumers, "woken"))
<1>0. pn \in Nat /\ pw \in Nat /\ cn \in Nat /\ cw \in Nat /\ Len(items) \in Nat
  BY CountsAreNat, LenProperties DEF TypeOK
<1>a. \A r \in QueueThreadStates : pc' = [pc EXCEPT ![p] = r] =>
        /\ pc' \in [Threads -> States]
        /\ \A t \in Producers \cup Consumers : pc'[t] \in QueueThreadStates
        /\ pc'[Closer] \in CloserStates
        /\ \A c \in Consumers : pc'[c] = pc[c]
        /\ pc'[p] = r /\ \A u \in Producers : u # p => pc'[u] = pc[u]
        /\ \A q : In(Consumers, q)' = In(Consumers, q)
  BY DEF TypeOK, Threads, States, QueueThreadStates, In
<1>1. CASE /\ closed
           /\ pc' = [pc EXCEPT ![p] = "finished"]
           /\ UNCHANGED <<capacity_, items, high_water, closed, pushed, received, depths>>
  <2>1. TypeOK'
    BY <1>1, <1>a DEF TypeOK, QueueThreadStates
  <2>2. WithinCapacity' /\ SleepersCovered'
    BY <1>1 DEF WithinCapacity, SleepersCovered
  <2>3. NothingLostOrReordered'
    BY <1>1, <1>a, HistoryUnchanged DEF NothingLostOrReordered, QueueThreadStates
  <2> QED
    BY <2>1, <2>2, <2>3
<1>2. CASE /\ ~closed /\ Len(items) < capacity_
           /\ pushed' = [pushed EXCEPT ![p] = @ + 1]
           /\ items' = Append(items, <<p, pushed'[p]>>)
           /\ high_water' = IF Len(items') > high_water THEN Len(items') ELSE high_water
           /\ depths' = depths \cup {Len(items')}
           /\ pc' = [pc EXCEPT ![p] = "notify"]
           /\ UNCHANGED <<capacity_, closed, received>>
  <2>1. /\ pushed[p] \in Nat /\ pushed'[p] = pushed[p] + 1
        /\ pushed' \in [Producers -> Nat]
        /\ \A x \in Producers : x # p => pushed'[x] = pushed[x]
    BY <1>2 DEF TypeOK
  <2>2. <<p, pushed'[p]>> \in Values
    BY <2>1 DEF Values
  <2>3. items' \in Seq(Values) /\ Len(items') = Len(items) + 1
    BY <1>2, <2>2, AppendProperties DEF TypeOK
  <2>b. Len(items') \in Nat /\ Len(items') <= capacity_
    BY <1>0, <1>2, <2>3, CapPositive
  <2>4. TypeOK'
    <3>1. capacity_' \in Nat \ {0} /\ depths' \subseteq Nat /\ high_water' \in Nat
      BY <1>2, <2>b DEF TypeOK
    <3> QED
      BY <1>2, <1>a, <2>1, <2>3, <3>1 DEF TypeOK, QueueThreadStates
  <2>5. WithinCapacity'
    <3>1. \A d \in depths : d \in Nat /\ d <= high_water
      BY DEF WithinCapacity, TypeOK
    <3>2. high_water \in Nat /\ high_water <= capacity_ /\ capacity_' = capacity_
      BY <1>2 DEF WithinCapacity, TypeOK
    <3>3. CASE Len(items') > high_water
      BY <1>2, <2>b, <3>1, <3>2, <3>3 DEF WithinCapacity
    <3>4. CASE ~(Len(items') > high_water)
      BY <1>2, <2>b, <3>1, <3>2, <3>4 DEF WithinCapacity
    <3> QED
      BY <3>3, <3>4
  <2>6. Cardinality(In(Producers, "notify")') = pn + 1
    BY <1>2, <1>a, CountEnter DEF QueueThreadStates
  <2>7. Cardinality(In(Producers, "woken")') >= pw - 1
    <3>1. CASE pc[p] = "woken"
      BY <1>0, <1>2, <1>a, <3>1, CountLeave DEF QueueThreadStates
    <3>2. CASE pc[p] = "idle"
      BY <1>0, <1>2, <1>a, <3>2, CountSame DEF QueueThreadStates
    <3> QED
      BY <3>1, <3>2
  <2>8. In(Producers, "asleep")' = In(Producers, "asleep")
    BY <1>2, <1>a, CountSame DEF QueueThreadStates
  <2>9. \A q : In(Consumers, q)' = In(Consumers, q)
    BY <1>2, <1>a DEF QueueThreadStates
  <2>10. Cardinality(In(Producers, "woken")') \in Nat
    BY CountsAreNat
  <2>11. SleepersCovered'
    <3>1. (In(Producers, "asleep")' # {} /\ ~closed') =>
             capacity_' - Len(items') <= Cardinality(In(Consumers, "notify")') + Cardinality(In(Producers, "woken")')
      BY <1>0, <1>2, <2>3, <2>7, <2>8, <2>9, <2>10 DEF SleepersCovered
    <3>2. (In(Consumers, "asleep")' # {} /\ ~closed') =>
             Len(items') <= Cardinality(In(Producers, "notify")') + Cardinality(In(Consumers, "woken")')
      BY <1>0, <1>2, <2>3, <2>6, <2>9 DEF SleepersCovered
    <3> QED
      BY <3>1, <3>2 DEF SleepersCovered
  <2>12. NothingLostOrReordered'
    <3> DEFINE n == Len(Accepted)
    <3>1. Accepted \in Seq(Values) /\ n \in Nat
      BY ConcatProperties DEF Accepted, TypeOK
    <3>2. /\ Len(Accepted') = n + 1
          /\ \A k \in 1 .. n : Accepted'[k] = Accepted[k]
          /\ Accepted'[n + 1] = <<p, pushed[p] + 1>>
      BY <1>2, <2>1, <2>2, AcceptedAfterPush
    <3> HIDE DEF n
    <3>3. \A x \in Producers : \A m \in 1 .. pushed'[x] : \E k \in 1 .. Len(Accepted') : Accepted'[k] = <<x, m>>
      <4> SUFFICES ASSUME NEW x \in Producers, NEW m \in 1 .. pushed'[x]
                   PROVE  \E k \in 1 .. (n + 1) : Accepted'[k] = <<x, m>>
        BY <3>2
      <4>1. CASE x = p /\ m = pushed[p] + 1
        BY <3>1, <3>2, <4>1
      <4>2. CASE ~(x = p /\ m = pushed[p] + 1)
        <5>1. m \in 1 .. pushed[x]
          BY <2>1, <4>2
        <5>2. \E k \in 1 .. n : Accepted[k] = <<x, m>>
          BY <5>1 DEF NothingLostOrReordered, n
        <5> QED
          BY <3>1, <3>2, <5>2
      <4> QED
        BY <4>1, <4>2
    <3>4. \A k \in 1 .. Len(Accepted') : \E x \in Producers : \E m \in 1 .. pushed'[x] : Accepted'[k] = <<x, m>>
      <4> SUFFICES ASSUME NEW k \in 1 .. (n + 1)
                   PROVE  \E x \in Producers : \E m \in 1 .. pushed'[x] : Accepted'[k] = <<x, m>>
        BY <3>2
      <4>1. CASE k = n + 1
        BY <2>1, <3>2, <4>1
      <4>2. CASE k # n + 1
        <5>1. k \in 1 .. n
          BY <3>1, <4>2
        <5>2. PICK x \in Producers : \E m \in 1 .. pushed[x] : Accepted[k] = <<x, m>>
          BY <5>1 DEF NothingLostOrReordered, n
        <5>3. PICK m \in 1 .. pushed[x] : Accepted[k] = <<x, m>>
          BY <5>2
        <5>4. m \in 1 .. pushed'[x]
          BY <2>1
        <5> QED
          BY <3>2, <5>1, <5>3, <5>4
      <4> QED
        BY <4>1, <4>2
    <3>5. ASSUME NEW j \in 1 .. (n + 1), NEW k \in 1 .. (n + 1), j < k, Accepted'[j][1] = Accepted'[k][1]
          PROVE  Accepted'[j][2] < Accepted'[k][2]
      <4>1. j \in 1 .. n /\ Accepted'[j] = Accepted[j]
        BY <3>1, <3>2, <3>5
      <4>2. CASE k = n + 1
        <5>1. PICK x \in Producers : \E m \in 1 .. pushed[x] : Accepted[j] = <<x, m>>
          BY <4>1 DEF NothingLostOrReordered, n
        <5>2. PICK m \in 1 .. pushed[x] : Accepted[j] = <<x, m>>
          BY <5>1
        <5>3. x = p
          BY <3>2, <3>5, <4>1, <4>2, <5>2
        <5> QED
          BY <2>1, <3>2, <4>1, <4>2, <5>2, <5>3
      <4>3. CASE k # n + 1
        <5>1. k \in 1 .. n /\ Accepted'[k] = Accepted[k]
          BY <3>1, <3>2, <4>3
        <5> QED
          BY <3>5, <4>1, <5>1 DEF NothingLostOrReordered, n
      <4> QED
        BY <4>2, <4>3
    <3>6. ~ \E c \in Consumers : pc'[c] = "finished"
      BY <1>2, <1>a DEF NothingLostOrReordered, QueueThreadStates
    <3> QED
      BY <3>2, <3>3, <3>4, <3>5, <3>6 DEF NothingLostOrReordered
  <2> QED
    BY <2>4, <2>5, <2>11, <2>12
<1>3. CASE /\ ~closed /\ ~(Len(items) < capacity_)
           /\ pc' = [pc EXCEPT ![p] = "asleep"]
           /\ UNCHANGED <<capacity_, items, high_water, closed, pushed, received, depths>>
  <2>1. TypeOK'
    BY <1>3, <1>a DEF TypeOK, QueueThreadStates
  <2>2. WithinCapacity'
    BY <1>3 DEF WithinCapacity
  <2>3. SleepersCovered'
    <3>1. capacity_' - Len(items') = 0
      <4>1. Len(items) <= high_water /\ high_water <= capacity_
        BY DEF WithinCapacity
      <4> QED
        BY <1>0, <1>3, <4>1 DEF TypeOK
    <3>2. In(Producers, "notify")' = In(Producers, "notify")
      BY <1>3, <1>a, CountSame DEF QueueThreadStates
    <3>3. \A q : In(Consumers, q)' = In(Consumers, q)
      BY <1>3, <1>a DEF QueueThreadStates
    <3>4. Cardinality(In(Producers, "woken")') \in Nat
      BY CountsAreNat
    <3> QED
      BY <1>0, <1>3, <3>1, <3>2, <3>3, <3>4 DEF SleepersCovered
  <2>4. NothingLostOrReordered'
    BY <1>3, <1>a, HistoryUnchanged DEF NothingLostOrReordered, QueueThreadStates
  <2> QED
    BY <2>1, <2>2, <2>3, <2>4
<1> QED
  BY <1>1, <1>2, <1>3 DEF PushBody, HasRoom, Goto

(* The front item leaves the queue: one place becomes free and one         *)
(* notification of a producer is due.                                      *)
LEMMA TakeStep ==
    ASSUME IInv, NEW c \in Consumers, pc[c] \in {"idle", "woken"}, HasItem, TakeFront(c)
    PROVE  IInv'
<1> USE Sides, CapPositive DEF IInv
<1> DEFINE pn == Cardinality(In(Producers, "notify"))
           pw == Cardinality(In(Producers, "woken"))
           cn == Cardinality(In(Consumers, "notify"))
           cw == Cardinality(In(Consumers, "woken"))
<1>0. pn \in Nat /\ pw \in Nat /\ cn \in Nat /\ cw \in Nat /\ Len(items) \in Nat
  BY CountsAreNat, LenProperties DEF TypeOK
<1>1. /\ items # <<>> /\ items' = Tail(items) /\ received' = Append(received, Head(items))
      /\ depths' = depths \cup {Len(items')}
      /\ pc' = [pc EXCEPT ![c] = "notify"] /\ UNCHANGED <<capacity_, high_water, closed, pushed>>
  BY DEF TakeFront, HasItem, Goto
<1>2. /\ pc' \in [Threads -> States]
      /\ \A t \in Producers \cup Consumers : pc'[t] \in QueueThreadStates
      /\ pc'[Closer] \in CloserStates
      /\ \A u \in Producers : pc'[u] = pc[u]
      /\ pc'[c] = "notify" /\ \A u \in Consumers : u # c => pc'[u] = pc[u]
  BY <1>1 DEF TypeOK, Threads, States, QueueThreadStates
<1>3. /\ Head(items) \in Values /\ items' \in Seq(Values) /\ Len(items') = Len(items) - 1
  BY <1>1, HeadTailProperties DEF TypeOK
<1>4. received' \in Seq(Values)
  BY <1>1, <1>3, AppendProperties DEF TypeOK
<1>a. Len(items') \in Nat /\ Len(items') <= Len(items)
  BY <1>0, <1>3, LenProperties
<1>5. TypeOK'
  <2>1. capacity_' \in Nat \ {0} /\ depths' \subseteq Nat /\ high_water' \in Nat
    BY <1>1, <1>a DEF TypeOK
  <2> QED
    BY <1>1, <1>2, <1>3, <1>4, <2>1 DEF TypeOK
<1>6. WithinCapacity'
  <2>1. \A d \in depths : d \in Nat /\ d <= high_water
    BY DEF WithinCapacity, TypeOK
  <2>2. \A d \in depths' : d <= high_water
    BY <1>0, <1>1, <1>a, <2>1 DEF WithinCapacity, TypeOK
  <2> QED
    BY <1>1, <2>2 DEF WithinCapacity
<1>7. SleepersCovered'
  <2>1. \A q : In(Producers, q)' = In(Producers, q)
    BY <1>2 DEF In
  <2>2. Cardinality(In(Consumers, "notify")') = cn + 1
    BY <1>2, CountEnter
  <2>3. Cardinality(In(Consumers, "woken")') >= cw - 1
    <3>1. CASE pc[c] = "woken"
      BY <1>0, <1>2, <3>1, CountLeave
    <3>2. CASE pc[c] = "idle"
      <4>1. In(Consumers, "woken")' = In(Consumers, "woken")
        BY <1>2, <3>2, CountSame
      <4> QED
        BY <1>0, <4>1
    <3> QED
      BY <3>1, <3>2
  <2>4. In(Consumers, "asleep")' = In(Consumers, "asleep")
    BY <1>2, CountSame
  <2>5. Cardinality(In(Consumers, "woken")') \in Nat
    BY CountsAreNat
  <2>6. (In(Producers, "asleep")' # {} /\ ~closed') =>
           capacity_' - Len(items') <= Cardinality(In(Consumers, "notify")') + Cardinality(In(Producers, "woken")')
    BY <1>0, <1>1, <1>3, <2>1, <2>2 DEF SleepersCovered
  <2>7. (In(Consumers, "asleep")' # {} /\ ~closed') =>
           Len(items') <= Cardinality(In(Producers, "notify")') + Cardinality(In(Consumers, "woken")')
    BY <1>0, <1>1, <1>3, <2>1, <2>3, <2>4, <2>5 DEF SleepersCovered
  <2> QED
    BY <2>6, <2>7 DEF SleepersCovered
<1>8. NothingLostOrReordered'
  <2>1. Accepted' = Accepted
    BY <1>1, AcceptedAfterTake
  <2>2. ~ \E u \in Consumers : pc'[u] = "finished"
    BY <1>1, <1>2 DEF NothingLostOrReordered
  <2> QED
    BY <1>1, <2>1, <2>2 DEF NothingLostOrReordered
<1> QED
  BY <1>5, <1>6, <1>7, <1>8

(* pop() with the mutex held: an item, the end, or asleep on an empty queue *)
LEMMA PopStep ==
    ASSUME IInv, NEW c \in Consumers, pc[c] \in {"idle", "woken"}, PopBody(c)
    PROVE  IInv'
<1> USE Sides DEF IInv
<1>0. Len(items) \in Nat
  BY LenProperties DEF TypeOK
<1>1. CASE HasItem /\ TakeFront(c)
  BY <1>1, TakeStep
<1>2. ASSUME NEW r \in {"asleep", "finished"}, items = <<>>, closed <=> r = "finished",
             pc' = [pc EXCEPT ![c] = r],
             UNCHANGED <<capacity_, items, high_water, closed, pushed, received, depths>>
      PROVE  IInv'
  <2>1. /\ pc' \in [Threads -> States]
        /\ \A t \in Producers \cup Consumers : pc'[t] \in QueueThreadStates
        /\ pc'[Closer] \in CloserStates
        /\ \A u \in Producers : pc'[u] = pc[u]
        /\ pc'[c] = r /\ \A u \in Consumers : u # c => pc'[u] = pc[u]
    BY <1>2 DEF TypeOK, Threads, States, QueueThreadStates
  <2>2. TypeOK' /\ WithinCapacity'
    BY <1>2, <2>1 DEF TypeOK, WithinCapacity
  <2>3. SleepersCovered'
    <3>1. Len(items') = 0
      BY <1>2, EmptySeq
    <3>2. \A q : In(Producers, q)' = In(Producers, q)
      BY <2>1 DEF In
    <3>3. In(Consumers, "notify")' = In(Consumers, "notify")
      BY <1>2, <2>1, CountSame
    <3>4. /\ Cardinality(In(Producers, "notify")') \in Nat
          /\ Cardinality(In(Consumers, "woken")') \in Nat
      BY CountsAreNat
    <3>5. (In(Consumers, "asleep")' # {} /\ ~closed') =>
             Len(items') <= Cardinality(In(Producers, "notify")') + Cardinality(In(Consumers, "woken")')
      BY <3>1, <3>4
    <3> QED
      BY <1>2, <3>2, <3>3, <3>5 DEF SleepersCovered
  <2>4. NothingLostOrReordered'
    BY <1>2, <2>1, HistoryUnchanged DEF NothingLostOrReordered
  <2> QED
    BY <2>2, <2>3, <2>4
<1> QED
  BY <1>1, <1>2 DEF PopBody, HasItem, Goto, TypeOK

(* A producer's notification after its push: it reaches a sleeping         *)
(* consumer if there is one, so the item it announced stays covered.       *)
LEMMA NotifyNotEmptyStep ==
    ASSUME IInv, NEW p \in Producers, NotifyNotEmpty(p)
    PROVE  IInv'
<1> USE Sides DEF IInv
<1> DEFINE pn == Cardinality(In(Producers, "notify"))
           pw == Cardinality(In(Producers, "woken"))
           cn == Cardinality(In(Consumers, "notify"))
           cw == Cardinality(In(Consumers, "woken"))
<1>0. pn \in Nat /\ pw \in Nat /\ cn \in Nat /\ cw \in Nat /\ Len(items) \in Nat
  BY CountsAreNat, LenProperties DEF TypeOK
<1>1. pc[p] = "notify" /\ UNCHANGED <<capacity_, items, high_water, closed, pushed, received, depths>>
  BY DEF NotifyNotEmpty, NotifyOne
<1>2. CASE (\A w \in Consumers : pc[w] # "asleep") /\ pc' = [pc EXCEPT ![p] = "idle"]
  <2>1. /\ pc' \in [Threads -> States]
        /\ \A t \in Producers \cup Consumers : pc'[t] \in QueueThreadStates
        /\ pc'[Closer] \in CloserStates
        /\ \A u \in Consumers : pc'[u] = pc[u]
        /\ pc'[p] = "idle" /\ \A u \in Producers : u # p => pc'[u] = pc[u]
    BY <1>2 DEF TypeOK, Threads, States, QueueThreadStates
  <2>2. TypeOK' /\ WithinCapacity'
    BY <1>1, <2>1 DEF TypeOK, WithinCapacity
  <2>3. In(Consumers, "asleep")' = {} /\ In(Consumers, "notify")' = In(Consumers, "notify")
    BY <1>2, <2>1 DEF In
  <2>4. In(Producers, "woken")' = In(Producers, "woken") /\ In(Producers, "asleep")' = In(Producers, "asleep")
    BY <1>1, <2>1, CountSame
  <2>5. SleepersCovered'
    BY <1>1, <2>3, <2>4 DEF SleepersCovered
  <2>6. NothingLostOrReordered'
    BY <1>1, <2>1, HistoryUnchanged DEF NothingLostOrReordered
  <2> QED
    BY <2>2, <2>5, <2>6
<1>3. ASSUME NEW w \in Consumers, pc[w] = "asleep",
             pc' = [pc EXCEPT ![p] = "idle", ![w] = "woken"]
      PROVE  IInv'
  <2>1. /\ pc' \in [Threads -> States]
        /\ \A t \in Producers \cup Consumers : pc'[t] \in QueueThreadStates
        /\ pc'[Closer] \in CloserStates
        /\ pc'[w] = "woken" /\ \A u \in Consumers : u # w => pc'[u] = pc[u]
        /\ pc'[p] = "idle" /\ \A u \in Producers : u # p => pc'[u] = pc[u]
    BY <1>3 DEF TypeOK, Threads, States, QueueThreadStates
  <2>2. TypeOK' /\ WithinCapacity'
    BY <1>1, <2>1 DEF TypeOK, WithinCapacity
  <2>3. Cardinality(In(Consumers, "woken")') = cw + 1
    BY <1>3, <2>1, CountEnter
  <2>4. Cardinality(In(Producers, "notify")') = pn - 1
    BY <1>1, <2>1, CountLeave
  <2>5. In(Producers, "woken")' = In(Producers, "woken") /\ In(Producers, "asleep")' = In(Producers, "asleep")
    BY <1>1, <2>1, CountSame
  <2>6. In(Consumers, "notify")' = In(Consumers, "notify")
    BY <1>3, <2>1, CountSame
  <2>7. In(Consumers, "asleep") # {}
    BY <1>3 DEF In
  <2>8. SleepersCovered'
    BY <1>0, <1>1, <2>3, <2>4, <2>5, <2>6, <2>7 DEF SleepersCovered
  <2>9. NothingLostOrReordered'
    BY <1>1, <2>1, HistoryUnchanged DEF NothingLostOrReordered
  <2> QED
    BY <2>2, <2>8, <2>9
<1> QED
  BY <1>2, <1>3 DEF NotifyNotEmpty, NotifyOne, Goto

(* A consumer's notification after its pop, mirrored: it reaches a         *)
(* sleeping producer if there is one, so the free place stays covered.     *)
LEMMA NotifyNotFullStep ==
    ASSUME IInv, NEW c \in Consumers, NotifyNotFull(c)
    PROVE  IInv'
<1> USE Sides, CapPositive DEF IInv
<1> DEFINE pw == Cardinality(In(Producers, "woken"))
           cn == Cardinality(In(Consumers, "notify"))
<1>0. pw \in Nat /\ cn \in Nat /\ Len(items) \in Nat
  BY CountsAreNat, LenProperties DEF TypeOK
<1>1. pc[c] = "notify" /\ UNCHANGED <<capacity_, items, high_water, closed, pushed, received, depths>>
  BY DEF NotifyNotFull, NotifyOne
<1>2. CASE (\A w \in Producers : pc[w] # "asleep") /\ pc' = [pc EXCEPT ![c] = "idle"]
  <2>1. /\ pc' \in [Threads -> States]
        /\ \A t \in Producers \cup Consumers : pc'[t] \in QueueThreadStates
        /\ pc'[Closer] \in CloserStates
        /\ \A u \in Producers : pc'[u] = pc[u]
        /\ pc'[c] = "idle" /\ \A u \in Consumers : u # c => pc'[u] = pc[u]
    BY <1>2 DEF TypeOK, Threads, States, QueueThreadStates
  <2>2. TypeOK' /\ WithinCapacity'
    BY <1>1, <2>1 DEF TypeOK, WithinCapacity
  <2>3. In(Producers, "asleep")' = {} /\ In(Producers, "notify")' = In(Producers, "notify")
    BY <1>2, <2>1 DEF In
  <2>4. In(Consumers, "woken")' = In(Consumers, "woken") /\ In(Consumers, "asleep")' = In(Consumers, "asleep")
    BY <1>1, <2>1, CountSame
  <2>5. SleepersCovered'
    BY <1>1, <2>3, <2>4 DEF SleepersCovered
  <2>6. NothingLostOrReordered'
    BY <1>1, <2>1, HistoryUnchanged DEF NothingLostOrReordered
  <2> QED
    BY <2>2, <2>5, <2>6
<1>3. ASSUME NEW w \in Producers, pc[w] = "asleep",
             pc' = [pc EXCEPT ![c] = "idle", ![w] = "woken"]
      PROVE  IInv'
  <2>1. /\ pc' \in [Threads -> States]
        /\ \A t \in Producers \cup Consumers : pc'[t] \in QueueThreadStates
        /\ pc'[Closer] \in CloserStates
        /\ pc'[w] = "woken" /\ \A u \in Producers : u # w => pc'[u] = pc[u]
        /\ pc'[c] = "idle" /\ \A u \in Consumers : u # c => pc'[u] = pc[u]
    BY <1>3 DEF TypeOK, Threads, States, QueueThreadStates
  <2>2. TypeOK' /\ WithinCapacity'
    BY <1>1, <2>1 DEF TypeOK, WithinCapacity
  <2>3. Cardinality(In(Producers, "woken")') = pw + 1
    BY <1>3, <2>1, CountEnter
  <2>4. Cardinality(In(Consumers, "notify")') = cn - 1
    BY <1>1, <2>1, CountLeave
  <2>5. In(Consumers, "woken")' = In(Consumers, "woken") /\ In(Consumers, "asleep")' = In(Consumers, "asleep")
    BY <1>1, <2>1, CountSame
  <2>6. In(Producers, "notify")' = In(Producers, "notify")
    BY <1>3, <2>1, CountSame
  <2>7. In(Producers, "asleep") # {}
    BY <1>3 DEF In
  <2>8. SleepersCovered'
    BY <1>0, <1>1, <2>3, <2>4, <2>5, <2>6, <2>7 DEF SleepersCovered
  <2>9. NothingLostOrReordered'
    BY <1>1, <2>1, HistoryUnchanged DEF NothingLostOrReordered
  <2> QED
    BY <2>2, <2>8, <2>9
<1> QED
  BY <1>2, <1>3 DEF NotifyNotFull, NotifyOne, Goto

(* A wait() that returns by itself adds a woken thread, which covers one   *)
(* item or place more than before.                                         *)
LEMMA SpuriousStep ==
    ASSUME IInv, NEW t \in Threads, SpuriousWake(t)
    PROVE  IInv'
<1> USE Sides, CapPositive DEF IInv
<1>0. Len(items) \in Nat /\ capacity_ - Len(items) \in Int
  BY LenProperties DEF TypeOK
<1>1. /\ pc[t] = "asleep" /\ pc' = [pc EXCEPT ![t] = "woken"]
      /\ UNCHANGED <<capacity_, items, high_water, closed, pushed, received, depths>>
  BY DEF SpuriousWake, Goto
<1>2. t \in Producers \cup Consumers
  BY <1>1 DEF TypeOK, CloserStates, Threads
<1>3. /\ pc' \in [Threads -> States]
      /\ \A u \in Producers \cup Consumers : pc'[u] \in QueueThreadStates
      /\ pc'[Closer] \in CloserStates
      /\ pc'[t] = "woken" /\ \A u \in Threads : u # t => pc'[u] = pc[u]
  BY <1>1, <1>2 DEF TypeOK, Threads, States, QueueThreadStates
<1>4. TypeOK' /\ WithinCapacity'
  BY <1>1, <1>3 DEF TypeOK, WithinCapacity
<1>5. ASSUME NEW S, IsFiniteSet(S), S \subseteq Threads
      PROVE  /\ In(S, "asleep")' \subseteq In(S, "asleep") /\ In(S, "notify")' = In(S, "notify")
             /\ Cardinality(In(S, "woken")') >= Cardinality(In(S, "woken"))
  <2>1. In(S, "asleep")' \subseteq In(S, "asleep") /\ In(S, "notify")' = In(S, "notify")
        /\ In(S, "woken") \subseteq In(S, "woken")'
    BY <1>1, <1>3, <1>5 DEF In
  <2> QED
    BY <1>5, <2>1, CountType, FS_Subset
<1>6. SleepersCovered'
  <2> DEFINE pn == Cardinality(In(Producers, "notify"))
             pw == Cardinality(In(Producers, "woken"))
             cn == Cardinality(In(Consumers, "notify"))
             cw == Cardinality(In(Consumers, "woken"))
  <2>0. pn \in Nat /\ pw \in Nat /\ cn \in Nat /\ cw \in Nat /\ pw' \in Nat /\ cw' \in Nat
    BY CountsAreNat
  <2>a. pn' = pn /\ cn' = cn /\ pw' >= pw /\ cw' >= cw
    BY <1>5
  <2>b. (In(Producers, "asleep")' # {} => In(Producers, "asleep") # {})
        /\ (In(Consumers, "asleep")' # {} => In(Consumers, "asleep") # {})
    BY <1>5
  <2>1. (In(Producers, "asleep")' # {} /\ ~closed') => capacity_' - Len(items') <= cn' + pw'
    BY <1>0, <1>1, <2>0, <2>a, <2>b DEF SleepersCovered
  <2>2. (In(Consumers, "asleep")' # {} /\ ~closed') => Len(items') <= pn' + cw'
    BY <1>0, <1>1, <2>0, <2>a, <2>b DEF SleepersCovered
  <2> QED
    BY <2>1, <2>2 DEF SleepersCovered
<1>7. NothingLostOrReordered'
  <2>1. (\E c \in Consumers : pc'[c] = "finished") => \E c \in Consumers : pc[c] = "finished"
    BY <1>3
  <2> QED
    BY <1>1, <2>1, HistoryUnchanged DEF NothingLostOrReordered
<1> QED
  BY <1>4, <1>6, <1>7

(* close() and its two notify_all: the queue is closed from the first of   *)
(* the three on, and consumers are only turned away from an empty queue.   *)
LEMMA CloseStep ==
    ASSUME IInv, ClosedFirst, close \/ CloseNotifyNotEmpty \/ CloseNotifyNotFull
    PROVE  IInv'
<1> USE Sides DEF IInv, ClosedFirst
<1>1. /\ closed' = TRUE /\ UNCHANGED <<capacity_, items, high_water, pushed, received, depths>>
      /\ pc' \in [Threads -> States]
      /\ \A u \in Producers \cup Consumers : pc'[u] \in QueueThreadStates
      /\ pc'[Closer] \in CloserStates
      /\ \A u \in Consumers : pc'[u] = "finished" => pc[u] = "finished"
  <2>1. CASE close
    BY <2>1 DEF close, Goto, TypeOK, Threads, States, CloserStates
  <2>2. CASE CloseNotifyNotEmpty
    BY <2>2 DEF CloseNotifyNotEmpty, WakeAll, TypeOK, Threads, States, CloserStates, QueueThreadStates
  <2>3. CASE CloseNotifyNotFull
    BY <2>3 DEF CloseNotifyNotFull, WakeAll, TypeOK, Threads, States, CloserStates, QueueThreadStates
  <2> QED
    BY <2>1, <2>2, <2>3
<1>2. TypeOK' /\ WithinCapacity'
  BY <1>1 DEF TypeOK, WithinCapacity
<1>3. SleepersCovered'
  BY <1>1 DEF SleepersCovered
<1>4. NothingLostOrReordered'
  BY <1>1, HistoryUnchanged DEF NothingLostOrReordered
<1> QED
  BY <1>2, <1>3, <1>4

(* Nothing reopens the queue, and only close() moves the closer. *)
LEMMA ClosedFirstStep == TypeOK /\ ClosedFirst /\ [Next]_vars => ClosedFirst'
<1> SUFFICES ASSUME TypeOK, ClosedFirst, [Next]_vars PROVE ClosedFirst'
  OBVIOUS
<1> USE Sides DEF ClosedFirst, TypeOK
<1>1. ASSUME NEW p \in Producers, push(p) \/ PushResume(p) PROVE ClosedFirst'
  BY <1>1 DEF push, PushResume, PushBody, Goto
<1>2. ASSUME NEW p \in Producers, NotifyNotEmpty(p) PROVE ClosedFirst'
  BY <1>2 DEF NotifyNotEmpty, NotifyOne, Goto
<1>3. ASSUME NEW c \in Consumers, pop(c) \/ PopResume(c) \/ try_pop(c) PROVE ClosedFirst'
  BY <1>3 DEF pop, PopResume, try_pop, PopBody, TakeFront, Goto
<1>4. ASSUME NEW c \in Consumers, NotifyNotFull(c) PROVE ClosedFirst'
  BY <1>4 DEF NotifyNotFull, NotifyOne, Goto
<1>5. ASSUME NEW t \in Threads, SpuriousWake(t) PROVE ClosedFirst'
  BY <1>5 DEF SpuriousWake, Goto, CloserStates
<1>6. CASE close
  BY <1>6 DEF close
<1>7. CASE CloseNotifyNotEmpty \/ CloseNotifyNotFull
  BY <1>7 DEF CloseNotifyNotEmpty, CloseNotifyNotFull, WakeAll
<1>8. CASE UNCHANGED vars
  BY <1>8 DEF vars
<1> QED
  BY <1>1, <1>2, <1>3, <1>4, <1>5, <1>6, <1>7, <1>8 DEF Next, Terminated

(* Every step of every thread preserves the inductive invariant. *)
LEMMA NextIInv == IInv /\ ClosedFirst /\ [Next]_vars => IInv'
<1> SUFFICES ASSUME IInv, ClosedFirst, [Next]_vars PROVE IInv'
  OBVIOUS
<1>1. ASSUME NEW p \in Producers, push(p) \/ PushResume(p) PROVE IInv'
  BY <1>1, PushStep DEF push, PushResume
<1>2. ASSUME NEW c \in Consumers, pop(c) \/ PopResume(c) PROVE IInv'
  BY <1>2, PopStep DEF pop, PopResume
<1>3. ASSUME NEW c \in Consumers, try_pop(c) PROVE IInv'
  BY <1>3, TakeStep DEF try_pop
<1>4. CASE UNCHANGED vars
  <2>1. TypeOK' /\ WithinCapacity'
    BY <1>4 DEF vars, IInv, TypeOK, WithinCapacity
  <2>2. SleepersCovered'
    BY <1>4 DEF vars, IInv, SleepersCovered, In
  <2>3. NothingLostOrReordered'
    BY <1>4, HistoryUnchanged DEF vars, IInv, NothingLostOrReordered
  <2> QED
    BY <2>1, <2>2, <2>3 DEF IInv
<1> QED
  BY <1>1, <1>2, <1>3, <1>4, NotifyNotEmptyStep, NotifyNotFullStep, SpuriousStep, CloseStep DEF Next, Terminated

----------------------------------------------------------------------------
(* The theorems                                                            *)

(* The inductive invariant holds in every reachable state of the queue. *)
LEMMA Invariance == Spec => [](IInv /\ ClosedFirst)
<1>1. Init => ClosedFirst
  BY QueueAssumption DEF Init, ClosedFirst, Threads
<1>2. IInv => TypeOK
  BY DEF IInv
<1> QED
  BY <1>1, <1>2, InitIInv, NextIInv, ClosedFirstStep, PTL DEF Spec

(* The queue never holds more than its capacity, whatever the number of    *)
(* producers: push() tests for room again after every wakeup, spurious or  *)
(* not, and high_water() is the greatest depth it has had                  *)
(* (bounded_queue.h).                                                      *)
THEOREM DepthBounded == Spec => []WithinCapacity
<1>1. IInv => WithinCapacity
  BY DEF IInv
<1> QED
  BY <1>1, Invariance, PTL

(* A single notify_one per push and per pop, sent after the unlock, loses  *)
(* no wakeup for any number of producers and consumers: while a thread     *)
(* sleeps on an open queue, every item or place it could use is covered by *)
(* a notification still to come or by a thread that is already awake.      *)
THEOREM NotifyOneSuffices == Spec => []SleepersAreAnnounced
<1>1. IInv => SleepersAreAnnounced
  <2> SUFFICES ASSUME IInv PROVE SleepersAreAnnounced
    OBVIOUS
  <2>1. items = <<>> => Len(items) = 0
    BY EmptySeq
  <2> QED
    BY <2>1, CountsAreNat, CapPositive DEF IInv, SleepersCovered, SleepersAreAnnounced
<1> QED
  BY <1>1, Invariance, PTL

(* The queue delivers every accepted value exactly once and in the order   *)
(* its producer pushed, close() in between or not, and pop() reports the   *)
(* end only when the closed queue is empty.                                *)
THEOREM DeliversInOrder == Spec => []NothingLostOrReordered
<1>1. IInv => NothingLostOrReordered
  BY DEF IInv
<1> QED
  BY <1>1, Invariance, PTL

=============================================================================
