---------------------------- MODULE BoundedQueue ----------------------------
(***************************************************************************)
(* The queue between the connection readers and the worker                 *)
(* (include/imgjit/util/bounded_queue.h): one mutex, two condition         *)
(* variables, notify_one after the unlock.                                 *)
(*                                                                         *)
(* A critical section is one step, a notification is a step of its own     *)
(* that comes later, and a thread taken off a condition variable has to    *)
(* get the mutex back and test its predicate again.  The k-th value that   *)
(* producer p pushes is <<p, k>>.                                          *)
(***************************************************************************)
EXTENDS Integers, Sequences, FiniteSets

CONSTANTS
    Producers,      \* reader threads: push()
    Consumers,      \* the worker: pop() and try_pop()
    Closer,         \* the thread in stop(): close()
    Capacities,     \* what the constructor is called with
    MaxPush         \* bound: pushes per producer

ASSUME QueueAssumption ==
    /\ Capacities \subseteq Nat
    /\ MaxPush \in Nat
    /\ IsFiniteSet(Producers) /\ IsFiniteSet(Consumers)
    /\ Producers \cap Consumers = {}
    /\ Closer \notin Producers \cup Consumers

Threads == Producers \cup Consumers \cup {Closer}

VARIABLES
    capacity_,
    items,
    high_water,
    closed,
    pc,             \* thread -> where it is, see States
    pushed,         \* producer -> number of values the queue accepted from it
    received,       \* history: the values handed to consumers, in order
    depths          \* history: the lengths the queue has had

vars == <<capacity_, items, high_water, closed, pc, pushed, received, depths>>

(* idle:     outside the queue                                             *)
(* asleep:   waiting on not_full_ (producer) or not_empty_ (consumer)      *)
(* woken:    taken off the condition variable, without the mutex yet       *)
(* notify:   unlocked, the notify_one of the other side still to come      *)
(* finished: push() or pop() returned false                                *)
(* notify_not_empty, notify_not_full: close() between its three statements *)
States == {"idle", "asleep", "woken", "notify", "finished", "notify_not_empty", "notify_not_full"}

(* The constructor turns a capacity of 0 into 1. *)
BoundedQueue_as_given(capacity) == capacity

BoundedQueue(capacity) == IF capacity = 0 THEN 1 ELSE capacity

Init ==
    /\ capacity_ \in {BoundedQueue(capacity) : capacity \in Capacities}
    /\ items = <<>>
    /\ high_water = 0
    /\ closed = FALSE
    /\ pc = [t \in Threads |-> "idle"]
    /\ pushed = [p \in Producers |-> 0]
    /\ received = <<>>
    /\ depths = {0}

Goto(t, state) == pc' = [pc EXCEPT ![t] = state]

----------------------------------------------------------------------------

HasRoom_if_not_while(p) == Len(items) < capacity_ \/ pc[p] = "woken"

HasRoom(p) == Len(items) < capacity_

(* push() with the mutex held *)
PushBody(p) ==
    \/ /\ closed
       /\ Goto(p, "finished")
       /\ UNCHANGED <<capacity_, items, high_water, closed, pushed, received, depths>>
    \/ /\ ~closed /\ HasRoom(p)
       /\ pushed' = [pushed EXCEPT ![p] = @ + 1]
       /\ items' = Append(items, <<p, pushed'[p]>>)
       /\ high_water' = IF Len(items') > high_water THEN Len(items') ELSE high_water
       /\ depths' = depths \cup {Len(items')}
       /\ Goto(p, "notify")
       /\ UNCHANGED <<capacity_, closed, received>>
    \/ /\ ~closed /\ ~HasRoom(p)
       /\ Goto(p, "asleep")
       /\ UNCHANGED <<capacity_, items, high_water, closed, pushed, received, depths>>

push(p) == p \in Producers /\ pc[p] = "idle" /\ pushed[p] < MaxPush /\ PushBody(p)

PushResume(p) == p \in Producers /\ pc[p] = "woken" /\ PushBody(p)

(* An item leaves the queue and goes to consumer c: the front one, or the  *)
(* back one in a queue that got its ends mixed up.                         *)
TakeFront_back(c) ==
    /\ items' = SubSeq(items, 1, Len(items) - 1)
    /\ received' = Append(received, items[Len(items)])
    /\ depths' = depths \cup {Len(items')}
    /\ Goto(c, "notify")
    /\ UNCHANGED <<capacity_, high_water, closed, pushed>>

TakeFront(c) ==
    /\ items' = Tail(items)
    /\ received' = Append(received, Head(items))
    /\ depths' = depths \cup {Len(items')}
    /\ Goto(c, "notify")
    /\ UNCHANGED <<capacity_, high_water, closed, pushed>>

HasItem == items # <<>>

(* pop() with the mutex held: closing does not discard queued work. *)
PopBody(c) ==
    \/ /\ HasItem
       /\ TakeFront(c)
    \/ /\ ~HasItem /\ closed
       /\ Goto(c, "finished")
       /\ UNCHANGED <<capacity_, items, high_water, closed, pushed, received, depths>>
    \/ /\ ~HasItem /\ ~closed
       /\ Goto(c, "asleep")
       /\ UNCHANGED <<capacity_, items, high_water, closed, pushed, received, depths>>

pop(c) == c \in Consumers /\ pc[c] = "idle" /\ PopBody(c)

PopResume(c) == c \in Consumers /\ pc[c] = "woken" /\ PopBody(c)

(* try_pop() on an empty queue returns false and changes nothing. *)
try_pop(c) == c \in Consumers /\ pc[c] = "idle" /\ HasItem /\ TakeFront(c)

(* The standard lets wait() return without a notification. *)
SpuriousWake(t) ==
    /\ pc[t] = "asleep"
    /\ Goto(t, "woken")
    /\ UNCHANGED <<capacity_, items, high_water, closed, pushed, received, depths>>

(* notify_one: one sleeper of the other side, any of them, or nobody.      *)
NotifyOne(t, waiters) ==
    /\ pc[t] = "notify"
    /\ \/ /\ \A w \in waiters : pc[w] # "asleep"
          /\ Goto(t, "idle")
       \/ \E w \in waiters : /\ pc[w] = "asleep"
                             /\ pc' = [pc EXCEPT ![t] = "idle", ![w] = "woken"]
    /\ UNCHANGED <<capacity_, items, high_water, closed, pushed, received, depths>>

Forget(t) ==
    /\ pc[t] = "notify"
    /\ Goto(t, "idle")
    /\ UNCHANGED <<capacity_, items, high_water, closed, pushed, received, depths>>

NotifyNotEmpty(p) == p \in Producers /\ NotifyOne(p, Consumers)

NotifyNotFull_missing(c) == c \in Consumers /\ Forget(c)

NotifyNotFull(c) == c \in Consumers /\ NotifyOne(c, Producers)

WakeAll(waiters, state) ==
    /\ pc' = [u \in Threads |-> IF u = Closer THEN state
                                ELSE IF u \in waiters /\ pc[u] = "asleep" THEN "woken"
                                ELSE pc[u]]
    /\ UNCHANGED <<capacity_, items, high_water, closed, pushed, received, depths>>

close ==
    /\ pc[Closer] = "idle"
    /\ closed' = TRUE
    /\ Goto(Closer, "notify_not_empty")
    /\ UNCHANGED <<capacity_, items, high_water, pushed, received, depths>>

CloseNotifyNotEmpty_missing == pc[Closer] = "notify_not_empty" /\ WakeAll({}, "notify_not_full")

CloseNotifyNotEmpty == pc[Closer] = "notify_not_empty" /\ WakeAll(Consumers, "notify_not_full")

CloseNotifyNotFull == pc[Closer] = "notify_not_full" /\ WakeAll(Producers, "finished")

(* After close() everybody has been turned away: the only state in which   *)
(* the queue may come to rest for good.                                    *)
Terminated ==
    /\ pc[Closer] = "finished"
    /\ \A c \in Consumers : pc[c] = "finished"
    /\ \A p \in Producers : pc[p] \in {"idle", "finished"}
    /\ UNCHANGED vars

Next ==
    \/ \E p \in Producers : push(p) \/ PushResume(p) \/ NotifyNotEmpty(p)
    \/ \E c \in Consumers : pop(c) \/ PopResume(c) \/ try_pop(c) \/ NotifyNotFull(c)
    \/ \E t \in Threads : SpuriousWake(t)
    \/ close \/ CloseNotifyNotEmpty \/ CloseNotifyNotFull \/ Terminated

(* Threads inside the queue are eventually scheduled, and the consumer     *)
(* comes back for more (worker_loop pops or polls for ever).  Nothing      *)
(* makes a producer push or stop() close the queue.                        *)
Fairness ==
    /\ \A p \in Producers : WF_vars(PushResume(p)) /\ WF_vars(NotifyNotEmpty(p))
    /\ \A c \in Consumers : WF_vars(pop(c)) /\ WF_vars(PopResume(c)) /\ WF_vars(NotifyNotFull(c))
    /\ WF_vars(CloseNotifyNotEmpty) /\ WF_vars(CloseNotifyNotFull)

Spec == Init /\ [][Next]_vars /\ Fairness

----------------------------------------------------------------------------

In(S, state) == {t \in S : pc[t] = state}

(* No interleaving, spurious wakeups included, makes the queue deeper than *)
(* its capacity, and high_water() is the depth of the queue at its         *)
(* fullest: one it really had, and never exceeded.                         *)
WithinCapacity ==
    /\ high_water \in depths /\ Len(items) \in depths
    /\ \A d \in depths : d <= high_water
    /\ high_water <= capacity_

(* No wakeup is lost although push and pop only notify_one, after they     *)
(* unlocked.  While a producer sleeps on an open queue, every free place   *)
(* is covered by a notify_one still to come or a producer already woken;   *)
(* while a consumer sleeps, so is every queued item.  One notification is  *)
(* enough because the waiters of each condition are interchangeable.  And  *)
(* no producer sleeps on an empty queue that nobody is about to tell it    *)
(* of, as it would for ever on a queue of capacity 0.                      *)
SleepersAreAnnounced ==
    /\ (In(Producers, "asleep") # {} /\ ~closed) =>
          LET announced == Cardinality(In(Consumers, "notify")) + Cardinality(In(Producers, "woken"))
          IN  capacity_ - Len(items) <= announced /\ (items = <<>> => announced > 0)
    /\ (In(Consumers, "asleep") # {} /\ ~closed) =>
          Len(items) <= Cardinality(In(Producers, "notify")) + Cardinality(In(Consumers, "woken"))

(* What consumers received followed by what is queued *)
Accepted == received \o items

(* Every value the queue accepted is delivered once, in push order.  Of    *)
(* each producer exactly the values 1, 2, ... it pushed are received or    *)
(* queued, each of them once and in this order, and a consumer is told     *)
(* "finished" only when nothing is left.                                   *)
NothingLostOrReordered ==
    /\ \A p \in Producers : \A n \in 1 .. pushed[p] : \E k \in 1 .. Len(Accepted) : Accepted[k] = <<p, n>>
    /\ \A k \in 1 .. Len(Accepted) : \E p \in Producers : \E n \in 1 .. pushed[p] : Accepted[k] = <<p, n>>
    /\ \A j, k \in 1 .. Len(Accepted) :
          (j < k /\ Accepted[j][1] = Accepted[k][1]) => Accepted[j][2] < Accepted[k][2]
    /\ (\E c \in Consumers : pc[c] = "finished") => closed /\ items = <<>>

(* close() ends every wait: producers are refused, consumers drain the     *)
(* queue and are told that it is finished.                                 *)
CloseDrains == closed ~> (items = <<>> /\ \A t \in Threads : pc[t] \notin {"asleep", "woken"})
=============================================================================
