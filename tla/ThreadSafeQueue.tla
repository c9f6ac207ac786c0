--------------------------- MODULE ThreadSafeQueue ---------------------------
(***************************************************************************)
(* ThreadSafe::Queue (tools/queue.hpp): an array used as a ring, its free  *)
(* and its filled slots counted by two semaphores, its two indices and its *)
(* size kept in atomics.  An item is named by the producer that offers it  *)
(* and the number of items that producer has offered before.               *)
(*                                                                         *)
(* One action per atomic operation.  The consumer is the logger's writer   *)
(* thread (tools/logger.hpp), the queue's only one.                        *)
(***************************************************************************)
EXTENDS Integers, Sequences, FiniteSets

CONSTANTS
    Producers,  \* threads that enqueue
    Blocking,   \* whether the consumer also calls dequeue
    Size,       \* template argument
    SizeT,      \* 2^64
    MaxItems,   \* bound: items each producer offers
    NULL        \* the default constructed T

ASSUME ThreadSafeQueueAssumption ==
    /\ IsFiniteSet(Producers)
    /\ Blocking \in BOOLEAN
    /\ Size \in Nat /\ Size > 2
    /\ SizeT \in Nat /\ SizeT > Size
    /\ MaxItems \in Nat
    /\ NULL \notin [by : Producers, n : Nat]

VARIABLES
    enq_idx, deq_idx, size,     \* atomics
    enq_sem, deq_sem,           \* permits left
    queue,
    prod,       \* control point of each producer, inside enqueue
    offered,    \* items each producer has enqueued
    enq_next,   \* what ++_enq_idx gave each producer
    cons,       \* control point of the consumer
    blocked,    \* whether it is inside dequeue, not try_dequeue_for
    aborted,    \* std::terminate: at() threw inside a noexcept function
    placed,     \* history: items stored in the ring, in order
    taken       \* history: items moved out of it, in order

semaphores == <<enq_sem, deq_sem>>
producers  == <<prod, offered, enq_next>>
consumer   == <<cons, blocked>>
history    == <<placed, taken>>

queueVars == <<enq_idx, deq_idx, size, semaphores, queue, producers, consumer,
               aborted, history>>

Items == [by : Producers, n : 0 .. MaxItems - 1]

ItemOf(p) == [by |-> p, n |-> offered[p]]

Init ==
    /\ enq_idx = 0 /\ deq_idx = 0 /\ size = 0
    /\ enq_sem = Size - 1 /\ deq_sem = 0
    /\ queue = [i \in 0 .. Size - 1 |-> NULL]
    /\ prod = [p \in Producers |-> "idle"]
    /\ offered = [p \in Producers |-> 0]
    /\ enq_next = [p \in Producers |-> 0]
    /\ cons = "idle" /\ blocked = FALSE
    /\ aborted = FALSE
    /\ placed = << >> /\ taken = << >>

-------------------------------------------------------------------------------
(* enqueue.                                                                *)

\* Mutant: every slot may be filled.
EnqueueAcquireUnbounded(p) ==
    /\ prod[p] = "idle" /\ offered[p] < MaxItems
    /\ prod' = [prod EXCEPT ![p] = "count"]
    /\ UNCHANGED <<enq_idx, deq_idx, size, semaphores, queue, offered, enq_next,
                   consumer, aborted, history>>

EnqueueAcquire(p) ==
    /\ prod[p] = "idle" /\ offered[p] < MaxItems
    /\ enq_sem > 0
    /\ enq_sem' = enq_sem - 1
    /\ prod' = [prod EXCEPT ![p] = "count"]
    /\ UNCHANGED <<enq_idx, deq_idx, size, deq_sem, queue, offered, enq_next,
                   consumer, aborted, history>>

\* Mutant: the item is not counted.
EnqueueCountMissing(p) ==
    /\ prod[p] = "count"
    /\ prod' = [prod EXCEPT ![p] = "place"]
    /\ UNCHANGED <<enq_idx, deq_idx, size, semaphores, queue, offered, enq_next,
                   consumer, aborted, history>>

EnqueueCount(p) ==
    /\ prod[p] = "count"
    /\ size' = (size + 1) % SizeT
    /\ prod' = [prod EXCEPT ![p] = "place"]
    /\ UNCHANGED <<enq_idx, deq_idx, semaphores, queue, offered, enq_next,
                   consumer, aborted, history>>

EnqueuePlace(p) ==
    /\ prod[p] = "place"
    /\ enq_idx < Size
    /\ queue' = [queue EXCEPT ![enq_idx] = ItemOf(p)]
    /\ placed' = Append(placed, ItemOf(p))
    /\ prod' = [prod EXCEPT ![p] = "advance"]
    /\ UNCHANGED <<enq_idx, deq_idx, size, semaphores, offered, enq_next,
                   consumer, aborted, taken>>

\* at() throws on the value another producer has not wrapped yet.
EnqueueThrows(p) ==
    /\ prod[p] = "place"
    /\ enq_idx >= Size
    /\ aborted' = TRUE
    /\ UNCHANGED <<enq_idx, deq_idx, size, semaphores, queue, producers,
                   consumer, history>>

EnqueueAdvance(p) ==
    /\ prod[p] = "advance"
    /\ enq_idx' = enq_idx + 1
    /\ enq_next' = [enq_next EXCEPT ![p] = enq_idx + 1]
    /\ prod' = [prod EXCEPT ![p] = "wrap"]
    /\ UNCHANGED <<deq_idx, size, semaphores, queue, offered, consumer, aborted,
                   history>>

\* Mutant: the index is never wrapped.
EnqueueWrapMissing(p) ==
    /\ prod[p] = "wrap"
    /\ prod' = [prod EXCEPT ![p] = "release"]
    /\ UNCHANGED <<enq_idx, deq_idx, size, semaphores, queue, offered, enq_next,
                   consumer, aborted, history>>

EnqueueWrap(p) ==
    /\ prod[p] = "wrap"
    /\ enq_idx' = enq_next[p] % Size
    /\ prod' = [prod EXCEPT ![p] = "release"]
    /\ UNCHANGED <<deq_idx, size, semaphores, queue, offered, enq_next, consumer,
                   aborted, history>>

EnqueueRelease(p) ==
    /\ prod[p] = "release"
    /\ deq_sem' = deq_sem + 1
    /\ offered' = [offered EXCEPT ![p] = @ + 1]
    /\ prod' = [prod EXCEPT ![p] = "idle"]
    /\ UNCHANGED <<enq_idx, deq_idx, size, enq_sem, queue, enq_next, consumer,
                   aborted, history>>

Enqueue(p) ==
    \/ EnqueueAcquire(p) \/ EnqueueCount(p) \/ EnqueuePlace(p)
    \/ EnqueueThrows(p) \/ EnqueueAdvance(p) \/ EnqueueWrap(p)
    \/ EnqueueRelease(p)

-------------------------------------------------------------------------------
(* try_dequeue, try_dequeue_for and try_dequeue_until count after they     *)
(* have a permit; dequeue counts before it waits for one.                  *)

TryDequeue ==
    /\ cons = "idle"
    /\ deq_sem > 0
    /\ deq_sem' = deq_sem - 1
    /\ cons' = "count"
    /\ blocked' = FALSE
    /\ UNCHANGED <<enq_idx, deq_idx, size, enq_sem, queue, producers, aborted,
                   history>>

\* No permit came in time: an empty optional.
TryDequeueTimeout ==
    /\ cons = "idle"
    /\ deq_sem = 0
    /\ UNCHANGED queueVars

TryDequeueCount ==
    /\ cons = "count"
    /\ size' = (size + SizeT - 1) % SizeT
    /\ cons' = "take"
    /\ UNCHANGED <<enq_idx, deq_idx, semaphores, queue, producers, blocked,
                   aborted, history>>

BlockingDequeue ==
    /\ Blocking
    /\ cons = "idle"
    /\ size' = (size + SizeT - 1) % SizeT
    /\ cons' = "wait"
    /\ blocked' = TRUE
    /\ UNCHANGED <<enq_idx, deq_idx, semaphores, queue, producers, aborted,
                   history>>

BlockingAcquire ==
    /\ cons = "wait"
    /\ deq_sem > 0
    /\ deq_sem' = deq_sem - 1
    /\ cons' = "take"
    /\ UNCHANGED <<enq_idx, deq_idx, size, enq_sem, queue, producers, blocked,
                   aborted, history>>

DequeueTake ==
    /\ cons = "take"
    /\ taken' = Append(taken, queue[deq_idx])
    /\ queue' = [queue EXCEPT ![deq_idx] = NULL]
    /\ cons' = "advance"
    /\ UNCHANGED <<enq_idx, deq_idx, size, semaphores, producers, blocked,
                   aborted, placed>>

DequeueAdvance ==
    /\ cons = "advance"
    /\ deq_idx' = deq_idx + 1
    /\ cons' = "wrap"
    /\ UNCHANGED <<enq_idx, size, semaphores, queue, producers, blocked, aborted,
                   history>>

\* deq_idx is what ++_deq_idx gave: there is one consumer.
DequeueWrap ==
    /\ cons = "wrap"
    /\ deq_idx' = deq_idx % Size
    /\ cons' = "release"
    /\ UNCHANGED <<enq_idx, size, semaphores, queue, producers, blocked, aborted,
                   history>>

\* Mutant: the slot is not given back.
DequeueReleaseMissing ==
    /\ cons = "release"
    /\ cons' = "idle"
    /\ blocked' = FALSE
    /\ UNCHANGED <<enq_idx, deq_idx, size, semaphores, queue, producers, aborted,
                   history>>

DequeueRelease ==
    /\ cons = "release"
    /\ enq_sem' = enq_sem + 1
    /\ cons' = "idle"
    /\ blocked' = FALSE
    /\ UNCHANGED <<enq_idx, deq_idx, size, deq_sem, queue, producers, aborted,
                   history>>

Dequeue ==
    \/ TryDequeue \/ TryDequeueTimeout \/ TryDequeueCount
    \/ BlockingDequeue \/ BlockingAcquire
    \/ DequeueTake \/ DequeueAdvance \/ DequeueWrap \/ DequeueRelease

-------------------------------------------------------------------------------
Aborted == aborted /\ UNCHANGED queueVars

Next ==
    \/ ~aborted /\ ((\E p \in Producers : Enqueue(p)) \/ Dequeue)
    \/ Aborted

Spec == Init /\ [][Next]_queueVars

-------------------------------------------------------------------------------
(* Properties.                                                             *)

\* Every variable has the type the code gives it.
TypeOK ==
    /\ enq_idx \in 0 .. Size - 1 + Cardinality(Producers)
    /\ deq_idx \in 0 .. Size
    /\ size \in 0 .. SizeT - 1
    /\ enq_sem \in 0 .. Size - 1 /\ deq_sem \in 0 .. Size - 1
    /\ queue \in [0 .. Size - 1 -> Items \cup {NULL}]
    /\ prod \in [Producers -> {"idle", "count", "place", "advance", "wrap",
                               "release"}]
    /\ offered \in [Producers -> 0 .. MaxItems]
    /\ cons \in {"idle", "count", "wait", "take", "advance", "wrap", "release"}
    /\ blocked \in BOOLEAN /\ aborted \in BOOLEAN
    /\ placed \in Seq(Items) /\ taken \in Seq(Items \cup {NULL})

\* Threads that hold a permit of the semaphore they acquired.
Filling == {p \in Producers : prod[p] # "idle"}
Emptying == IF cons \in {"idle", "wait"} THEN 0 ELSE 1

\* No permit is lost or made up, however many producers race: the calls in
\* progress and the two semaphores always add up to the slots in use.
PermitsConserved == enq_sem + deq_sem + Cardinality(Filling) + Emptying = Size - 1

\* What the logger's exit test relies on: when the consumer, between two of
\* its own try_dequeue calls, reads empty(), nothing is in the ring.
EmptyIsEmpty ==
    cons = "idle" /\ size = 0 => deq_sem = 0 /\ Len(placed) = Len(taken)

\* With one producer the queue is a first-in first-out line of Size - 1 slots:
\* DelayLine with nothing to hold back.
Line == INSTANCE DelayLine WITH
            Bound    <- Size - 1,
            Hold     <- 0,
            accepted <- Len(placed),
            released <- [i \in DOMAIN taken |-> taken[i].n]

LineSpec == Line!Spec

\* "thread-safe data structures" (queue.hpp:8): whatever a producer enqueued is
\* dequeued, and only once.
ItemsKept ==
    \A i \in DOMAIN taken :
        /\ taken[i] # NULL
        /\ \A j \in DOMAIN taken : taken[i] = taken[j] => i = j

\* What noexcept promises of enqueue (queue.hpp:24): the index at() is called with is
\* that of a slot.  A second producer may read it between the increment and the store.
NeverThrows == ~aborted

\* What is enqueued is dequeued.
EnqueuedIsTaken ==
    \A n \in 1 .. MaxItems : (Len(placed) >= n) ~> (Len(taken) >= n)

===============================================================================
