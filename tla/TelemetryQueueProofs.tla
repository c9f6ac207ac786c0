------------------------- MODULE TelemetryQueueProofs -------------------------
(***************************************************************************)
(* Theorems about TelemetryQueue for every number of setters, every delay, *)
(* every refresh rate and every ring size.                                 *)
(***************************************************************************)
EXTENDS TelemetryQueue, NumberFacts, SequenceTheorems, TLAPS

-------------------------------------------------------------------------------
(* Arithmetic of slots.                                                    *)

\* Two indices less than one ring size apart live in different slots.
LEMMA WindowSlots ==
  ASSUME NEW i \in Nat, NEW j \in Nat, NEW n \in Nat \ {0}, i < j, j < i + n
  PROVE  SlotIn(i, n) # SlotIn(j, n)
<1>1. i % n # j % n
  BY WindowMod
<1>2. i % n \in Int /\ j % n \in Int
  BY DivMod
<1> QED
  BY <1>1, <1>2 DEF SlotIn

\* Indices a whole ring apart share a slot.
LEMMA SameSlot ==
  ASSUME NEW j \in Nat, NEW n \in Nat \ {0}
  PROVE  SlotIn(j, n) = SlotIn(j + n, n)
<1>1. n \in Nat /\ n > 0
  OBVIOUS
<1>2. (j + n) % n = j % n
  BY <1>1, PeriodMod, Zenon
<1> QED
  BY <1>2, Zenon DEF SlotIn

\* A slot number is a position of the vector.
LEMMA SlotInRange ==
  ASSUME NEW i \in Nat, NEW n \in Nat \ {0}
  PROVE  SlotIn(i, n) \in 1 .. n
BY DivMod DEF SlotIn

-------------------------------------------------------------------------------
(* Type correctness and the locks.                                         *)

\* At most one setter is past the entry of _delay_info_mtx, and nobody shares
\* _frame_mtx with a rebuild.
Exclusion ==
    /\ \A s, t \in Setters :
          setter[s] \notin {"idle", "enter"} /\ setter[t] \notin {"idle", "enter"}
            => s = t
    /\ RebuildOwns => ~ProducerShares /\ ~ConsumerShares

\* What a thread knows of the slot it works on.
SlotsHeld ==
    /\ ProducerShares => prod_slot = SlotOf(enq_idx)
    /\ cons \in {"slot", "take"} => cons_slot = SlotOf(deq_idx)
    /\ cons = "move" => cons_slot \in 1 .. Len(frames) /\ frames[cons_slot] # NULL
    /\ prod \in {"store", "commit"} /\ cons \in {"take", "move"}
          => prod_slot # cons_slot
    /\ prod = "commit" => frames[prod_slot] = enq_idx

LockInv == TypeOK /\ Exclusion /\ SlotsHeld

\* The configured capacity is a positive number of slots.
LEMMA CapacityPositive ==
  ASSUME NEW t \in Nat \cup {NONE}, t # NONE => t >= DELAY_SLOP
  PROVE  Capacity(t) \in Nat \ {0}
BY QueueAssumption DEF Capacity

\* What recalculate assigns is NONE or at least DELAY_SLOP.
LEMMA TotalForType ==
  ASSUME NEW d \in Nat, NEW hz \in Nat \ {0}
  PROVE  /\ TotalFor(d, hz) \in Nat \cup {NONE}
         /\ TotalFor(d, hz) # NONE => TotalFor(d, hz) >= DELAY_SLOP
<1>1. d * hz \in Nat
  OBVIOUS
<1> QED
  BY <1>1, QueueAssumption DEF TotalFor

\* Every variable keeps its type: no step of any of the three kinds of thread
\* stores outside the ring, reads a missing frame or makes a size zero.
LEMMA TypeInit == Init => TypeOK
<1> SUFFICES ASSUME Init
             PROVE  TypeOK
  OBVIOUS
<1>1. InitDelay \in Nat /\ InitRate \in Nat \ {0}
  BY QueueAssumption
<1>2. /\ total_frames \in Nat \cup {NONE}
      /\ total_frames # NONE => total_frames >= DELAY_SLOP
  BY <1>1, TotalForType DEF Init
<1>3. Capacity(total_frames) \in Nat \ {0}
  BY <1>2, CapacityPositive
<1>4. frames \in Seq(Nat \cup {NULL}) /\ frames # << >>
  BY <1>3 DEF Init
<1>5. [op |-> "delay", arg |-> InitDelay] \in
         {r \in Requests \cup [op : {"delay"}, arg : {InitDelay}] : Legal(r)}
  BY QueueAssumption DEF Legal
<1> QED
  BY <1>1, <1>2, <1>4, <1>5 DEF Init, TypeOK


\* The slots held by the producer and by the consumer are slots of the ring.
LEMMA HeldInRange ==
  ASSUME LockInv
  PROVE  /\ Len(frames) \in Nat \ {0}
         /\ DOMAIN frames = 1 .. Len(frames)
         /\ ProducerShares => prod_slot \in 1 .. Len(frames)
         /\ ConsumerShares => cons_slot \in 1 .. Len(frames)
         /\ \A i \in Nat : SlotOf(i) \in 1 .. Len(frames)
<1>1. Len(frames) \in Nat \ {0} /\ DOMAIN frames = 1 .. Len(frames)
  BY LenProperties, EmptySeq DEF LockInv, TypeOK
<1>2. \A i \in Nat : SlotOf(i) \in 1 .. Len(frames)
  BY <1>1, SlotInRange DEF SlotOf
<1>3. enq_idx \in Nat /\ deq_idx \in Nat
  BY DEF LockInv, TypeOK
<1> QED
  BY <1>1, <1>2, <1>3 DEF LockInv, SlotsHeld, ProducerShares, ConsumerShares

\* Writing one slot keeps the vector's length and every other slot.
LEMMA WriteSlot ==
  ASSUME LockInv, NEW k \in 1 .. Len(frames), NEW v \in Nat \cup {NULL},
         frames' = [frames EXCEPT ![k] = v]
  PROVE  /\ frames' \in Seq(Nat \cup {NULL})
         /\ frames' # << >>
         /\ Len(frames') = Len(frames)
         /\ frames'[k] = v
         /\ \A l \in 1 .. Len(frames) : l # k => frames'[l] = frames[l]
<1> DEFINE S == Nat \cup {NULL}
           new == [frames EXCEPT ![k] = v]
<1>1. frames \in Seq(S) /\ v \in S
  BY DEF LockInv, TypeOK
<1> HIDE DEF S
<1>2. /\ new \in Seq(S)
      /\ Len(new) = Len(frames)
      /\ \A l \in 1 .. Len(frames) : new[l] = IF l = k THEN v ELSE frames[l]
  BY <1>1, ExceptSeq
<1>3. Len(frames) \in Nat \ {0}
  BY HeldInRange
<1>4. new # << >>
  BY <1>2, <1>3, EmptySeq
<1> QED
  BY <1>2, <1>4 DEF S

\* enqueue keeps the types and the locks.
LEMMA LockEnqueue == LockInv /\ Enqueue => LockInv'
<1> SUFFICES ASSUME LockInv, Enqueue
             PROVE  LockInv'
  OBVIOUS
<1>r. /\ Len(frames) \in Nat \ {0}
      /\ ProducerShares => prod_slot \in 1 .. Len(frames)
      /\ ConsumerShares => cons_slot \in 1 .. Len(frames)
      /\ SlotOf(enq_idx) \in Nat \ {0}
      /\ SlotOf(deq_idx) \in Nat \ {0}
  <2>1. enq_idx \in Nat /\ deq_idx \in Nat
    BY DEF LockInv, TypeOK
  <2>2. /\ Len(frames) \in Nat \ {0}
        /\ ProducerShares => prod_slot \in 1 .. Len(frames)
        /\ ConsumerShares => cons_slot \in 1 .. Len(frames)
    BY HeldInRange, Zenon
  <2>3. \A i \in Nat : SlotOf(i) \in 1 .. Len(frames)
    BY HeldInRange, Zenon
  <2>4. /\ SlotOf(enq_idx) \in 1 .. Len(frames)
        /\ SlotOf(deq_idx) \in 1 .. Len(frames)
    BY <2>1, <2>3, Zenon
  <2>5. \A n \in Nat \ {0} : \A k \in 1 .. n : k \in Nat \ {0}
    OBVIOUS
  <2> QED
    BY <2>2, <2>4, <2>5, Zenon
<1> USE DEF LockInv, TypeOK, Exclusion, SlotsHeld, RebuildOwns, ProducerShares,
            ConsumerShares, SlotOf, config, ring, producer, consumer, setting
<1>1. CASE EnqueueCheck
  BY <1>1 DEF EnqueueCheck
<1>2. CASE EnqueueFull
  BY <1>2 DEF EnqueueFull, vars
<1>3. CASE EnqueueShared
  BY <1>3, <1>r DEF EnqueueShared
<1>4. CASE EnqueueSlot
  BY <1>4 DEF EnqueueSlot, ConsumerLocks
<1>5. CASE EnqueueStore
  <2>1. prod_slot \in 1 .. Len(frames) /\ enq_idx \in Nat \cup {NULL}
    BY <1>5, <1>r DEF EnqueueStore
  <2>2. /\ frames' \in Seq(Nat \cup {NULL})
        /\ frames' # << >>
        /\ Len(frames') = Len(frames)
        /\ frames'[prod_slot] = enq_idx
        /\ \A l \in 1 .. Len(frames) : l # prod_slot => frames'[l] = frames[l]
    BY <1>5, <2>1, WriteSlot DEF EnqueueStore
  <2>3. TypeOK'
    BY <1>5, <2>2 DEF EnqueueStore
  <2>4. Exclusion'
    BY <1>5 DEF EnqueueStore
  <2>5. SlotsHeld'
    BY <1>5, <2>2 DEF EnqueueStore
  <2> QED
    BY <2>3, <2>4, <2>5
<1>6. CASE EnqueueCommit
  BY <1>6 DEF EnqueueCommit
<1> QED
  BY <1>1, <1>2, <1>3, <1>4, <1>5, <1>6 DEF Enqueue

\* dequeue keeps the types and the locks.
LEMMA LockDequeue == LockInv /\ Dequeue => LockInv'
<1> SUFFICES ASSUME LockInv, Dequeue
             PROVE  LockInv'
  OBVIOUS
<1>r. /\ Len(frames) \in Nat \ {0}
      /\ ProducerShares => prod_slot \in 1 .. Len(frames)
      /\ ConsumerShares => cons_slot \in 1 .. Len(frames)
      /\ SlotOf(enq_idx) \in Nat \ {0}
      /\ SlotOf(deq_idx) \in Nat \ {0}
  <2>1. enq_idx \in Nat /\ deq_idx \in Nat
    BY DEF LockInv, TypeOK
  <2>2. /\ Len(frames) \in Nat \ {0}
        /\ ProducerShares => prod_slot \in 1 .. Len(frames)
        /\ ConsumerShares => cons_slot \in 1 .. Len(frames)
    BY HeldInRange, Zenon
  <2>3. \A i \in Nat : SlotOf(i) \in 1 .. Len(frames)
    BY HeldInRange, Zenon
  <2>4. /\ SlotOf(enq_idx) \in 1 .. Len(frames)
        /\ SlotOf(deq_idx) \in 1 .. Len(frames)
    BY <2>1, <2>3, Zenon
  <2>5. \A n \in Nat \ {0} : \A k \in 1 .. n : k \in Nat \ {0}
    OBVIOUS
  <2> QED
    BY <2>2, <2>4, <2>5, Zenon
<1> USE DEF LockInv, TypeOK, Exclusion, SlotsHeld, RebuildOwns, ProducerShares,
            ConsumerShares, SlotOf, config, ring, producer, consumer, setting
<1>1. CASE DequeueCheck
  BY <1>1 DEF DequeueCheck
<1>2. CASE DequeueEarly
  BY <1>2 DEF DequeueEarly, vars
<1>3. CASE DequeueShared
  BY <1>3, <1>r DEF DequeueShared
<1>4. CASE DequeueSlot
  BY <1>4 DEF DequeueSlot, ProducerLocks
<1>5. CASE DequeueTake
  <2>1. cons_slot \in 1 .. Len(frames)
    BY <1>5, <1>r DEF DequeueTake
  <2> QED
    BY <1>5, <2>1 DEF DequeueTake
<1>6. CASE DequeueMove
  <2>1. cons_slot \in 1 .. Len(frames) /\ frames[cons_slot] # NULL
    BY <1>6 DEF DequeueMove
  <2>2. frames[cons_slot] \in Nat
    BY <2>1, ElementOfSeq
  <2>3. /\ frames' \in Seq(Nat \cup {NULL})
        /\ frames' # << >>
        /\ Len(frames') = Len(frames)
        /\ \A l \in 1 .. Len(frames) : l # cons_slot => frames'[l] = frames[l]
    BY <1>6, <2>1, WriteSlot DEF DequeueMove
  <2>4. TypeOK'
    BY <1>6, <2>2, <2>3 DEF DequeueMove
  <2>5. Exclusion'
    BY <1>6 DEF DequeueMove
  <2>6. SlotsHeld'
    <3>1. prod = "commit" => prod_slot \in 1 .. Len(frames)
      BY <1>r
    <3> QED
      BY <1>6, <2>3, <3>1 DEF DequeueMove
  <2> QED
    BY <2>4, <2>5, <2>6
<1> QED
  BY <1>1, <1>2, <1>3, <1>4, <1>5, <1>6 DEF Dequeue

\* What copying puts in a slot is null or a frame of the old vector.
LEMMA CopiedType ==
  ASSUME LockInv, NEW k \in Nat, NEW n \in Nat \ {0}
  PROVE  Copied(k, n) \in Nat \cup {NULL}
<1> DEFINE last == {i \in deq_idx .. enq_idx - 1 :
                       SlotIn(i, n) = k /\ i + n >= enq_idx}
<1>1. CASE last = {}
  BY <1>1 DEF Copied
<1>2. ASSUME last # {}
      PROVE  Copied(k, n) \in Nat \cup {NULL}
  <2>1. PICK i \in last : i = (CHOOSE j \in last : TRUE)
    BY <1>2
  <2>2. i \in Nat
    BY DEF LockInv, TypeOK
  <2>3. SlotOf(i) \in 1 .. Len(frames)
    BY <2>2, HeldInRange
  <2>4. frames[SlotOf(i)] \in Nat \cup {NULL}
    BY <2>3, ElementOfSeq DEF LockInv, TypeOK
  <2> QED
    BY <1>2, <2>1, <2>4 DEF Copied, Moved
<1> QED
  BY <1>1, <1>2

\* The argument of a legal call is a delay or a positive rate.
LEMMA RequestType ==
  ASSUME NEW r \in Requests \cup [op : {"delay"}, arg : {InitDelay}], Legal(r)
  PROVE  /\ r.arg \in Nat
         /\ r.op # "delay" => r.arg \in Nat \ {0}
<1>1. InitDelay \in Nat /\ Delays \subseteq Nat /\ Rates \subseteq Nat
  BY QueueAssumption
<1>2. r.arg \in Nat
  <2>1. CASE r \in [op : {"delay"}, arg : Delays]
    BY <1>1, <2>1
  <2>2. CASE r \in [op : {"rate"}, arg : Rates]
    BY <1>1, <2>2
  <2>3. CASE r \in [op : {"delay"}, arg : {InitDelay}]
    BY <1>1, <2>3
  <2> QED
    BY <2>1, <2>2, <2>3 DEF Requests
<1>3. r.op # "delay" => r.arg >= MIN_REFRESH_HZ
  BY QueueAssumption DEF Legal
<1> QED
  BY <1>2, <1>3, QueueAssumption

\* A vector built slot by slot from frames and nulls is a vector.
LEMMA VectorType ==
  ASSUME NEW n \in Nat \ {0}, NEW v, DOMAIN v = 1 .. n, v = [k \in 1 .. n |-> v[k]],
         \A k \in 1 .. n : v[k] \in Nat \cup {NULL}
  PROVE  v \in Seq(Nat \cup {NULL}) /\ v # << >> /\ Len(v) = n
<1> DEFINE S == Nat \cup {NULL}
<1>1. v \in [1 .. n -> S]
  OBVIOUS
<1> HIDE DEF S
<1>2. v \in Seq(S)
  BY <1>1, SeqDef
<1>3. Len(v) = n
  BY <1>2, LenProperties
<1> QED
  BY <1>2, <1>3, EmptySeq DEF S

\* set_delay_sec, set_refresh_hz and rebuild_delay keep the types and the locks.
LEMMA LockSet ==
  ASSUME LockInv, NEW s \in Setters, Set(s)
  PROVE  LockInv'
<1>c. Capacity(total_frames) \in Nat \ {0}
  BY CapacityPositive DEF LockInv, TypeOK
<1>t. /\ TotalFor(delay_s, refresh_hz) \in Nat \cup {NONE}
      /\ TotalFor(delay_s, refresh_hz) # NONE
           => TotalFor(delay_s, refresh_hz) >= DELAY_SLOP
  BY TotalForType DEF LockInv, TypeOK
<1>k. \A k \in Nat, n \in Nat \ {0} : Copied(k, n) \in Nat \cup {NULL}
  BY CopiedType
<1> USE DEF LockInv, TypeOK, Exclusion, SlotsHeld, RebuildOwns, ProducerShares,
            ConsumerShares, SlotOf, config, ring, producer, consumer, setting
<1>1. CASE SetCall(s)
  BY <1>1 DEF SetCall
<1>2. CASE SetRejected(s)
  BY <1>2 DEF SetRejected, vars
<1>3. CASE SetEnter(s)
  BY <1>3 DEF SetEnter, DelayInfoFree
<1>4. CASE SetAssign(s)
  <2>1. /\ request[s] \in Requests \cup [op : {"delay"}, arg : {InitDelay}]
        /\ Legal(request[s])
    OBVIOUS
  <2>2. /\ request[s].arg \in Nat
        /\ request[s].op # "delay" => request[s].arg \in Nat \ {0}
    BY <2>1, RequestType
  <2> QED
    BY <1>4, <2>2 DEF SetAssign
<1>5. CASE SetRecalculate(s)
  BY <1>5, <1>t DEF SetRecalculate
<1>6. CASE RebuildLock(s)
  BY <1>6 DEF RebuildLock
<1>7. CASE RebuildEmpty(s)
  <2>1. frames' \in Seq(Nat \cup {NULL}) /\ frames' # << >>
    BY <1>7, <1>c DEF RebuildEmpty
  <2> QED
    BY <1>7, <2>1 DEF RebuildEmpty
<1>8. CASE RebuildSkip(s)
  <2>1. SkipFrames(Len(frames), Capacity(total_frames)) \in Nat
    BY <1>c DEF SkipFrames
  <2> QED
    BY <1>8, <2>1 DEF RebuildSkip
<1>9. CASE RebuildClamp(s)
  BY <1>9 DEF RebuildClamp
<1>10. CASE RebuildSwap(s)
  <2> DEFINE n == Capacity(total_frames)
  <2>k. n \in Nat \ {0} /\ \A k \in 1 .. n : Copied(k, n) \in Nat \cup {NULL}
    BY <1>c, <1>k
  <2>f. frames' = [k \in 1 .. n |-> Copied(k, n)]
    BY <1>10 DEF RebuildSwap
  <2>e. /\ DOMAIN frames' = 1 .. n
        /\ frames' = [k \in 1 .. n |-> frames'[k]]
        /\ \A k \in 1 .. n : frames'[k] \in Nat \cup {NULL}
    BY <2>k, <2>f
  <2> HIDE DEF n
  <2>1. frames' \in Seq(Nat \cup {NULL}) /\ frames' # << >>
    BY <2>k, <2>e, VectorType
  <2> QED
    BY <1>10, <2>1 DEF RebuildSwap
<1> QED
  BY <1>1, <1>2, <1>3, <1>4, <1>5, <1>6, <1>7, <1>8, <1>9, <1>10 DEF Set

\* The locks in the initial state.
LEMMA LockInit == Init => LockInv
BY TypeInit DEF Init, LockInv, Exclusion, SlotsHeld, RebuildOwns,
                ProducerShares, ConsumerShares

\* One step of any thread keeps the types and the locks.
LEMMA LockNext == LockInv /\ [Next]_vars => LockInv'
<1> SUFFICES ASSUME LockInv, [Next]_vars
             PROVE  LockInv'
  OBVIOUS
<1>1. CASE UNCHANGED vars
  BY <1>1 DEF vars, LockInv, TypeOK, Exclusion, SlotsHeld, RebuildOwns,
              ProducerShares, ConsumerShares, SlotOf
<1> QED
  BY <1>1, LockEnqueue, LockDequeue, LockSet DEF Next

\* Type correctness and mutual exclusion of the locks, in every reachable
\* state.
THEOREM LocksCorrect == Spec => []LockInv
BY LockInit, LockNext, PTL DEF Spec

\* Type correctness: no thread ever stores outside the vector, hands out a
\* null frame or makes the vector empty (assert(!_frames.empty())), however
\* set calls, enqueue and dequeue interleave.
THEOREM TypeCorrect == Spec => []TypeOK
<1>1. LockInv => TypeOK
  BY DEF LockInv
<1> QED
  BY <1>1, LocksCorrect, PTL

-------------------------------------------------------------------------------
(* The configuration and the vector agree.                                 *)

\* total_frames follows the two settings except inside DelayInfo's second
\* critical section, and the vector follows total_frames except between that
\* section and the end of the rebuild.
ConfigInv ==
    /\ (\A s \in Setters : setter[s] # "recalculate")
          => total_frames = TotalFor(delay_s, refresh_hz)
    /\ (\A s \in Setters : setter[s] \notin {"rebuild", "skip", "clamp", "swap"})
          => Len(frames) = Capacity(total_frames)

\* Enqueue and dequeue leave the configuration and the vector's size alone.
LEMMA ConfigQueue == LockInv /\ ConfigInv /\ (Enqueue \/ Dequeue) => ConfigInv'
<1> SUFFICES ASSUME LockInv, ConfigInv, Enqueue \/ Dequeue
             PROVE  ConfigInv'
  OBVIOUS
<1>1. UNCHANGED <<config, setter>>
  BY DEF Enqueue, EnqueueCheck, EnqueueFull, EnqueueShared, EnqueueSlot,
         EnqueueStore, EnqueueCommit, Dequeue, DequeueCheck, DequeueEarly,
         DequeueShared, DequeueSlot, DequeueTake, DequeueMove, vars, config, setting
<1>2. Len(frames') = Len(frames)
  <2>1. CASE EnqueueStore
    <3>1. prod_slot \in 1 .. Len(frames) /\ enq_idx \in Nat \cup {NULL}
      BY <2>1, HeldInRange DEF EnqueueStore, ProducerShares, LockInv, TypeOK
    <3> QED
      BY <2>1, <3>1, WriteSlot DEF EnqueueStore
  <2>2. CASE DequeueMove
    <3>1. cons_slot \in 1 .. Len(frames)
      BY <2>2, HeldInRange DEF DequeueMove, ConsumerShares
    <3> QED
      BY <2>2, <3>1, WriteSlot DEF DequeueMove
  <2>3. ~EnqueueStore /\ ~DequeueMove => UNCHANGED frames
    BY DEF Enqueue, EnqueueCheck, EnqueueFull, EnqueueShared, EnqueueSlot,
           EnqueueCommit, Dequeue, DequeueCheck, DequeueEarly,
           DequeueShared, DequeueSlot, DequeueTake, vars, ring
  <2> QED
    BY <2>1, <2>2, <2>3
<1> QED
  BY <1>1, <1>2 DEF ConfigInv, config, TotalFor, Capacity

\* Set calls bring the three values back together before they return.
LEMMA ConfigSet ==
  ASSUME LockInv, ConfigInv, NEW s \in Setters, Set(s)
  PROVE  ConfigInv'
<1>s. setter \in [Setters -> {"idle", "enter", "assign", "recalculate",
                              "rebuild", "skip", "clamp", "swap"}]
  BY DEF LockInv, TypeOK
<1>x. \A t \in Setters : setter[s] \notin {"idle", "enter"} /\ t # s
                            => setter[t] \in {"idle", "enter"}
  BY DEF LockInv, Exclusion
<1>c. Capacity(total_frames) \in Nat \ {0}
  BY CapacityPositive DEF LockInv, TypeOK
<1> USE DEF ConfigInv, config, ring, TotalFor, Capacity
<1>1. CASE SetCall(s)
  BY <1>1, <1>s DEF SetCall
<1>2. CASE SetRejected(s)
  BY <1>2 DEF SetRejected, vars
<1>3. CASE SetEnter(s)
  BY <1>3, <1>s DEF SetEnter
<1>4. CASE SetAssign(s)
  BY <1>4, <1>s, <1>x DEF SetAssign
<1>5. CASE SetRecalculate(s)
  BY <1>5, <1>s, <1>x DEF SetRecalculate
<1>6. CASE RebuildLock(s)
  BY <1>6, <1>s, <1>x DEF RebuildLock
<1>7. CASE RebuildEmpty(s)
  BY <1>7, <1>s, <1>x, <1>c DEF RebuildEmpty
<1>8. CASE RebuildSkip(s)
  BY <1>8, <1>s, <1>x DEF RebuildSkip
<1>9. CASE RebuildClamp(s)
  BY <1>9, <1>s, <1>x DEF RebuildClamp
<1>10. CASE RebuildSwap(s)
  BY <1>10, <1>s, <1>x, <1>c DEF RebuildSwap
<1> QED
  BY <1>1, <1>2, <1>3, <1>4, <1>5, <1>6, <1>7, <1>8, <1>9, <1>10 DEF Set

\* Between set calls the capacity enqueue tests is the size of the vector it
\* indexes, for any number of threads setting delay and rate at once.
THEOREM ConfigConsistentAlways == Spec => []ConfigConsistent
<1>1. Init => ConfigInv
  <2> SUFFICES ASSUME Init
               PROVE  ConfigInv
    OBVIOUS
  <2>1. Capacity(total_frames) \in Nat \ {0}
    BY LockInit, CapacityPositive DEF LockInv, TypeOK
  <2>2. Len(frames) = Capacity(total_frames)
    BY <2>1 DEF Init
  <2> QED
    BY <2>2 DEF Init, ConfigInv
<1>2. LockInv /\ ConfigInv /\ [Next]_vars => ConfigInv'
  <2> SUFFICES ASSUME LockInv, ConfigInv, [Next]_vars
               PROVE  ConfigInv'
    OBVIOUS
  <2>1. CASE UNCHANGED vars
    BY <2>1 DEF vars, ConfigInv, TotalFor, Capacity
  <2> QED
    BY <2>1, ConfigQueue, ConfigSet DEF Next
<1>3. ConfigInv => ConfigConsistent
  BY DEF ConfigInv, ConfigConsistent, DelayInfoFree
<1> QED
  BY <1>1, <1>2, <1>3, LocksCorrect, PTL DEF Spec

-------------------------------------------------------------------------------
(* Stale frames and the order of the indices.                              *)

OrderInv == IndicesOrdered /\ NoStaleFrame

\* Filling a slot and counting it keeps the ring free of stale frames.
LEMMA OrderEnqueue == LockInv /\ OrderInv /\ Enqueue => OrderInv'
<1> SUFFICES ASSUME LockInv, OrderInv, Enqueue
             PROVE  OrderInv'
  OBVIOUS
<1>t. enq_idx \in Nat /\ deq_idx \in Nat
  BY DEF LockInv, TypeOK
<1>r. /\ Len(frames) \in Nat \ {0}
      /\ DOMAIN frames = 1 .. Len(frames)
      /\ ProducerShares => prod_slot \in 1 .. Len(frames)
  BY HeldInRange
<1>1. CASE EnqueueCheck \/ EnqueueFull \/ EnqueueShared \/ EnqueueSlot
  <2>1. UNCHANGED <<ring, consumer, setter>> /\ prod # "commit" /\ prod' # "commit"
    BY <1>1 DEF EnqueueCheck, EnqueueFull, EnqueueShared, EnqueueSlot, vars,
                ring, consumer, setting
  <2> QED
    BY <2>1 DEF OrderInv, IndicesOrdered, NoStaleFrame, RebuildOwns, ring,
                consumer, SlotOf
<1>2. CASE EnqueueStore
  <2>1. prod_slot \in 1 .. Len(frames) /\ enq_idx \in Nat \cup {NULL}
    BY <1>2, <1>r, <1>t DEF EnqueueStore, ProducerShares
  <2>2. /\ frames' \in Seq(Nat \cup {NULL})
        /\ Len(frames') = Len(frames)
        /\ \A l \in 1 .. Len(frames) : l # prod_slot => frames'[l] = frames[l]
    BY <1>2, <2>1, WriteSlot DEF EnqueueStore
  <2>3. DOMAIN frames' = 1 .. Len(frames)
    BY <2>2, LenProperties
  <2>4. UNCHANGED <<enq_idx, deq_idx, prod_slot, consumer, setter>>
          /\ prod = "store" /\ prod' = "commit"
    BY <1>2 DEF EnqueueStore, setting
  <2> QED
    BY <1>r, <2>2, <2>3, <2>4 DEF OrderInv, IndicesOrdered, NoStaleFrame,
                RebuildOwns, consumer, SlotOf
<1>3. CASE EnqueueCommit
  <2>1. /\ UNCHANGED <<deq_idx, frames, prod_slot, consumer, setter>>
        /\ enq_idx' = enq_idx + 1 /\ prod = "commit" /\ prod' = "idle"
    BY <1>3 DEF EnqueueCommit, setting
  <2>2. prod_slot = SlotOf(enq_idx) /\ ~RebuildOwns
    BY <2>1 DEF LockInv, Exclusion, SlotsHeld, ProducerShares
  <2>3. deq_idx <= enq_idx
    BY <2>2 DEF OrderInv, IndicesOrdered, RebuildOwns
  <2>4. IndicesOrdered'
    BY <1>t, <2>1, <2>3 DEF IndicesOrdered
  <2>5. NoStaleFrame'
    <3> SUFFICES ASSUME NEW k \in DOMAIN frames, frames[k] # NULL,
                        ~(cons = "move" /\ cons_slot = k)
                 PROVE  \E i \in deq_idx .. enq_idx : SlotOf(i) = k
      BY <1>t, <2>1 DEF NoStaleFrame, SlotOf, consumer
    <3>1. CASE k = prod_slot
      BY <1>t, <2>2, <2>3, <3>1
    <3>2. CASE k # prod_slot
      <4>1. \E i \in deq_idx .. enq_idx - 1 : SlotOf(i) = k
        BY <2>2, <3>2 DEF OrderInv, NoStaleFrame
      <4> QED
        BY <4>1, <1>t
    <3> QED
      BY <3>1, <3>2
  <2> QED
    BY <2>4, <2>5 DEF OrderInv
<1> QED
  BY <1>1, <1>2, <1>3 DEF Enqueue

\* dequeue advances only past a frame that is pending, so the indices stay
\* ordered.
LEMMA OrderDequeue == LockInv /\ OrderInv /\ Dequeue => OrderInv'
<1> SUFFICES ASSUME LockInv, OrderInv, Dequeue
             PROVE  OrderInv'
  OBVIOUS
<1>t. enq_idx \in Nat /\ deq_idx \in Nat
  BY DEF LockInv, TypeOK
<1>r. /\ Len(frames) \in Nat \ {0}
      /\ DOMAIN frames = 1 .. Len(frames)
      /\ ConsumerShares => cons_slot \in 1 .. Len(frames)
  BY HeldInRange
<1>1. CASE DequeueCheck \/ DequeueEarly \/ DequeueShared \/ DequeueSlot
  <2>1. UNCHANGED <<ring, producer, setter>> /\ cons # "move" /\ cons' # "move"
    BY <1>1 DEF DequeueCheck, DequeueEarly, DequeueShared, DequeueSlot, vars,
                ring, producer, setting
  <2> QED
    BY <2>1 DEF OrderInv, IndicesOrdered, NoStaleFrame, RebuildOwns, ring,
                producer, SlotOf
<1>2. CASE DequeueTake /\ frames[cons_slot] = NULL
  <2>1. UNCHANGED <<ring, producer, setter>> /\ cons # "move" /\ cons' # "move"
    BY <1>2 DEF DequeueTake, ring, setting
  <2> QED
    BY <2>1 DEF OrderInv, IndicesOrdered, NoStaleFrame, RebuildOwns, ring,
                producer, SlotOf
<1>3. CASE DequeueTake /\ frames[cons_slot] # NULL
  <2>1. /\ UNCHANGED <<enq_idx, frames, producer, cons_slot, setter>>
        /\ deq_idx' = deq_idx + 1 /\ cons = "take" /\ cons' = "move"
    BY <1>3 DEF DequeueTake, setting
  <2>2. /\ cons_slot = SlotOf(deq_idx)
        /\ ~RebuildOwns
        /\ ~(prod = "commit" /\ prod_slot = cons_slot)
    BY <2>1 DEF LockInv, Exclusion, SlotsHeld, ConsumerShares
  <2>3. \E i \in deq_idx .. enq_idx - 1 : SlotOf(i) = cons_slot
    <3>1. cons_slot \in DOMAIN frames
      BY <1>r, <2>1 DEF ConsumerShares
    <3> QED
      BY <1>3, <2>1, <2>2, <3>1 DEF OrderInv, NoStaleFrame
  <2>4. IndicesOrdered'
    BY <1>t, <2>1, <2>3 DEF IndicesOrdered
  <2>5. NoStaleFrame'
    <3> SUFFICES ASSUME NEW k \in DOMAIN frames, frames[k] # NULL, k # cons_slot,
                        ~(prod = "commit" /\ prod_slot = k)
                 PROVE  \E i \in deq_idx + 1 .. enq_idx - 1 : SlotOf(i) = k
      BY <1>t, <2>1 DEF NoStaleFrame, SlotOf, producer
    <3>1. PICK i \in deq_idx .. enq_idx - 1 : SlotOf(i) = k
      BY <2>1, <2>2 DEF OrderInv, NoStaleFrame
    <3>2. i # deq_idx
      BY <2>2, <3>1
    <3> QED
      BY <1>t, <3>1, <3>2
  <2> QED
    BY <2>4, <2>5 DEF OrderInv
<1>4. CASE DequeueMove
  <2>1. cons_slot \in 1 .. Len(frames) /\ NULL \in Nat \cup {NULL}
    BY <1>4, <1>r DEF DequeueMove, ConsumerShares
  <2>2. /\ frames' \in Seq(Nat \cup {NULL})
        /\ Len(frames') = Len(frames)
        /\ frames'[cons_slot] = NULL
        /\ \A l \in 1 .. Len(frames) : l # cons_slot => frames'[l] = frames[l]
    BY <1>4, <2>1, WriteSlot DEF DequeueMove
  <2>3. DOMAIN frames' = 1 .. Len(frames)
    BY <2>2, LenProperties
  <2>4. UNCHANGED <<enq_idx, deq_idx, cons_slot, producer, setter>>
    BY <1>4 DEF DequeueMove, setting
  <2> QED
    BY <1>r, <2>2, <2>3, <2>4 DEF OrderInv, IndicesOrdered, NoStaleFrame,
                RebuildOwns, producer, SlotOf
<1> QED
  BY <1>1, <1>2, <1>3, <1>4 DEF Dequeue

\* A rebuild copies pending indices only, and leaves them ordered.
LEMMA OrderSet ==
  ASSUME LockInv, OrderInv, NEW s \in Setters, Set(s)
  PROVE  OrderInv'
<1>s. setter \in [Setters -> {"idle", "enter", "assign", "recalculate",
                              "rebuild", "skip", "clamp", "swap"}]
  BY DEF LockInv, TypeOK
<1>t. enq_idx \in Nat /\ deq_idx \in Nat
  BY DEF LockInv, TypeOK
<1>x. \A t \in Setters : setter[s] \notin {"idle", "enter"} /\ t # s
                            => setter[t] \in {"idle", "enter"}
  BY DEF LockInv, Exclusion
<1>o. RebuildOwns => ~ProducerShares /\ ~ConsumerShares
  BY DEF LockInv, Exclusion
<1>c. Capacity(total_frames) \in Nat \ {0}
  BY CapacityPositive DEF LockInv, TypeOK
<1>1. CASE UNCHANGED ring /\ setter'[s] # "idle" /\ setter[s] \in
             {"idle", "enter", "assign", "recalculate", "rebuild"}
             /\ UNCHANGED <<producer, consumer>>
             /\ setter' = [setter EXCEPT ![s] = setter'[s]]
             /\ setter'[s] # "clamp"
  BY <1>1, <1>s, <1>x DEF OrderInv, IndicesOrdered, NoStaleFrame, RebuildOwns,
                  ring, producer, consumer, SlotOf
<1>2. CASE SetRejected(s)
  BY <1>2 DEF SetRejected, vars, OrderInv, IndicesOrdered, NoStaleFrame,
              RebuildOwns, SlotOf
<1>3. CASE RebuildEmpty(s)
  <2>1. deq_idx <= enq_idx
    BY <1>3, <1>x DEF RebuildEmpty, OrderInv, IndicesOrdered
  <2>2. \A k \in DOMAIN frames' : frames'[k] = NULL
    BY <1>3, <1>c DEF RebuildEmpty
  <2> QED
    BY <1>3, <2>1, <2>2 DEF RebuildEmpty, OrderInv, IndicesOrdered, NoStaleFrame
<1>4. CASE RebuildSkip(s)
  BY <1>4, <1>s DEF RebuildSkip, OrderInv, IndicesOrdered, NoStaleFrame,
                    RebuildOwns
<1>5. CASE RebuildClamp(s)
  BY <1>5, <1>s, <1>t DEF RebuildClamp, OrderInv, IndicesOrdered, NoStaleFrame,
                          RebuildOwns
<1>6. CASE RebuildSwap(s)
  <2>1. deq_idx <= enq_idx
    BY <1>6, <1>x DEF RebuildSwap, OrderInv, IndicesOrdered
  <2>2. UNCHANGED <<enq_idx, deq_idx>>
    BY <1>6 DEF RebuildSwap
  <2> DEFINE n == Capacity(total_frames)
  <2>3. DOMAIN frames' = 1 .. n /\ Len(frames') = n
          /\ \A k \in 1 .. n : frames'[k] = Copied(k, n)
    BY <1>6, <1>c DEF RebuildSwap
  <2>4. \A k \in 1 .. n : Copied(k, n) # NULL
            => \E i \in deq_idx .. enq_idx - 1 : SlotIn(i, n) = k
    BY DEF Copied
  <2> HIDE DEF n
  <2>5. NoStaleFrame'
    BY <2>2, <2>3, <2>4 DEF NoStaleFrame, SlotOf
  <2> QED
    BY <2>1, <2>2, <2>5 DEF OrderInv, IndicesOrdered
<1>7. SetCall(s) \/ SetEnter(s) \/ SetAssign(s) \/ SetRecalculate(s) \/ RebuildLock(s)
        => /\ UNCHANGED <<ring, producer, consumer>>
           /\ setter[s] \in {"idle", "enter", "assign", "recalculate", "rebuild"}
           /\ setter' = [setter EXCEPT ![s] = setter'[s]]
           /\ setter'[s] \in {"enter", "assign", "recalculate", "rebuild", "skip"}
  BY <1>s DEF SetCall, SetEnter, SetAssign, SetRecalculate, RebuildLock
<1> QED
  BY <1>1, <1>2, <1>3, <1>4, <1>5, <1>6, <1>7 DEF Set

\* The indices and the slots in every reachable state.
THEOREM OrderCorrect == Spec => []OrderInv
<1>1. Init => OrderInv
  <2> SUFFICES ASSUME Init
               PROVE  OrderInv
    OBVIOUS
  <2>1. Capacity(total_frames) \in Nat \ {0}
    BY LockInit, CapacityPositive DEF LockInv, TypeOK
  <2> QED
    BY <2>1 DEF Init, OrderInv, IndicesOrdered, NoStaleFrame
<1>2. LockInv /\ OrderInv /\ [Next]_vars => OrderInv'
  <2> SUFFICES ASSUME LockInv, OrderInv, [Next]_vars
               PROVE  OrderInv'
    OBVIOUS
  <2>1. CASE UNCHANGED vars
    BY <2>1 DEF vars, OrderInv, IndicesOrdered, NoStaleFrame, RebuildOwns, SlotOf
  <2> QED
    BY <2>1, OrderEnqueue, OrderDequeue, OrderSet DEF Next
<1> QED
  BY <1>1, <1>2, LocksCorrect, PTL DEF Spec

\* _deq_idx <= _enq_idx, the assertion of enqueue, dequeue and
\* get_accrued_delay_ms, holds whenever no rebuild is between its two stores.
THEOREM IndicesOrderedAlways == Spec => []IndicesOrdered
<1>1. OrderInv => IndicesOrdered
  BY DEF OrderInv
<1> QED
  BY <1>1, OrderCorrect, PTL

\* No rebuild and no lap of the ring leaves a frame behind a slot that is no
\* longer pending.
THEOREM NoStaleFrameAlways == Spec => []NoStaleFrame
<1>1. OrderInv => NoStaleFrame
  BY DEF OrderInv
<1> QED
  BY <1>1, OrderCorrect, PTL

-------------------------------------------------------------------------------
(* Frames are delivered at most once.                                      *)

\* Frames are numbered below enq_idx, save the one being committed.
FramesBelow ==
    /\ \A k \in DOMAIN frames :
          frames[k] # NULL => frames[k] < enq_idx \/ (prod = "commit" /\ prod_slot = k)
    /\ \A i \in DOMAIN delivered : delivered[i] < enq_idx

OnceInv == FramesBelow /\ FramesDistinct /\ DeliveredOnce

\* A stored frame has a number no other slot and no delivered frame has.
LEMMA OnceEnqueue == LockInv /\ OnceInv /\ Enqueue => OnceInv'
<1> SUFFICES ASSUME LockInv, OnceInv, Enqueue
             PROVE  OnceInv'
  OBVIOUS
<1>t. /\ enq_idx \in Nat /\ delivered \in Seq(Nat)
      /\ \A i \in DOMAIN delivered : delivered[i] \in Nat
  BY DEF LockInv, TypeOK
<1>r. /\ Len(frames) \in Nat \ {0}
      /\ DOMAIN frames = 1 .. Len(frames)
      /\ ProducerShares => prod_slot \in 1 .. Len(frames)
  BY HeldInRange
<1>f. \A k \in 1 .. Len(frames) : frames[k] \in Nat \cup {NULL}
  BY ElementOfSeq DEF LockInv, TypeOK
<1>1. CASE EnqueueCheck \/ EnqueueFull \/ EnqueueShared \/ EnqueueSlot
  <2>1. UNCHANGED <<ring, delivered>> /\ prod # "commit" /\ prod' # "commit"
    BY <1>1 DEF EnqueueCheck, EnqueueFull, EnqueueShared, EnqueueSlot, vars,
                ring, consumer, setting
  <2> QED
    BY <2>1 DEF OnceInv, FramesBelow, FramesDistinct, DeliveredOnce, ring
<1>2. CASE EnqueueStore
  <2>1. prod_slot \in 1 .. Len(frames) /\ enq_idx \in Nat \cup {NULL}
    BY <1>2, <1>r, <1>t DEF EnqueueStore, ProducerShares
  <2>2. /\ frames' \in Seq(Nat \cup {NULL})
        /\ Len(frames') = Len(frames)
        /\ frames'[prod_slot] = enq_idx
        /\ \A l \in 1 .. Len(frames) : l # prod_slot => frames'[l] = frames[l]
    BY <1>2, <2>1, WriteSlot DEF EnqueueStore
  <2>3. DOMAIN frames' = 1 .. Len(frames)
    BY <2>2, LenProperties
  <2>4. UNCHANGED <<enq_idx, prod_slot, delivered>>
          /\ prod = "store" /\ prod' = "commit"
    BY <1>2 DEF EnqueueStore, setting
  <2>5. \A l \in 1 .. Len(frames) : frames[l] # NULL => frames[l] < enq_idx
    BY <1>r, <2>4 DEF OnceInv, FramesBelow
  <2>6. FramesBelow'
    BY <1>r, <2>2, <2>3, <2>4, <2>5 DEF OnceInv, FramesBelow
  <2>7. FramesDistinct'
    BY <1>t, <1>r, <1>f, <2>2, <2>3, <2>4, <2>5 DEF OnceInv, FramesBelow, FramesDistinct
  <2> QED
    BY <2>4, <2>6, <2>7 DEF OnceInv, DeliveredOnce
<1>3. CASE EnqueueCommit
  <2>1. /\ UNCHANGED <<frames, delivered>> /\ enq_idx' = enq_idx + 1
        /\ prod = "commit" /\ frames[prod_slot] = enq_idx
    BY <1>3 DEF EnqueueCommit, LockInv, SlotsHeld
  <2>2. FramesBelow'
    BY <1>t, <1>r, <1>f, <2>1, QueueAssumption DEF OnceInv, FramesBelow
  <2> QED
    BY <2>1, <2>2 DEF OnceInv, FramesDistinct, DeliveredOnce
<1> QED
  BY <1>1, <1>2, <1>3 DEF Enqueue

\* dequeue moves its frame: it joins the delivered ones and leaves the ring.
LEMMA OnceDequeue == LockInv /\ OnceInv /\ Dequeue => OnceInv'
<1> SUFFICES ASSUME LockInv, OnceInv, Dequeue
             PROVE  OnceInv'
  OBVIOUS
<1>t. enq_idx \in Nat /\ delivered \in Seq(Nat)
  BY DEF LockInv, TypeOK
<1>r. /\ Len(frames) \in Nat \ {0}
      /\ DOMAIN frames = 1 .. Len(frames)
      /\ ConsumerShares => cons_slot \in 1 .. Len(frames)
  BY HeldInRange
<1>1. CASE ~DequeueMove
  <2>1. UNCHANGED <<enq_idx, frames, producer, delivered>>
    BY <1>1 DEF Dequeue, DequeueCheck, DequeueEarly, DequeueShared, DequeueSlot,
                DequeueTake, vars, ring, producer, setting
  <2> QED
    BY <2>1 DEF OnceInv, FramesBelow, FramesDistinct, DeliveredOnce, producer
<1>2. CASE DequeueMove
  <2> DEFINE f == frames[cons_slot]
  <2>1. /\ cons_slot \in 1 .. Len(frames) /\ f # NULL
        /\ NULL \in Nat \cup {NULL}
    BY <1>2, <1>r DEF DequeueMove, ConsumerShares, LockInv, SlotsHeld
  <2>2. f \in Nat
    BY <2>1, ElementOfSeq DEF LockInv, TypeOK
  <2>3. /\ frames' \in Seq(Nat \cup {NULL})
        /\ Len(frames') = Len(frames)
        /\ frames'[cons_slot] = NULL
        /\ \A l \in 1 .. Len(frames) : l # cons_slot => frames'[l] = frames[l]
    BY <1>2, <2>1, WriteSlot DEF DequeueMove
  <2>4. DOMAIN frames' = 1 .. Len(frames)
    BY <2>3, LenProperties
  <2>5. UNCHANGED <<enq_idx, cons_slot, producer>> /\ cons = "move"
    BY <1>2 DEF DequeueMove, setting
  <2>6. /\ delivered' = Append(delivered, f)
        /\ DOMAIN delivered = 1 .. Len(delivered)
        /\ DOMAIN delivered' = 1 .. Len(delivered) + 1
        /\ delivered'[Len(delivered) + 1] = f
        /\ \A i \in 1 .. Len(delivered) : delivered'[i] = delivered[i]
        /\ Len(delivered) \in Nat
    <3>1. delivered' = Append(delivered, f)
      BY <1>2 DEF DequeueMove
    <3> HIDE DEF f
    <3> QED
      BY <3>1, <1>t, <2>2
  <2>7. f < enq_idx
    BY <1>r, <2>1, <2>5 DEF OnceInv, FramesBelow, LockInv, SlotsHeld
  <2>8. \A i \in 1 .. Len(delivered) : delivered[i] # f
    BY <1>r, <2>1, <2>6 DEF OnceInv, FramesDistinct
  <2>9. \A l \in 1 .. Len(frames) : l # cons_slot => frames[l] # f
    BY <1>r, <2>1 DEF OnceInv, FramesDistinct
  <2> HIDE DEF f
  <2>10. FramesBelow'
    BY <1>r, <2>3, <2>4, <2>5, <2>6, <2>7 DEF OnceInv, FramesBelow, producer
  <2>11. FramesDistinct'
    <3>1. \A k, l \in DOMAIN frames' :
             frames'[k] = frames'[l] /\ frames'[k] # NULL => k = l
      BY <1>r, <2>3, <2>4 DEF OnceInv, FramesDistinct
    <3>2. \A i \in DOMAIN delivered', k \in DOMAIN frames' :
             frames'[k] # delivered'[i]
      <4> SUFFICES ASSUME NEW i \in 1 .. Len(delivered) + 1,
                          NEW k \in 1 .. Len(frames)
                   PROVE  frames'[k] # delivered'[i]
        BY <2>4, <2>6
      <4>1. delivered'[i] \in Nat
        BY <1>t, <2>2, <2>6
      <4>2. CASE k = cons_slot
        BY <4>1, <4>2, <2>3, QueueAssumption
      <4>3. CASE k # cons_slot /\ i = Len(delivered) + 1
        BY <4>3, <2>3, <2>6, <2>9
      <4>4. CASE k # cons_slot /\ i # Len(delivered) + 1
        BY <4>4, <1>r, <2>3, <2>6 DEF OnceInv, FramesDistinct
      <4> QED
        BY <4>2, <4>3, <4>4
    <3> QED
      BY <3>1, <3>2 DEF FramesDistinct
  <2>12. DeliveredOnce'
    BY <2>6, <2>8 DEF OnceInv, DeliveredOnce
  <2> QED
    BY <2>10, <2>11, <2>12 DEF OnceInv
<1> QED
  BY <1>1, <1>2

\* Copying moves each frame at most once: two slots of the new vector are
\* filled from different slots of the old one.
LEMMA CopiedDistinct ==
  ASSUME LockInv, FramesDistinct,
         NEW n \in Nat \ {0}, NEW k \in 1 .. n, NEW l \in 1 .. n,
         Copied(k, n) = Copied(l, n), Copied(k, n) # NULL
  PROVE  /\ k = l
         /\ \E m \in DOMAIN frames : Copied(k, n) = frames[m]
<1>t. enq_idx \in Nat /\ deq_idx \in Nat
  BY DEF LockInv, TypeOK
<1>r. /\ Len(frames) \in Nat \ {0}
      /\ DOMAIN frames = 1 .. Len(frames)
      /\ \A i \in Nat : SlotOf(i) \in 1 .. Len(frames)
  BY HeldInRange
<1>1. \A h \in 1 .. n : Copied(h, n) # NULL =>
         \E i \in Nat : /\ i >= deq_idx /\ i < deq_idx + Len(frames)
                        /\ SlotIn(i, n) = h
                        /\ Copied(h, n) = frames[SlotOf(i)]
  <2> TAKE h \in 1 .. n
  <2> HAVE Copied(h, n) # NULL
  <2> DEFINE last == {i \in deq_idx .. enq_idx - 1 :
                         SlotIn(i, n) = h /\ i + n >= enq_idx}
  <2>1. last # {} /\ Copied(h, n) = Moved(CHOOSE i \in last : TRUE)
    BY DEF Copied
  <2>2. PICK i \in last : i = (CHOOSE j \in last : TRUE)
    BY <2>1
  <2>3. i \in Nat /\ i >= deq_idx /\ SlotIn(i, n) = h
    BY <1>t
  <2>4. Moved(i) # NULL
    BY <2>1, <2>2
  <2>5. i < deq_idx + Len(frames) /\ Moved(i) = frames[SlotOf(i)]
    BY <2>3, <2>4, <1>t, <1>r DEF Moved
  <2> QED
    BY <2>1, <2>2, <2>3, <2>5
<1>2. PICK i \in Nat : /\ i >= deq_idx /\ i < deq_idx + Len(frames)
                       /\ SlotIn(i, n) = k
                       /\ Copied(k, n) = frames[SlotOf(i)]
  BY <1>1
<1>3. PICK j \in Nat : /\ j >= deq_idx /\ j < deq_idx + Len(frames)
                       /\ SlotIn(j, n) = l
                       /\ Copied(l, n) = frames[SlotOf(j)]
  BY <1>1
<1>4. SlotOf(i) \in 1 .. Len(frames) /\ SlotOf(j) \in 1 .. Len(frames)
  BY <1>r, Zenon
<1>5. SlotOf(i) = SlotOf(j)
  BY <1>r, <1>2, <1>3, <1>4 DEF FramesDistinct
<1>6. i = j
  <2>1. CASE i < j
    BY <1>t, <1>r, <1>2, <1>3, <1>5, <2>1, WindowSlots DEF SlotOf
  <2>2. CASE j < i
    BY <1>t, <1>r, <1>2, <1>3, <1>5, <2>2, WindowSlots DEF SlotOf
  <2> QED
    BY <2>1, <2>2
<1> QED
  BY <1>r, <1>2, <1>3, <1>4, <1>6

\* No set call copies a frame.
LEMMA OnceSet ==
  ASSUME LockInv, OnceInv, NEW s \in Setters, Set(s)
  PROVE  OnceInv'
<1>c. Capacity(total_frames) \in Nat \ {0}
  BY CapacityPositive DEF LockInv, TypeOK
<1>d. \A i \in DOMAIN delivered : delivered[i] \in Nat
  BY DEF LockInv, TypeOK
<1>1. CASE RebuildEmpty(s)
  <2>1. /\ \A k \in DOMAIN frames' : frames'[k] = NULL
        /\ UNCHANGED <<enq_idx, delivered>>
    BY <1>1, <1>c DEF RebuildEmpty
  <2> QED
    BY <2>1, <1>d, QueueAssumption DEF OnceInv, FramesBelow, FramesDistinct,
                                       DeliveredOnce
<1>2. CASE RebuildSwap(s)
  <2> DEFINE n == Capacity(total_frames)
  <2>1. /\ DOMAIN frames' = 1 .. n
        /\ \A k \in 1 .. n : frames'[k] = Copied(k, n)
        /\ UNCHANGED <<enq_idx, producer, delivered>>
    BY <1>2, <1>c DEF RebuildSwap
  <2>2. prod # "commit"
    BY <1>2 DEF RebuildSwap, LockInv, Exclusion, RebuildOwns, ProducerShares
  <2>3. n \in Nat \ {0}
    BY <1>c
  <2> HIDE DEF n
  <2>4. \A k, l \in 1 .. n : Copied(k, n) = Copied(l, n) /\ Copied(k, n) # NULL
            => k = l /\ \E m \in DOMAIN frames : Copied(k, n) = frames[m]
    BY <2>3, CopiedDistinct DEF OnceInv
  <2>5. FramesBelow'
    BY <2>1, <2>2, <2>4 DEF OnceInv, FramesBelow
  <2>6. FramesDistinct'
    <3>1. \A k, l \in DOMAIN frames' :
             frames'[k] = frames'[l] /\ frames'[k] # NULL => k = l
      BY <2>1, <2>4
    <3>2. \A i \in DOMAIN delivered', k \in DOMAIN frames' :
             frames'[k] # delivered'[i]
      BY <2>1, <2>4, <1>d, QueueAssumption DEF OnceInv, FramesDistinct
    <3> QED
      BY <3>1, <3>2 DEF FramesDistinct
  <2> QED
    BY <2>1, <2>5, <2>6 DEF OnceInv, DeliveredOnce
<1>3. CASE ~RebuildEmpty(s) /\ ~RebuildSwap(s)
  <2>1. UNCHANGED <<enq_idx, frames, producer, delivered>>
    BY <1>3 DEF Set, SetCall, SetRejected, SetEnter, SetAssign, SetRecalculate,
                RebuildLock, RebuildSkip, RebuildClamp, vars, ring, producer
  <2> QED
    BY <2>1 DEF OnceInv, FramesBelow, FramesDistinct, DeliveredOnce, producer
<1> QED
  BY <1>1, <1>2, <1>3

\* Whatever the setters do, no frame reaches the drawing thread twice.
THEOREM DeliveredOnceAlways == Spec => []DeliveredOnce
<1>1. Init => OnceInv
  <2> SUFFICES ASSUME Init
               PROVE  OnceInv
    OBVIOUS
  <2>1. Capacity(total_frames) \in Nat \ {0}
    BY LockInit, CapacityPositive DEF LockInv, TypeOK
  <2> QED
    BY <2>1 DEF Init, OnceInv, FramesBelow, FramesDistinct, DeliveredOnce
<1>2. LockInv /\ OnceInv /\ [Next]_vars => OnceInv'
  <2> SUFFICES ASSUME LockInv, OnceInv, [Next]_vars
               PROVE  OnceInv'
    OBVIOUS
  <2>1. CASE UNCHANGED vars
    BY <2>1 DEF vars, OnceInv, FramesBelow, FramesDistinct, DeliveredOnce
  <2> QED
    BY <2>1, OnceEnqueue, OnceDequeue, OnceSet DEF Next
<1>3. OnceInv => DeliveredOnce
  BY DEF OnceInv
<1> QED
  BY <1>1, <1>2, <1>3, LocksCorrect, PTL DEF Spec

-------------------------------------------------------------------------------
(* What a rebuild keeps.                                                   *)

\* A pending index whose frame is in its slot, in a window that fits a vector of
\* n slots, has it in its slot of the new vector too.
LEMMA CopiedKeeps ==
  ASSUME LockInv, RingComplete, NEW n \in Nat \ {0}, enq_idx <= deq_idx + n,
         NEW i \in deq_idx .. enq_idx - 1
  PROVE  SlotIn(i, n) \in 1 .. n /\ Copied(SlotIn(i, n), n) = i
<1>t. enq_idx \in Nat /\ deq_idx \in Nat /\ i \in Nat
  BY DEF LockInv, TypeOK
<1>r. Len(frames) \in Nat \ {0}
  BY HeldInRange
<1>1. i < deq_idx + Len(frames)
  <2> SUFFICES ASSUME i >= deq_idx + Len(frames)
               PROVE  FALSE
    BY <1>t, <1>r
  <2> DEFINE j == i - Len(frames)
  <2>1. j \in deq_idx .. enq_idx - 1 /\ j # i
    BY <1>t, <1>r
  <2>2. SlotOf(j) = SlotOf(i)
    <3>1. j \in Nat /\ i = j + Len(frames)
      BY <1>t, <1>r
    <3> HIDE DEF j
    <3>2. SlotIn(j, Len(frames)) = SlotIn(i, Len(frames))
      BY <3>1, <1>t, <1>r, SameSlot
    <3> QED
      BY <3>2 DEF SlotOf
  <2> QED
    BY <2>1, <2>2 DEF RingComplete
<1>2. Moved(i) = i
  BY <1>1, <1>t, <1>r DEF Moved, RingComplete
<1> DEFINE last == {j \in deq_idx .. enq_idx - 1 :
                       SlotIn(j, n) = SlotIn(i, n) /\ j + n >= enq_idx}
<1>3. last = {i}
  <2>1. i \in last
    BY <1>t
  <2>2. ASSUME NEW j \in last, j # i
        PROVE  FALSE
    <3>1. j \in Nat /\ j < i + n /\ i < j + n /\ SlotIn(j, n) = SlotIn(i, n)
      BY <1>t
    <3>2. CASE i < j
      BY <3>1, <3>2, <1>t, WindowSlots
    <3>3. CASE j < i
      BY <3>1, <3>3, <1>t, WindowSlots
    <3> QED
      BY <3>1, <3>2, <3>3, <1>t, <2>2
  <2> QED
    BY <2>1, <2>2
<1>4. (CHOOSE j \in last : TRUE) = i
  BY <1>3
<1>5. Copied(SlotIn(i, n), n) = i
  BY <1>2, <1>3, <1>4 DEF Copied
<1> QED
  BY <1>5, <1>t, SlotInRange

\* The copy of a rebuild leaves a complete ring complete, if it fits.
LEMMA SwapKeeps ==
  ASSUME LockInv, OrderInv, NEW s \in Setters, RebuildSwap(s), RingComplete,
         Pending <= Capacity(total_frames)
  PROVE  RingComplete' /\ Len(frames') = Capacity(total_frames)
<1> DEFINE n == Capacity(total_frames)
<1>1. n \in Nat \ {0}
  BY CapacityPositive DEF LockInv, TypeOK
<1>2. enq_idx \in Nat /\ deq_idx \in Nat
  BY DEF LockInv, TypeOK
<1>3. deq_idx <= enq_idx
  BY DEF RebuildSwap, OrderInv, IndicesOrdered, LockInv, Exclusion
<1>4. enq_idx <= deq_idx + n
  BY <1>1, <1>2, <1>3 DEF Pending
<1>5. /\ UNCHANGED <<enq_idx, deq_idx>>
      /\ frames' = [k \in 1 .. n |-> Copied(k, n)]
      /\ Len(frames') = n
  BY <1>1 DEF RebuildSwap
<1> HIDE DEF n
<1>6. ASSUME NEW i \in deq_idx .. enq_idx - 1
      PROVE  frames'[SlotIn(i, n)] = i
  BY <1>1, <1>4, <1>5, <1>6, CopiedKeeps
<1>7. RingComplete'
  BY <1>5, <1>6 DEF RingComplete, SlotOf
<1> QED
  BY <1>5, <1>7 DEF n

\* Whatever setters, producer and consumer did before it, the copy of a rebuild
\* loses no frame that fits and leaves each where its index says.
THEOREM RebuildKeepsFramesAlways == Spec => RebuildKeepsFrames
<1>1. ASSUME LockInv, OrderInv, NEW s \in Setters, RebuildSwap(s), RingComplete,
             Pending <= Capacity(total_frames)
      PROVE  RingComplete'
  BY <1>1, SwapKeeps
<1>2. LockInv /\ OrderInv /\ [Next]_vars
        => [(\E s \in Setters : RebuildSwap(s))
              /\ RingComplete /\ Pending <= Capacity(total_frames)
              => RingComplete']_vars
  BY <1>1
<1> QED
  BY <1>2, LocksCorrect, OrderCorrect, PTL DEF Spec, RebuildKeepsFrames

-------------------------------------------------------------------------------
(* While nobody changes its delay, TelemetryQueue implements DelayLine:    *)
(* for every delay, rate and ring size, concurrent enqueue, dequeue and    *)
(* set calls lose, repeat and reorder nothing and honour the delay.        *)

\* Every call the code does not refuse asks for the delay there is; without a
\* delay it may ask for any rate.
KeepsDelay ==
    \A r \in Requests : Legal(r) =>
        IF r.op = "delay" THEN r.arg = InitDelay ELSE r.arg = InitRate \/ InitDelay = 0

SameSettings == delay_s = InitDelay /\ (refresh_hz = InitRate \/ InitDelay = 0)

\* The two settings then ask for the same number of frames for ever.
LEMMA SettingsNext ==
  ASSUME KeepsDelay, LockInv, SameSettings, [Next]_vars
  PROVE  SameSettings'
<1>1. ASSUME NEW s \in Setters, SetAssign(s)
      PROVE  SameSettings'
  <2>1. /\ request[s] \in Requests \cup [op : {"delay"}, arg : {InitDelay}]
        /\ Legal(request[s])
    BY DEF LockInv, TypeOK
  <2>2. IF request[s].op = "delay" THEN request[s].arg = InitDelay
                                   ELSE request[s].arg = InitRate \/ InitDelay = 0
    <3>1. CASE request[s] \in Requests
      BY <2>1, <3>1 DEF KeepsDelay
    <3>2. CASE request[s] \in [op : {"delay"}, arg : {InitDelay}]
      BY <3>2
    <3> QED
      BY <2>1, <3>1, <3>2
  <2> QED
    BY <1>1, <2>2 DEF SetAssign, SameSettings
<1>2. CASE \A s \in Setters : ~SetAssign(s)
  <2>1. UNCHANGED <<delay_s, refresh_hz>>
    BY <1>2 DEF Next, Enqueue, EnqueueCheck, EnqueueFull, EnqueueShared, EnqueueSlot,
           EnqueueStore, EnqueueCommit, Dequeue, DequeueCheck, DequeueEarly,
           DequeueShared, DequeueSlot, DequeueTake, DequeueMove, Set, SetCall,
           SetRejected, SetEnter, SetRecalculate, RebuildLock, RebuildEmpty,
           RebuildSkip, RebuildClamp, RebuildSwap, vars, config
  <2> QED
    BY <2>1 DEF SameSettings
<1> QED
  BY <1>1, <1>2

\* Whoever recalculates the number of frames finds it as it was.
LEMMA SameTotal ==
  ASSUME SameSettings
  PROVE  TotalFor(delay_s, refresh_hz) = TotalFor(InitDelay, InitRate)
BY DEF SameSettings, TotalFor

FixedTotal == TotalFor(InitDelay, InitRate)
Size == Capacity(FixedTotal)

\* A fixed configuration and a vector of its size.
FixedConfig ==
    /\ total_frames = FixedTotal
    /\ Len(frames) = Size

\* The window of pending indices fits the ring, and a producer past the
\* capacity test still has room: only the consumer can move meanwhile.
Window ==
    /\ deq_idx <= enq_idx
    /\ enq_idx <= deq_idx + Size
    /\ prod # "idle" => enq_idx < deq_idx + Size

\* A consumer past the delay test still has its delay: only the producer can
\* move meanwhile.  Between _deq_idx++ and the move the frame is still owed.
Owed ==
    /\ cons \in {"shared", "slot", "take"} => enq_idx - deq_idx >= MinFrames(FixedTotal)
    /\ cons # "move" => Len(delivered) = deq_idx
    /\ cons = "move" =>
          /\ Len(delivered) = deq_idx - 1
          /\ cons_slot = SlotOf(deq_idx - 1)
          /\ frames[cons_slot] = deq_idx - 1
          /\ enq_idx - (deq_idx - 1) >= MinFrames(FixedTotal)
          /\ enq_idx <= (deq_idx - 1) + Size

FixedInv == FixedConfig /\ Window /\ Owed /\ RingComplete

\* The size of the ring and the least wait, as numbers.
LEMMA FixedNumbers ==
  /\ FixedTotal \in Nat \cup {NONE}
  /\ FixedTotal # NONE => FixedTotal >= DELAY_SLOP
  /\ Size \in Nat \ {0}
  /\ MinFrames(FixedTotal) \in 0 .. Size
<1>1. InitDelay \in Nat /\ InitRate \in Nat \ {0}
  BY QueueAssumption
<1>2. FixedTotal \in Nat \cup {NONE} /\ (FixedTotal # NONE => FixedTotal >= DELAY_SLOP)
  BY <1>1, TotalForType DEF FixedTotal
<1> QED
  BY <1>2, QueueAssumption DEF Size, Capacity, MinFrames

\* Initially the ring is empty.
LEMMA FixedInit == Init => FixedInv
<1> SUFFICES ASSUME Init
             PROVE  FixedInv
  OBVIOUS
<1>1. Len(frames) = Size
  BY FixedNumbers DEF Init, Size, FixedTotal
<1>2. Window /\ RingComplete
  BY FixedNumbers DEF Init, Window, RingComplete
<1>3. Owed
  BY DEF Init, Owed
<1> QED
  BY <1>1, <1>2, <1>3 DEF Init, FixedInv, FixedConfig, FixedTotal

\* A frame about to be counted has room in the line even while the consumer is
\* still moving the previous one out: the slot mutex keeps the two apart.
LEMMA RoomWhileMoving ==
  ASSUME LockInv, FixedInv, prod = "commit"
  PROVE  enq_idx - Len(delivered) < Size
<1>t. enq_idx \in Nat /\ deq_idx \in Nat /\ Len(delivered) \in Nat
  BY DEF LockInv, TypeOK
<1>n. Size \in Nat \ {0} /\ Len(frames) = Size
  BY FixedNumbers DEF FixedInv, FixedConfig
<1>1. enq_idx < deq_idx + Size
  BY DEF FixedInv, Window
<1>2. CASE cons # "move"
  BY <1>t, <1>n, <1>1, <1>2 DEF FixedInv, Owed
<1>3. CASE cons = "move"
  <2>1. /\ Len(delivered) = deq_idx - 1
        /\ deq_idx - 1 \in Nat
        /\ cons_slot = SlotOf(deq_idx - 1)
    BY <1>t, <1>3 DEF FixedInv, Owed
  <2>2. SlotOf(enq_idx) # SlotOf(deq_idx - 1)
    BY <1>3, <2>1 DEF LockInv, SlotsHeld, ProducerShares
  <2>3. enq_idx # (deq_idx - 1) + Size
    BY <1>n, <2>1, <2>2, SameSlot DEF SlotOf
  <2> QED
    BY <1>t, <1>n, <1>1, <2>1, <2>3
<1> QED
  BY <1>2, <1>3

\* enqueue stores into the one free slot of the window.
LEMMA FixedEnqueue == LockInv /\ FixedInv /\ Enqueue => FixedInv'
<1> SUFFICES ASSUME LockInv, FixedInv, Enqueue
             PROVE  FixedInv'
  OBVIOUS
<1>t. enq_idx \in Nat /\ deq_idx \in Nat /\ Len(delivered) \in Nat
  BY DEF LockInv, TypeOK
<1>n. Size \in Nat \ {0} /\ MinFrames(FixedTotal) \in 0 .. Size /\ Len(frames) = Size
  BY FixedNumbers DEF FixedInv, FixedConfig
<1>r. /\ ProducerShares => prod_slot \in 1 .. Len(frames)
      /\ ConsumerShares => cons_slot \in 1 .. Len(frames)
      /\ \A i \in Nat : SlotOf(i) \in 1 .. Len(frames)
  BY HeldInRange
<1>1. CASE EnqueueCheck
  <2>1. UNCHANGED <<total_frames, ring, consumer, delivered>>
    BY <1>1 DEF EnqueueCheck, config
  <2>2. enq_idx < deq_idx + Size
    BY <1>1, <1>t, <1>n DEF EnqueueCheck, HasRoom, Pending, FixedInv, FixedConfig,
                            Window, Size
  <2> QED
    BY <2>1, <2>2 DEF FixedInv, FixedConfig, Window, Owed, RingComplete, ring,
                      consumer, SlotOf
<1>2. CASE EnqueueFull \/ EnqueueShared \/ EnqueueSlot
  <2>1. /\ UNCHANGED <<total_frames, ring, consumer, delivered>>
        /\ prod' # "idle" => prod # "idle"
    BY <1>2 DEF EnqueueFull, EnqueueShared, EnqueueSlot, vars, config, ring, consumer
  <2> QED
    BY <2>1 DEF FixedInv, FixedConfig, Window, Owed, RingComplete, ring,
                consumer, SlotOf
<1>3. CASE EnqueueStore
  <2>1. /\ prod_slot \in 1 .. Len(frames) /\ enq_idx \in Nat \cup {NULL}
        /\ prod_slot = SlotOf(enq_idx)
        /\ enq_idx < deq_idx + Size
    BY <1>3, <1>r, <1>t DEF EnqueueStore, ProducerShares, LockInv, SlotsHeld,
                            FixedInv, Window
  <2>2. /\ Len(frames') = Len(frames)
        /\ \A l \in 1 .. Len(frames) : l # prod_slot => frames'[l] = frames[l]
    BY <1>3, <2>1, WriteSlot DEF EnqueueStore
  <2>3. UNCHANGED <<total_frames, enq_idx, deq_idx, consumer, delivered>>
          /\ prod = "store"
    BY <1>3 DEF EnqueueStore, config
  <2>4. \A i \in Nat : SlotOf(i)' = SlotOf(i)
    BY <2>2 DEF SlotOf
  <2>5. RingComplete'
    <3> SUFFICES ASSUME NEW i \in deq_idx .. enq_idx - 1
                 PROVE  frames'[SlotOf(i)'] = i
      BY <2>3 DEF RingComplete, SlotOf
    <3>1. i \in Nat /\ i < enq_idx /\ enq_idx < i + Len(frames)
      BY <1>t, <1>n, <2>1
    <3>2. SlotOf(i) # SlotOf(enq_idx)
      BY <1>t, <1>n, <3>1, WindowSlots DEF SlotOf
    <3>3. SlotOf(i) \in 1 .. Len(frames) /\ SlotOf(i)' = SlotOf(i)
      BY <1>r, <2>4, <3>1, Zenon
    <3>4. frames[SlotOf(i)] = i
      BY DEF FixedInv, RingComplete
    <3> QED
      BY <2>1, <2>2, <3>2, <3>3, <3>4
  <2>6. Owed'
    <3>1. CASE cons = "move"
      <4>1. cons_slot # prod_slot /\ cons_slot \in 1 .. Len(frames)
        BY <1>3, <1>r, <3>1 DEF EnqueueStore, LockInv, SlotsHeld, ConsumerShares
      <4> QED
        BY <2>2, <2>3, <3>1, <4>1 DEF FixedInv, Owed, SlotOf, consumer
    <3>2. CASE cons # "move"
      BY <2>3, <3>2 DEF FixedInv, Owed, consumer
    <3> QED
      BY <3>1, <3>2
  <2> QED
    BY <2>2, <2>3, <2>5, <2>6 DEF FixedInv, FixedConfig, Window
<1>4. CASE EnqueueCommit
  <2>1. /\ UNCHANGED <<total_frames, deq_idx, frames, consumer, delivered>>
        /\ enq_idx' = enq_idx + 1 /\ prod = "commit" /\ prod' = "idle"
    BY <1>4 DEF EnqueueCommit, config
  <2>2. frames[SlotOf(enq_idx)] = enq_idx
    BY <2>1 DEF LockInv, SlotsHeld, ProducerShares
  <2>3. RingComplete'
    <3> SUFFICES ASSUME NEW i \in deq_idx .. enq_idx
                 PROVE  frames[SlotOf(i)] = i
      BY <1>t, <2>1 DEF RingComplete, SlotOf
    <3>1. i = enq_idx \/ i \in deq_idx .. enq_idx - 1
      BY <1>t
    <3> QED
      BY <2>2, <3>1 DEF FixedInv, RingComplete
  <2>4. Owed'
    <3>1. enq_idx - Len(delivered) < Size
      BY <2>1, RoomWhileMoving
    <3> QED
      BY <1>t, <1>n, <2>1, <3>1 DEF FixedInv, Owed, SlotOf, consumer
  <2>5. Window'
    BY <1>t, <1>n, <2>1 DEF FixedInv, Window
  <2> QED
    BY <2>1, <2>3, <2>4, <2>5 DEF FixedInv, FixedConfig
<1> QED
  BY <1>1, <1>2, <1>3, <1>4 DEF Enqueue

\* dequeue takes the oldest frame, and only when the delay is filled.
LEMMA FixedDequeue == LockInv /\ OrderInv /\ FixedInv /\ Dequeue => FixedInv'
<1> SUFFICES ASSUME LockInv, OrderInv, FixedInv, Dequeue
             PROVE  FixedInv'
  OBVIOUS
<1>t. enq_idx \in Nat /\ deq_idx \in Nat /\ Len(delivered) \in Nat
  BY DEF LockInv, TypeOK
<1>n. Size \in Nat \ {0} /\ MinFrames(FixedTotal) \in 0 .. Size /\ Len(frames) = Size
  BY FixedNumbers DEF FixedInv, FixedConfig
<1>r. /\ DOMAIN frames = 1 .. Len(frames)
      /\ ConsumerShares => cons_slot \in 1 .. Len(frames)
      /\ \A i \in Nat : SlotOf(i) \in 1 .. Len(frames)
  BY HeldInRange
<1>1. CASE DequeueCheck
  <2>1. UNCHANGED <<total_frames, ring, producer, delivered>>
          /\ cons = "idle" /\ cons' = "shared"
    BY <1>1 DEF DequeueCheck, config
  <2>2. enq_idx - deq_idx >= MinFrames(FixedTotal)
    BY <1>1, <1>t DEF DequeueCheck, DelayReached, Pending, FixedInv, FixedConfig,
                      Window
  <2> QED
    BY <2>1, <2>2 DEF FixedInv, FixedConfig, Window, Owed, RingComplete, ring,
                      producer, SlotOf
<1>2. CASE DequeueEarly \/ DequeueShared \/ DequeueSlot
             \/ (DequeueTake /\ frames[cons_slot] = NULL)
  <2>1. /\ UNCHANGED <<total_frames, ring, producer, delivered>>
        /\ cons # "move" /\ cons' # "move"
        /\ cons' \in {"shared", "slot", "take"} => cons \in {"shared", "slot", "take"}
    BY <1>2 DEF DequeueEarly, DequeueShared, DequeueSlot, DequeueTake, vars,
                config, ring, producer
  <2> QED
    BY <2>1 DEF FixedInv, FixedConfig, Window, Owed, RingComplete, ring,
                producer, SlotOf
<1>3. CASE DequeueTake /\ frames[cons_slot] # NULL
  <2>1. /\ UNCHANGED <<total_frames, enq_idx, frames, producer, cons_slot, delivered>>
        /\ deq_idx' = deq_idx + 1 /\ cons = "take" /\ cons' = "move"
    BY <1>3 DEF DequeueTake, config
  <2>2. cons_slot = SlotOf(deq_idx) /\ ~RebuildOwns
          /\ ~(prod = "commit" /\ prod_slot = cons_slot)
    BY <2>1 DEF LockInv, Exclusion, SlotsHeld, ConsumerShares
  <2>3. deq_idx < enq_idx
    <3>1. cons_slot \in DOMAIN frames
      BY <1>r, <2>1 DEF ConsumerShares
    <3> QED
      BY <1>3, <1>t, <2>1, <2>2, <3>1 DEF OrderInv, NoStaleFrame
  <2>4. frames[cons_slot] = deq_idx
    BY <1>t, <2>2, <2>3 DEF FixedInv, RingComplete
  <2>5. Owed'
    BY <1>t, <1>n, <2>1, <2>2, <2>4 DEF FixedInv, Window, Owed, SlotOf
  <2>6. Window'
    BY <1>t, <1>n, <2>1, <2>3 DEF FixedInv, Window, producer
  <2>7. RingComplete'
    BY <1>t, <2>1 DEF FixedInv, RingComplete, SlotOf
  <2> QED
    BY <2>1, <2>5, <2>6, <2>7 DEF FixedInv, FixedConfig
<1>4. CASE DequeueMove
  <2>1. cons_slot \in 1 .. Len(frames) /\ NULL \in Nat \cup {NULL} /\ cons = "move"
    BY <1>4, <1>r DEF DequeueMove, ConsumerShares
  <2>2. /\ Len(frames') = Len(frames)
        /\ \A l \in 1 .. Len(frames) : l # cons_slot => frames'[l] = frames[l]
    BY <1>4, <2>1, WriteSlot DEF DequeueMove
  <2>3. UNCHANGED <<total_frames, enq_idx, deq_idx, cons_slot, producer>>
          /\ cons' = "idle"
    BY <1>4 DEF DequeueMove, config
  <2>4. /\ cons_slot = SlotOf(deq_idx - 1)
        /\ Len(delivered) = deq_idx - 1
        /\ deq_idx - 1 \in Nat
    BY <1>t, <2>1 DEF FixedInv, Owed
  <2>5. RingComplete'
    <3> SUFFICES ASSUME NEW i \in deq_idx .. enq_idx - 1
                 PROVE  frames'[SlotOf(i)'] = i
      BY <2>3 DEF RingComplete, SlotOf
    <3>0. SlotOf(i)' = SlotOf(i)
      BY <2>2 DEF SlotOf
    <3>1. i \in Nat /\ deq_idx - 1 < i /\ i < (deq_idx - 1) + Len(frames)
      BY <1>t, <1>n, <2>1 DEF FixedInv, Owed
    <3>2. SlotOf(i) # cons_slot
      BY <1>n, <2>4, <3>1, WindowSlots DEF SlotOf
    <3>3. SlotOf(i) \in 1 .. Len(frames)
      BY <1>r, <3>1, Zenon
    <3>4. frames[SlotOf(i)] = i
      BY DEF FixedInv, RingComplete
    <3> QED
      BY <2>2, <3>0, <3>2, <3>3, <3>4
  <2>6. Owed'
    <3>1. Len(delivered') = Len(delivered) + 1
      BY <1>4 DEF DequeueMove, LockInv, TypeOK
    <3> QED
      BY <1>t, <2>3, <2>4, <3>1 DEF Owed
  <2> QED
    BY <2>2, <2>3, <2>5, <2>6 DEF FixedInv, FixedConfig, Window, producer
<1> QED
  BY <1>1, <1>2, <1>3, <1>4 DEF Dequeue

\* A set call that asks for the delay there is rebuilds the ring as it was.
LEMMA FixedSet ==
  ASSUME LockInv, OrderInv, FixedInv, SameSettings, NEW s \in Setters, Set(s)
  PROVE  FixedInv' /\ UNCHANGED <<enq_idx, delivered>>
<1>t. enq_idx \in Nat /\ deq_idx \in Nat
  BY DEF LockInv, TypeOK
<1>n. /\ Size \in Nat \ {0} /\ Len(frames) = Size /\ total_frames = FixedTotal
      /\ Capacity(total_frames) = Size
  BY FixedNumbers DEF FixedInv, FixedConfig, Size
<1>o. deq_idx <= enq_idx /\ enq_idx <= deq_idx + Size
  BY DEF FixedInv, Window
<1>1. UNCHANGED <<enq_idx, producer, consumer, delivered>>
  BY DEF Set, SetCall, SetRejected, SetEnter, SetAssign, SetRecalculate, RebuildLock,
         RebuildEmpty, RebuildSkip, RebuildClamp, RebuildSwap, ring, vars, producer,
         consumer
<1>2. total_frames' = FixedTotal
  <2>1. CASE SetRecalculate(s)
    BY <2>1, SameTotal DEF SetRecalculate, FixedTotal
  <2>2. CASE ~SetRecalculate(s)
    BY <2>2, <1>n DEF Set, SetCall, SetRejected, SetEnter, SetAssign, RebuildLock,
       RebuildEmpty, RebuildSkip, RebuildClamp, RebuildSwap, config, vars
  <2> QED
    BY <2>1, <2>2
<1>3. deq_idx' = deq_idx
  <2>1. CASE RebuildSkip(s)
    <3>1. SkipFrames(Size, Size) = 0
      BY <1>n DEF SkipFrames
    <3> QED
      BY <1>n, <1>t, <2>1, <3>1 DEF RebuildSkip
  <2>2. CASE RebuildClamp(s)
    BY <1>o, <2>2 DEF RebuildClamp
  <2>3. CASE ~RebuildSkip(s) /\ ~RebuildClamp(s)
    BY <2>3 DEF Set, SetCall, SetRejected, SetEnter, SetAssign, SetRecalculate,
       RebuildLock, RebuildEmpty, RebuildSwap, ring, vars
  <2> QED
    BY <2>1, <2>2, <2>3
<1>4. Window'
  BY <1>1, <1>3 DEF FixedInv, Window, producer
<1>5. CASE RebuildEmpty(s) \/ RebuildSwap(s)
  <2>1. ~ConsumerShares
    BY <1>5 DEF RebuildEmpty, RebuildSwap, RebuildOwns, LockInv, Exclusion
  <2>2. Owed'
    BY <1>1, <1>3, <2>1 DEF FixedInv, Owed, ConsumerShares, consumer
  <2>3. Len(frames') = Size /\ RingComplete'
    <3>1. CASE RebuildEmpty(s)
      <4>1. Len(frames') = Size
        BY <1>n, <3>1 DEF RebuildEmpty
      <4>2. enq_idx = 0
        BY <3>1 DEF RebuildEmpty
      <4> QED
        BY <1>t, <1>1, <1>3, <4>1, <4>2 DEF RingComplete
    <3>2. CASE RebuildSwap(s)
      <4>1. Pending <= Capacity(total_frames) /\ RingComplete
        BY <1>t, <1>n, <1>o DEF Pending, FixedInv
      <4> QED
        BY <1>n, <3>2, <4>1, SwapKeeps
    <3> QED
      BY <1>5, <3>1, <3>2
  <2> QED
    BY <1>1, <1>2, <1>4, <2>2, <2>3 DEF FixedInv, FixedConfig
<1>6. CASE ~RebuildEmpty(s) /\ ~RebuildSwap(s)
  <2>1. UNCHANGED frames
    BY <1>6 DEF Set, SetCall, SetRejected, SetEnter, SetAssign, SetRecalculate,
       RebuildLock, RebuildSkip, RebuildClamp, ring, vars
  <2>2. Owed' /\ RingComplete'
    BY <1>1, <1>3, <2>1 DEF FixedInv, Owed, RingComplete, SlotOf, consumer
  <2> QED
    BY <1>1, <1>2, <1>4, <1>n, <2>1, <2>2 DEF FixedInv, FixedConfig
<1> QED
  BY <1>5, <1>6

\* One step of any of the threads keeps the invariant.
LEMMA FixedNext ==
  ASSUME LockInv, OrderInv, SameSettings, FixedInv, [Next]_vars
  PROVE  FixedInv'
<1>1. CASE UNCHANGED vars
  BY <1>1 DEF vars, FixedInv, FixedConfig, Window, Owed, RingComplete, SlotOf
<1> QED
  BY <1>1, FixedEnqueue, FixedDequeue, FixedSet DEF Next

\* The settings, the window and the ring in every reachable state.
LEMMA FixedCorrect == ASSUME KeepsDelay PROVE Spec => [](SameSettings /\ FixedInv)
<1>1. Init => SameSettings /\ FixedInv
  BY FixedInit DEF Init, SameSettings
<1>2. LockInv /\ OrderInv /\ SameSettings /\ FixedInv /\ [Next]_vars
        => (SameSettings /\ FixedInv)'
  BY SettingsNext, FixedNext
<1> QED
  BY <1>1, <1>2, LocksCorrect, OrderCorrect, PTL DEF Spec

\* While the delay is left alone, or set again to what it is by any number of
\* threads, every accepted frame stays in its slot until it is read: the
\* capacity test before the locks is enough for one producer and one consumer.
THEOREM RingCompleteWhenFixed == ASSUME KeepsDelay PROVE Spec => []RingComplete
<1>1. FixedInv => RingComplete
  BY DEF FixedInv
<1> QED
  BY <1>1, FixedCorrect, PTL

-------------------------------------------------------------------------------
(* The refinement: _enq_idx++ accepts, the move out of the slot releases.  *)

\* Counting a stored frame accepts it.
LEMMA CommitAccepts ==
  ASSUME LockInv, FixedInv, EnqueueCommit
  PROVE  Line!Accept
<1>1. prod = "commit" /\ enq_idx' = enq_idx + 1 /\ UNCHANGED delivered
  BY DEF EnqueueCommit
<1>2. enq_idx - Len(delivered) < Size
  BY <1>1, RoomWhileMoving
<1> QED
  BY <1>1, <1>2 DEF Line!Accept, Line!Waiting, Size, FixedTotal

\* The frame moved out is the oldest one waiting, and the delay is filled.
LEMMA MoveReleases ==
  ASSUME LockInv, FixedInv, DequeueMove
  PROVE  Line!Release
<1>t. enq_idx \in Nat /\ deq_idx \in Nat /\ Len(delivered) \in Nat
  BY DEF LockInv, TypeOK
<1>1. /\ cons = "move" /\ UNCHANGED enq_idx
      /\ delivered' = Append(delivered, frames[cons_slot])
  BY DEF DequeueMove
<1>2. /\ frames[cons_slot] = Len(delivered)
      /\ Len(delivered) = deq_idx - 1
      /\ enq_idx - Len(delivered) >= MinFrames(FixedTotal)
      /\ deq_idx <= enq_idx
  BY <1>1 DEF FixedInv, Owed, Window
<1>3. enq_idx - Len(delivered) > 0
  BY <1>t, <1>2
<1> QED
  BY <1>1, <1>2, <1>3 DEF Line!Release, Line!Waiting, FixedTotal

\* While the delay is left alone, or set again to what it is, the queue with its
\* locks, its unlocked tests, its rebuilds and all its threads is a DelayLine:
\* first in first out, nothing lost and nothing early.
THEOREM ImplementsDelayLine == ASSUME KeepsDelay PROVE Spec => DelayLineSpec
<1>1. Init => Line!Init
  BY DEF Init, Line!Init
<1>2. LockInv /\ OrderInv /\ SameSettings /\ FixedInv /\ [Next]_vars
        => [Line!Next]_<<enq_idx, delivered>>
  <2> SUFFICES ASSUME LockInv, OrderInv, SameSettings, FixedInv, [Next]_vars
               PROVE  Line!Next \/ UNCHANGED <<enq_idx, delivered>>
    OBVIOUS
  <2>1. CASE EnqueueCommit
    BY <2>1, CommitAccepts DEF Line!Next
  <2>2. CASE DequeueMove
    BY <2>2, MoveReleases DEF Line!Next
  <2>3. CASE UNCHANGED vars
    BY <2>3 DEF vars
  <2>4. ASSUME NEW s \in Setters, Set(s)
        PROVE  UNCHANGED <<enq_idx, delivered>>
    BY <2>4, FixedSet
  <2>5. CASE (Enqueue /\ ~EnqueueCommit) \/ (Dequeue /\ ~DequeueMove)
    BY <2>5 DEF Enqueue, EnqueueCheck, EnqueueFull, EnqueueShared, EnqueueSlot,
                EnqueueStore, Dequeue, DequeueCheck, DequeueEarly,
                DequeueShared, DequeueSlot, DequeueTake, vars, ring
  <2> QED
    BY <2>1, <2>2, <2>3, <2>4, <2>5 DEF Next
<1> QED
  BY <1>1, <1>2, FixedCorrect, LocksCorrect, OrderCorrect, PTL
     DEF Spec, DelayLineSpec, Line!Spec

==============================================================================
