----------------------------- MODULE LoggerProofs -----------------------------
(***************************************************************************)
(* Theorems about ThreadSafeQueue for every number of producers and every  *)
(* size of the ring, and about Logger, which runs on it.                   *)
(***************************************************************************)
EXTENDS Logger, NumberFacts, FiniteSetTheorems, SequenceTheorems, TLAPS

-------------------------------------------------------------------------------
(* Counting the producers by control point.                                *)

Points == {"idle", "count", "place", "advance", "wrap", "release"}
Busy == Points \ {"idle"}
Counted == {"place", "advance", "wrap", "release"}
Stored == {"advance", "wrap", "release"}

Count(f, K) == Cardinality({q \in Producers : f[q] \in K})
In(v, K) == IF v \in K THEN 1 ELSE 0

\* A set of producers is finite: it has a number of members.
LEMMA CountType ==
  ASSUME NEW f, NEW K
  PROVE  /\ IsFiniteSet({q \in Producers : f[q] \in K})
         /\ Count(f, K) \in Nat
<1>1. {q \in Producers : f[q] \in K} \in SUBSET Producers
  OBVIOUS
<1>2. IsFiniteSet({q \in Producers : f[q] \in K})
  BY <1>1, FS_Subset, ThreadSafeQueueAssumption
<1> QED
  BY <1>2, FS_CardinalityType DEF Count

\* One producer moves: each count changes by that producer.
LEMMA CountStep ==
  ASSUME NEW f \in [Producers -> Points], NEW p \in Producers, NEW v \in Points, NEW K
  PROVE  Count([f EXCEPT ![p] = v], K)
            = Count(f, K) + In(v, K) - In(f[p], K)
<1> DEFINE A == {q \in Producers : f[q] \in K}
           g == [f EXCEPT ![p] = v]
           B == {q \in Producers : g[q] \in K}
<1>1. IsFiniteSet(A) /\ Cardinality(A) \in Nat
  BY CountType DEF Count
<1>2. CASE v \in K
  <2>1. B = A \cup {p}
    BY <1>2
  <2>2. Cardinality(B) = IF p \in A THEN Cardinality(A) ELSE Cardinality(A) + 1
    BY <1>1, <2>1, FS_AddElement, Zenon
  <2> QED
    BY <1>1, <1>2, <2>2 DEF Count, In
<1>3. CASE v \notin K
  <2>1. B = A \ {p}
    BY <1>3
  <2>2. Cardinality(B) = IF p \in A THEN Cardinality(A) - 1 ELSE Cardinality(A)
    BY <1>1, <2>1, FS_RemoveElement, Zenon
  <2> QED
    BY <1>1, <1>3, <2>2 DEF Count, In
<1> QED
  BY <1>2, <1>3

\* Producers further on are among those that have come less far.
LEMMA CountMonotone ==
  ASSUME NEW f, NEW K, NEW L, K \subseteq L
  PROVE  Count(f, K) <= Count(f, L)
<1> DEFINE A == {q \in Producers : f[q] \in K}
           B == {q \in Producers : f[q] \in L}
<1>1. A \in SUBSET B
  OBVIOUS
<1>2. IsFiniteSet(B)
  BY CountType
<1> HIDE DEF A, B
<1>3. Cardinality(A) <= Cardinality(B)
  BY <1>1, <1>2, FS_Subset
<1> QED
  BY <1>3 DEF Count, A, B

\* At the start every producer is at one point.
LEMMA CountInit ==
  ASSUME NEW K, "idle" \notin K
  PROVE  Count([p \in Producers |-> "idle"], K) = 0
<1> DEFINE f == [p \in Producers |-> "idle"]
           A == {q \in Producers : f[q] \in K}
<1>1. \A q \in Producers : f[q] = "idle"
  OBVIOUS
<1> HIDE DEF f
<1>2. A = {}
  BY <1>1
<1>3. Cardinality(A) = 0
  BY <1>2, FS_EmptySet
<1> QED
  BY <1>3 DEF Count, f

-------------------------------------------------------------------------------
(* The permits, the size and the histories account for one another.        *)

\* Every variable has its type, an index passes the end of the ring only
\* between its increment and its store, and a producer inside enqueue has an
\* item left to offer.
IndicesInRange ==
    /\ enq_next \in [Producers -> Nat]
    /\ enq_idx <= Size - 1 + Count(prod, {"wrap"})
    /\ cons # "wrap" => deq_idx < Size
    /\ \A p \in Producers : prod[p] # "idle" => offered[p] < MaxItems

\* What the size would be if it could be negative: a blocking consumer
\* counts before it waits.
Balance == deq_sem + Count(prod, Counted) + In(cons, {"count"}) - In(cons, {"wait"})

SizeCounts == size = IF Balance = -1 THEN SizeT - 1 ELSE Balance

\* What is in the ring has a permit, or a thread on its way to or from one.
RingCounts ==
    Len(placed) = Len(taken) + deq_sem + Count(prod, Stored)
                    + In(cons, {"count", "take"})

QueueInv ==
    TypeOK /\ IndicesInRange /\ PermitsConserved /\ SizeCounts /\ RingCounts

\* The constants.
LEMMA SizesPositive == Size \in Nat /\ Size > 2 /\ SizeT \in Nat /\ SizeT > Size
                         /\ MaxItems \in Nat
BY ThreadSafeQueueAssumption

\* The permits in use, counted by control point.
LEMMA FillingCounts ==
  ASSUME prod \in [Producers -> Points]
  PROVE  Cardinality(Filling) = Count(prod, Busy)
<1>1. Filling = {q \in Producers : prod[q] \in Busy}
  BY DEF Filling, Busy, Points
<1> QED
  BY <1>1 DEF Count

\* What a producer that moves from control point u to v does to the counts.
Accounts(u, v) ==
    /\ prod' \in [Producers -> Points]
    /\ Cardinality(Filling) \in Nat /\ Cardinality(Filling') \in Nat
    /\ Count(prod, Counted) \in Nat /\ Count(prod, Stored) \in Nat
    /\ Count(prod, {"wrap"}) \in Nat /\ Count(prod', {"wrap"}) \in Nat
    /\ Cardinality(Filling') = Cardinality(Filling) + In(v, Busy) - In(u, Busy)
    /\ Count(prod', Counted) = Count(prod, Counted) + In(v, Counted) - In(u, Counted)
    /\ Count(prod', Stored) = Count(prod, Stored) + In(v, Stored) - In(u, Stored)
    /\ Count(prod', {"wrap"}) = Count(prod, {"wrap"}) + In(v, {"wrap"}) - In(u, {"wrap"})

\* Every such move does.
LEMMA ProducerCounts ==
  ASSUME prod \in [Producers -> Points],
         NEW p \in Producers, NEW u \in Points, NEW v \in Points,
         prod[p] = u, prod' = [prod EXCEPT ![p] = v]
  PROVE  Accounts(u, v)
<1>1. prod' \in [Producers -> Points]
  OBVIOUS
<1>2. \A K : Count(prod, K) \in Nat /\ Count(prod', K) \in Nat
  BY CountType
<1>3. \A K : Count(prod', K) = Count(prod, K) + In(v, K) - In(u, K)
  BY CountStep
<1>4. Cardinality(Filling) = Count(prod, Busy)
  BY FillingCounts
<1>5. Cardinality(Filling') = Count(prod', Busy)
  <2>1. Filling' = {q \in Producers : prod'[q] \in Busy}
    BY <1>1 DEF Filling, Busy, Points
  <2> QED
    BY <2>1 DEF Count
<1> QED
  BY <1>1, <1>2, <1>3, <1>4, <1>5 DEF Accounts

-------------------------------------------------------------------------------
\* The line of the ring as it is built.
LEMMA QueueInvInit == Init => QueueInv
<1> SUFFICES ASSUME Init
             PROVE  QueueInv
  OBVIOUS
<1> USE SizesPositive
<1>1. prod = [p \in Producers |-> "idle"]
  BY DEF Init
<1>2. /\ Count(prod, Busy) = 0 /\ Count(prod, Counted) = 0
      /\ Count(prod, Stored) = 0 /\ Count(prod, {"wrap"}) = 0
  BY <1>1, CountInit DEF Busy, Counted, Stored
<1>3. prod \in [Producers -> Points]
  BY <1>1 DEF Points
<1>4. Cardinality(Filling) = 0
  BY <1>2, <1>3, FillingCounts
<1>5. Cardinality(Producers) \in Nat
  BY FS_CardinalityType, ThreadSafeQueueAssumption
<1>6. TypeOK
  <2>1. placed \in Seq(Items) /\ taken \in Seq(Items \cup {NULL})
    BY DEF Init
  <2>2. queue \in [0 .. Size - 1 -> Items \cup {NULL}]
    BY DEF Init
  <2>3. offered \in [Producers -> 0 .. MaxItems]
    BY DEF Init
  <2> QED
    BY <1>3, <1>5, <2>1, <2>2, <2>3 DEF Init, TypeOK, Points
<1>7. IndicesInRange
  BY <1>1, <1>2 DEF Init, IndicesInRange
<1>8. PermitsConserved
  BY <1>4 DEF Init, PermitsConserved, Emptying
<1>9. SizeCounts /\ RingCounts
  BY <1>2 DEF Init, SizeCounts, RingCounts, Balance, In
<1> QED
  BY <1>6, <1>7, <1>8, <1>9 DEF QueueInv

\* The size at the edges of its type: it passes through 2^64 - 1 and back.
LEMMA SizeSteps ==
  ASSUME NEW b \in -1 .. Size - 1
  PROVE  LET s(x) == IF x = -1 THEN SizeT - 1 ELSE x
         IN  /\ b + 1 <= Size - 1 => (s(b) + 1) % SizeT = s(b + 1)
             /\ b >= 0 => (s(b) + SizeT - 1) % SizeT = s(b - 1)
<1> USE SizesPositive
<1>1. CASE b = -1
  <2>1. (SizeT - 1 + 1) = SizeT * 1 + 0
    OBVIOUS
  <2>2. (SizeT - 1 + 1) % SizeT = 0
    BY <2>1, ModUnique
  <2> QED
    BY <1>1, <2>2
<1>2. CASE b = 0
  <2>1. (0 + SizeT - 1) % SizeT = SizeT - 1
    BY SmallMod
  <2>2. (0 + 1) % SizeT = 1
    BY SmallMod
  <2> QED
    BY <1>2, <2>1, <2>2
<1>3. CASE b > 0
  <2>1. /\ b - 1 \in 0 .. SizeT - 1
        /\ b + SizeT - 1 = SizeT * 1 + (b - 1)
    BY <1>3
  <2>2. (b + SizeT - 1) % SizeT = b - 1
    BY <2>1, ModUnique
  <2>3. b + 1 <= Size - 1 => (b + 1) % SizeT = b + 1
    BY <1>3, SmallMod
  <2> QED
    BY <1>3, <2>2, <2>3
<1> QED
  BY <1>1, <1>2, <1>3

\* The size of a queue in use never reaches the size of the array.
LEMMA BalanceBound ==
  ASSUME TypeOK, PermitsConserved
  PROVE  Balance \in -1 .. Size - 1
<1>1. prod \in [Producers -> Points]
  BY DEF TypeOK, Points
<1>2. Cardinality(Filling) = Count(prod, Busy)
  BY <1>1, FillingCounts
<1>3. Count(prod, Counted) <= Count(prod, Busy)
  BY CountMonotone DEF Counted, Busy, Points
<1>4. Count(prod, Counted) \in Nat /\ Count(prod, Busy) \in Nat
  BY CountType
<1>5. /\ enq_sem \in Nat /\ deq_sem \in Nat
      /\ cons \in {"idle", "count", "wait", "take", "advance", "wrap", "release"}
  BY SizesPositive DEF TypeOK
<1>6. /\ Emptying \in {0, 1} /\ In(cons, {"count"}) \in {0, 1}
      /\ In(cons, {"wait"}) \in {0, 1}
      /\ In(cons, {"count"}) <= Emptying
  BY <1>5 DEF Emptying, In
<1> QED
  BY <1>2, <1>3, <1>4, <1>5, <1>6, SizesPositive DEF PermitsConserved, Balance

\* The same of the next state.
LEMMA BalanceBoundNext ==
  ASSUME TypeOK', PermitsConserved'
  PROVE  Balance' \in -1 .. Size - 1
<1>1. prod' \in [Producers -> Points]
  BY DEF TypeOK, Points
<1>2. Cardinality(Filling') = Count(prod', Busy)
  <2>1. Filling' = {q \in Producers : prod'[q] \in Busy}
    BY <1>1 DEF Filling, Busy, Points
  <2> QED
    BY <2>1 DEF Count
<1>3. Count(prod', Counted) <= Count(prod', Busy)
  BY CountMonotone DEF Counted, Busy, Points
<1>4. Count(prod', Counted) \in Nat /\ Count(prod', Busy) \in Nat
  BY CountType
<1>5. /\ enq_sem' \in Nat /\ deq_sem' \in Nat
      /\ cons' \in {"idle", "count", "wait", "take", "advance", "wrap", "release"}
  BY SizesPositive DEF TypeOK
<1>6. /\ Emptying' \in {0, 1} /\ In(cons', {"count"}) \in {0, 1}
      /\ In(cons', {"wait"}) \in {0, 1}
      /\ In(cons', {"count"}) <= Emptying'
  BY <1>5 DEF Emptying, In
<1> QED
  BY <1>2, <1>3, <1>4, <1>5, <1>6, SizesPositive DEF PermitsConserved, Balance

\* No more producers are between increment and store than there are.
LEMMA WrapBound ==
  ASSUME NEW f
  PROVE  /\ Count(f, {"wrap"}) \in Nat /\ Cardinality(Producers) \in Nat
         /\ Count(f, {"wrap"}) <= Cardinality(Producers)
<1>1. {q \in Producers : f[q] \in {"wrap"}} \in SUBSET Producers
  OBVIOUS
<1> QED
  BY <1>1, CountType, FS_Subset, FS_CardinalityType, ThreadSafeQueueAssumption
     DEF Count

\* One step of a producer keeps the accounts: what it adds to one side of an
\* equation, its control point takes from the other.
LEMMA EnqueueKeepsCounts ==
  ASSUME QueueInv, NEW p \in Producers, Enqueue(p)
  PROVE  QueueInv'
<1> USE SizesPositive
<1>t. /\ prod \in [Producers -> Points] /\ Count(prod, {"wrap"}) \in Nat
      /\ offered \in [Producers -> 0 .. MaxItems]
      /\ enq_next \in [Producers -> Nat]
  BY CountType DEF QueueInv, TypeOK, Points, IndicesInRange
<1>b. Balance \in -1 .. Size - 1
  BY BalanceBound DEF QueueInv
<1>1. CASE EnqueueThrows(p)
  BY <1>1 DEF EnqueueThrows, QueueInv, TypeOK, IndicesInRange, PermitsConserved,
              SizeCounts, RingCounts, Balance, Filling, Emptying, producers, semaphores,
              history, consumer
<1>2. CASE EnqueueAcquire(p)
  <2>1. /\ prod[p] = "idle" /\ offered[p] < MaxItems
        /\ enq_sem > 0 /\ enq_sem' = enq_sem - 1
        /\ prod' = [prod EXCEPT ![p] = "count"]
        /\ UNCHANGED <<enq_idx, deq_idx, size, deq_sem, queue, offered, enq_next,
                       cons, blocked, aborted, placed, taken>>
    BY <1>2 DEF EnqueueAcquire, consumer, history
  <2>2. /\ prod' \in [Producers -> Points]
        /\ Count(prod', Counted) = Count(prod, Counted)
        /\ Count(prod', Stored) = Count(prod, Stored)
        /\ Count(prod', {"wrap"}) = Count(prod, {"wrap"})
        /\ Cardinality(Filling') = Cardinality(Filling) + 1
        /\ Cardinality(Filling) \in Nat
    <3>1. Accounts("idle", "count")
      BY <1>t, <2>1, ProducerCounts DEF Points
    <3> QED
      BY <3>1 DEF Accounts, Busy, Points, Counted, Stored, In
  <2>3. PermitsConserved'
    BY <2>1, <2>2 DEF QueueInv, TypeOK, PermitsConserved, Emptying
  <2>4. TypeOK'
    BY <2>1, <2>2 DEF QueueInv, TypeOK, Points
  <2>5. IndicesInRange'
    BY <1>t, <2>1, <2>2 DEF QueueInv, IndicesInRange
  <2>6. SizeCounts' /\ RingCounts'
    BY <2>1, <2>2 DEF QueueInv, SizeCounts, RingCounts, Balance
  <2> QED
    BY <2>3, <2>4, <2>5, <2>6 DEF QueueInv
<1>3. CASE EnqueueCount(p)
  <2>1. /\ prod[p] = "count"
        /\ size' = (size + 1) % SizeT
        /\ prod' = [prod EXCEPT ![p] = "place"]
        /\ UNCHANGED <<enq_idx, deq_idx, enq_sem, deq_sem, queue, offered, enq_next,
                       cons, blocked, aborted, placed, taken>>
    BY <1>3 DEF EnqueueCount, consumer, history, semaphores
  <2>2. /\ prod' \in [Producers -> Points]
        /\ Count(prod', Counted) = Count(prod, Counted) + 1
        /\ Count(prod', Stored) = Count(prod, Stored)
        /\ Count(prod', {"wrap"}) = Count(prod, {"wrap"})
        /\ Cardinality(Filling') = Cardinality(Filling)
        /\ Count(prod, Counted) \in Nat
    <3>1. Accounts("count", "place")
      BY <1>t, <2>1, ProducerCounts DEF Points
    <3> QED
      BY <3>1 DEF Accounts, Busy, Points, Counted, Stored, In
  <2>3. PermitsConserved'
    BY <2>1, <2>2 DEF QueueInv, TypeOK, PermitsConserved, Emptying
  <2>4. size' \in 0 .. SizeT - 1
    BY <2>1, DivMod DEF QueueInv, TypeOK
  <2>5. TypeOK'
    BY <2>1, <2>2, <2>4 DEF QueueInv, TypeOK, Points
  <2>6. IndicesInRange'
    BY <1>t, <2>1, <2>2 DEF QueueInv, IndicesInRange
  <2>7. Balance' = Balance + 1 /\ Balance' \in -1 .. Size - 1
    <3>1. Balance' \in -1 .. Size - 1
      BY <2>3, <2>5, BalanceBoundNext
    <3> QED
      BY <2>1, <2>2, <3>1 DEF Balance, QueueInv, TypeOK, In
  <2>8. SizeCounts'
    BY <1>b, <2>1, <2>7, SizeSteps DEF QueueInv, SizeCounts
  <2>9. RingCounts'
    BY <2>1, <2>2 DEF QueueInv, RingCounts
  <2> QED
    BY <2>3, <2>5, <2>6, <2>8, <2>9 DEF QueueInv
<1>4. CASE EnqueuePlace(p)
  <2>1. /\ prod[p] = "place" /\ enq_idx < Size
        /\ queue' = [queue EXCEPT ![enq_idx] = ItemOf(p)]
        /\ placed' = Append(placed, ItemOf(p))
        /\ prod' = [prod EXCEPT ![p] = "advance"]
        /\ UNCHANGED <<enq_idx, deq_idx, size, enq_sem, deq_sem, offered, enq_next,
                       cons, blocked, aborted, taken>>
    BY <1>4 DEF EnqueuePlace, consumer, semaphores
  <2>2. /\ prod' \in [Producers -> Points]
        /\ Count(prod', Counted) = Count(prod, Counted)
        /\ Count(prod', Stored) = Count(prod, Stored) + 1
        /\ Count(prod, Stored) \in Nat
        /\ Count(prod', {"wrap"}) = Count(prod, {"wrap"})
        /\ Cardinality(Filling') = Cardinality(Filling)
    <3>1. Accounts("place", "advance")
      BY <1>t, <2>1, ProducerCounts DEF Points
    <3> QED
      BY <3>1 DEF Accounts, Busy, Points, Counted, Stored, In
  <2>3. ItemOf(p) \in Items
    <3>1. offered[p] < MaxItems
      BY <2>1 DEF QueueInv, IndicesInRange
    <3>2. offered[p] \in 0 .. MaxItems
      BY <1>t
    <3>3. offered[p] \in 0 .. MaxItems - 1
      BY <3>1, <3>2
    <3> QED
      BY <3>3 DEF ItemOf, Items
  <2>4. /\ placed' \in Seq(Items) /\ Len(placed') = Len(placed) + 1
        /\ Len(placed) \in Nat /\ Len(taken) \in Nat
    BY <2>1, <2>3 DEF QueueInv, TypeOK
  <2>5. queue' \in [0 .. Size - 1 -> Items \cup {NULL}]
    BY <2>1, <2>3 DEF QueueInv, TypeOK
  <2>6. PermitsConserved'
    BY <2>1, <2>2 DEF QueueInv, TypeOK, PermitsConserved, Emptying
  <2>7. TypeOK'
    BY <2>1, <2>2, <2>4, <2>5 DEF QueueInv, TypeOK, Points
  <2>8. IndicesInRange'
    BY <1>t, <2>1, <2>2 DEF QueueInv, IndicesInRange
  <2>9. SizeCounts' /\ RingCounts'
    BY <2>1, <2>2, <2>4 DEF QueueInv, TypeOK, SizeCounts, RingCounts, Balance, In
  <2> QED
    BY <2>6, <2>7, <2>8, <2>9 DEF QueueInv
<1>5. CASE EnqueueAdvance(p)
  <2>1. /\ prod[p] = "advance"
        /\ enq_idx' = enq_idx + 1
        /\ enq_next' = [enq_next EXCEPT ![p] = enq_idx + 1]
        /\ prod' = [prod EXCEPT ![p] = "wrap"]
        /\ UNCHANGED <<deq_idx, size, enq_sem, deq_sem, queue, offered,
                       cons, blocked, aborted, placed, taken>>
    BY <1>5 DEF EnqueueAdvance, consumer, history, semaphores
  <2>2. /\ prod' \in [Producers -> Points]
        /\ Count(prod', Counted) = Count(prod, Counted)
        /\ Count(prod', Stored) = Count(prod, Stored)
        /\ Count(prod', {"wrap"}) = Count(prod, {"wrap"}) + 1
        /\ Cardinality(Filling') = Cardinality(Filling)
    <3>1. Accounts("advance", "wrap")
      BY <1>t, <2>1, ProducerCounts DEF Points
    <3> QED
      BY <3>1 DEF Accounts, Busy, Points, Counted, Stored, In
  <2>3. PermitsConserved'
    BY <2>1, <2>2 DEF QueueInv, TypeOK, PermitsConserved, Emptying
  <2>4. IndicesInRange'
    BY <1>t, <2>1, <2>2 DEF QueueInv, TypeOK, IndicesInRange
  <2>5. enq_idx' <= Size - 1 + Cardinality(Producers)
    <3>1. /\ Count(prod', {"wrap"}) \in Nat /\ Cardinality(Producers) \in Nat
          /\ Count(prod', {"wrap"}) <= Cardinality(Producers)
      BY WrapBound
    <3>2. enq_idx' <= Size - 1 + Count(prod', {"wrap"})
      BY <2>4 DEF IndicesInRange
    <3>3. enq_idx' \in Int
      BY <2>1 DEF QueueInv, TypeOK
    <3> QED
      BY <3>1, <3>2, <3>3
  <2>6. TypeOK'
    BY <2>1, <2>2, <2>5 DEF QueueInv, TypeOK, Points
  <2>7. SizeCounts' /\ RingCounts'
    BY <2>1, <2>2 DEF QueueInv, SizeCounts, RingCounts, Balance
  <2> QED
    BY <2>3, <2>4, <2>6, <2>7 DEF QueueInv
<1>6. CASE EnqueueWrap(p)
  <2>1. /\ prod[p] = "wrap"
        /\ enq_idx' = enq_next[p] % Size
        /\ prod' = [prod EXCEPT ![p] = "release"]
        /\ UNCHANGED <<deq_idx, size, enq_sem, deq_sem, queue, offered, enq_next,
                       cons, blocked, aborted, placed, taken>>
    BY <1>6 DEF EnqueueWrap, consumer, history, semaphores
  <2>2. /\ prod' \in [Producers -> Points]
        /\ Count(prod', Counted) = Count(prod, Counted)
        /\ Count(prod', Stored) = Count(prod, Stored)
        /\ Count(prod', {"wrap"}) \in Nat
        /\ Cardinality(Filling') = Cardinality(Filling)
    <3>1. Accounts("wrap", "release")
      BY <1>t, <2>1, ProducerCounts DEF Points
    <3> QED
      BY <3>1 DEF Accounts, Busy, Points, Counted, Stored, In
  <2>3. PermitsConserved'
    BY <2>1, <2>2 DEF QueueInv, TypeOK, PermitsConserved, Emptying
  <2>4. enq_idx' \in 0 .. Size - 1
    BY <1>t, <2>1, DivMod
  <2>5. IndicesInRange'
    BY <1>t, <2>1, <2>2, <2>4 DEF QueueInv, IndicesInRange
  <2>6. Cardinality(Producers) \in Nat
    BY FS_CardinalityType, ThreadSafeQueueAssumption
  <2>7. TypeOK'
    BY <2>1, <2>2, <2>4, <2>6 DEF QueueInv, TypeOK, Points
  <2>8. SizeCounts' /\ RingCounts'
    BY <2>1, <2>2 DEF QueueInv, SizeCounts, RingCounts, Balance
  <2> QED
    BY <2>3, <2>5, <2>7, <2>8 DEF QueueInv
<1>7. CASE EnqueueRelease(p)
  <2>1. /\ prod[p] = "release"
        /\ deq_sem' = deq_sem + 1
        /\ offered' = [offered EXCEPT ![p] = offered[p] + 1]
        /\ prod' = [prod EXCEPT ![p] = "idle"]
        /\ UNCHANGED <<enq_idx, deq_idx, size, enq_sem, queue, enq_next,
                       cons, blocked, aborted, placed, taken>>
    BY <1>7 DEF EnqueueRelease, consumer, history
  <2>2. /\ prod' \in [Producers -> Points]
        /\ Count(prod', Counted) = Count(prod, Counted) - 1
        /\ Count(prod', Stored) = Count(prod, Stored) - 1
        /\ Count(prod', {"wrap"}) = Count(prod, {"wrap"})
        /\ Cardinality(Filling') = Cardinality(Filling) - 1
        /\ Cardinality(Filling) \in Nat /\ Cardinality(Filling') \in Nat
        /\ Count(prod, Counted) \in Nat /\ Count(prod, Stored) \in Nat
    <3>1. Accounts("release", "idle")
      BY <1>t, <2>1, ProducerCounts DEF Points
    <3> QED
      BY <3>1 DEF Accounts, Busy, Points, Counted, Stored, In
  <2>3. PermitsConserved'
    <3>1. enq_sem \in Nat /\ deq_sem \in Nat /\ Emptying \in {0, 1} /\ Emptying' = Emptying
      BY <2>1 DEF QueueInv, TypeOK, Emptying
    <3>2. enq_sem + deq_sem + Cardinality(Filling) + Emptying = Size - 1
      BY DEF QueueInv, PermitsConserved
    <3> QED
      BY <2>1, <2>2, <3>1, <3>2 DEF PermitsConserved
  <2>4. offered' \in [Producers -> 0 .. MaxItems]
    BY <1>t, <2>1 DEF QueueInv, IndicesInRange
  <2>5. deq_sem' \in 0 .. Size - 1
    <3>1. enq_sem \in Nat /\ deq_sem \in Nat /\ Emptying' \in {0, 1}
      BY <2>1 DEF QueueInv, TypeOK, Emptying
    <3>2. enq_sem' + deq_sem' + Cardinality(Filling') + Emptying' = Size - 1
      BY <2>3 DEF PermitsConserved
    <3> QED
      BY <2>1, <2>2, <3>1, <3>2
  <2>6. TypeOK'
    BY <2>1, <2>2, <2>4, <2>5 DEF QueueInv, TypeOK, Points
  <2>7. IndicesInRange'
    BY <1>t, <2>1, <2>2 DEF QueueInv, IndicesInRange
  <2>8. Balance' = Balance
    BY <2>1, <2>2 DEF QueueInv, TypeOK, Balance, In
  <2>9. SizeCounts'
    BY <2>1, <2>8 DEF QueueInv, SizeCounts
  <2>10. RingCounts'
    <3>1. Len(taken) \in Nat /\ deq_sem \in Nat /\ In(cons, {"count", "take"}) \in Nat
      BY SizesPositive DEF QueueInv, TypeOK, In
    <3>2. Len(placed) = Len(taken) + deq_sem + Count(prod, Stored)
                          + In(cons, {"count", "take"})
      BY DEF QueueInv, RingCounts
    <3> QED
      BY <2>1, <2>2, <3>1, <3>2 DEF RingCounts
  <2> QED
    BY <2>3, <2>6, <2>7, <2>9, <2>10 DEF QueueInv
<1> QED
  BY <1>1, <1>2, <1>3, <1>4, <1>5, <1>6, <1>7 DEF Enqueue

\* One step of the consumer keeps them, by either way of dequeuing.
LEMMA DequeueKeepsCounts ==
  ASSUME QueueInv, Dequeue
  PROVE  QueueInv'
<1> USE SizesPositive
<1>t. /\ prod \in [Producers -> Points]
      /\ Count(prod, Counted) \in Nat /\ Count(prod, Stored) \in Nat
      /\ Cardinality(Filling) \in Nat /\ Cardinality(Producers) \in Nat
      /\ enq_sem \in Nat /\ deq_sem \in Nat /\ Emptying \in {0, 1}
      /\ deq_idx \in 0 .. Size
  <2>1. prod \in [Producers -> Points]
    BY DEF QueueInv, TypeOK, Points
  <2>2. Cardinality(Filling) \in Nat
    BY <2>1, CountType, FillingCounts
  <2>3. Cardinality(Producers) \in Nat
    BY FS_CardinalityType, ThreadSafeQueueAssumption
  <2>4. Count(prod, Counted) \in Nat /\ Count(prod, Stored) \in Nat
    BY CountType
  <2> QED
    BY <2>1, <2>2, <2>3, <2>4 DEF QueueInv, TypeOK, Emptying
<1>b. Balance \in -1 .. Size - 1
  BY BalanceBound DEF QueueInv
<1>p. enq_sem + deq_sem + Cardinality(Filling) + Emptying = Size - 1
  BY DEF QueueInv, PermitsConserved
<1>1. CASE TryDequeueTimeout
  BY <1>1 DEF TryDequeueTimeout, queueVars, semaphores, producers, consumer, history,
              QueueInv, TypeOK, IndicesInRange, PermitsConserved, SizeCounts,
              RingCounts, Balance, Filling, Emptying
<1>2. CASE TryDequeue \/ BlockingAcquire
  <2>1. /\ cons \in {"idle", "wait"} /\ deq_sem > 0 /\ deq_sem' = deq_sem - 1
        /\ cons' = IF cons = "idle" THEN "count" ELSE "take"
        /\ blocked' \in BOOLEAN
        /\ UNCHANGED <<enq_idx, deq_idx, size, enq_sem, queue, prod, offered, enq_next,
                       aborted, placed, taken>>
    BY <1>2 DEF TryDequeue, BlockingAcquire, producers, history, QueueInv, TypeOK
  <2>2. PermitsConserved'
    BY <1>t, <1>p, <2>1 DEF PermitsConserved, Emptying, Filling
  <2>3. TypeOK'
    BY <1>t, <2>1 DEF QueueInv, TypeOK
  <2>4. IndicesInRange'
    BY <2>1 DEF QueueInv, IndicesInRange
  <2>5. Balance' = Balance
    BY <1>t, <2>1 DEF Balance, In
  <2>6. SizeCounts'
    BY <2>1, <2>5 DEF QueueInv, SizeCounts
  <2>7. RingCounts'
    <3>1. /\ In(cons, {"count", "take"}) = 0
          /\ In(cons', {"count", "take"}) = 1
          /\ Len(taken) \in Nat
      BY <2>1 DEF In, QueueInv, TypeOK
    <3> QED
      BY <1>t, <2>1, <3>1 DEF QueueInv, RingCounts
  <2> QED
    BY <2>2, <2>3, <2>4, <2>6, <2>7 DEF QueueInv
<1>3. CASE TryDequeueCount \/ BlockingDequeue
  <2>1. /\ cons \in {"count", "idle"}
        /\ cons' = IF cons = "count" THEN "take" ELSE "wait"
        /\ size' = (size + SizeT - 1) % SizeT
        /\ blocked' \in BOOLEAN
        /\ UNCHANGED <<enq_idx, deq_idx, enq_sem, deq_sem, queue, prod, offered,
                       enq_next, aborted, placed, taken>>
    BY <1>3 DEF TryDequeueCount, BlockingDequeue, producers, history, semaphores,
                QueueInv, TypeOK
  <2>2. PermitsConserved'
    BY <1>t, <1>p, <2>1 DEF PermitsConserved, Emptying, Filling
  <2>3. size' \in 0 .. SizeT - 1
    BY <2>1, DivMod DEF QueueInv, TypeOK
  <2>4. TypeOK'
    BY <2>1, <2>3 DEF QueueInv, TypeOK
  <2>5. IndicesInRange'
    BY <2>1 DEF QueueInv, IndicesInRange
  <2>6. Balance' = Balance - 1 /\ Balance >= 0
    BY <1>t, <2>1 DEF Balance, In
  <2>7. SizeCounts'
    BY <1>b, <2>1, <2>6, SizeSteps DEF QueueInv, SizeCounts
  <2>8. RingCounts'
    BY <1>t, <2>1 DEF QueueInv, TypeOK, RingCounts, In
  <2> QED
    BY <2>2, <2>4, <2>5, <2>7, <2>8 DEF QueueInv
<1>4. CASE DequeueTake
  <2>1. /\ cons = "take" /\ cons' = "advance"
        /\ taken' = Append(taken, queue[deq_idx])
        /\ queue' = [queue EXCEPT ![deq_idx] = NULL]
        /\ UNCHANGED <<enq_idx, deq_idx, size, enq_sem, deq_sem, prod, offered,
                       enq_next, blocked, aborted, placed>>
    BY <1>4 DEF DequeueTake, producers, semaphores
  <2>2. PermitsConserved'
    BY <1>t, <1>p, <2>1 DEF PermitsConserved, Emptying, Filling
  <2>3. deq_idx \in 0 .. Size - 1
    BY <1>t, <2>1 DEF QueueInv, IndicesInRange
  <2>4. /\ taken' \in Seq(Items \cup {NULL}) /\ Len(taken') = Len(taken) + 1
        /\ Len(placed) \in Nat /\ Len(taken) \in Nat
    BY <2>1, <2>3 DEF QueueInv, TypeOK
  <2>5. queue' \in [0 .. Size - 1 -> Items \cup {NULL}]
    BY <2>1 DEF QueueInv, TypeOK
  <2>6. TypeOK'
    BY <2>1, <2>4, <2>5 DEF QueueInv, TypeOK
  <2>7. IndicesInRange'
    BY <2>1 DEF QueueInv, IndicesInRange
  <2>8. SizeCounts'
    BY <2>1 DEF QueueInv, SizeCounts, Balance, In
  <2>9. RingCounts'
    BY <1>t, <2>1, <2>4 DEF QueueInv, RingCounts, In
  <2> QED
    BY <2>2, <2>6, <2>7, <2>8, <2>9 DEF QueueInv
<1>5. CASE DequeueAdvance \/ DequeueWrap
  <2>1. /\ \/ cons = "advance" /\ cons' = "wrap" /\ deq_idx' = deq_idx + 1
           \/ cons = "wrap" /\ cons' = "release" /\ deq_idx' = deq_idx % Size
        /\ UNCHANGED <<enq_idx, size, enq_sem, deq_sem, queue, prod, offered,
                       enq_next, blocked, aborted, placed, taken>>
    BY <1>5 DEF DequeueAdvance, DequeueWrap, producers, history, semaphores
  <2>2. PermitsConserved'
    BY <1>t, <1>p, <2>1 DEF PermitsConserved, Emptying, Filling
  <2>3. deq_idx % Size \in 0 .. Size - 1
    BY <1>t, DivMod
  <2>4. deq_idx' \in 0 .. Size /\ (cons' # "wrap" => deq_idx' < Size)
    BY <1>t, <2>1, <2>3 DEF QueueInv, IndicesInRange
  <2>5. TypeOK'
    BY <2>1, <2>4 DEF QueueInv, TypeOK
  <2>6. IndicesInRange'
    BY <2>1, <2>4 DEF QueueInv, IndicesInRange
  <2>7. SizeCounts' /\ RingCounts'
    BY <2>1 DEF QueueInv, SizeCounts, RingCounts, Balance, In
  <2> QED
    BY <2>2, <2>5, <2>6, <2>7 DEF QueueInv
<1>6. CASE DequeueRelease
  <2>1. /\ cons = "release" /\ cons' = "idle" /\ enq_sem' = enq_sem + 1
        /\ blocked' \in BOOLEAN
        /\ UNCHANGED <<enq_idx, deq_idx, size, deq_sem, queue, prod, offered,
                       enq_next, aborted, placed, taken>>
    BY <1>6 DEF DequeueRelease, producers, history
  <2>2. PermitsConserved'
    BY <1>t, <1>p, <2>1 DEF PermitsConserved, Emptying, Filling
  <2>3. enq_sem' \in 0 .. Size - 1
    BY <1>t, <1>p, <2>1 DEF Emptying
  <2>4. TypeOK'
    BY <2>1, <2>3 DEF QueueInv, TypeOK
  <2>5. IndicesInRange'
    BY <2>1 DEF QueueInv, IndicesInRange
  <2>6. SizeCounts' /\ RingCounts'
    BY <2>1 DEF QueueInv, SizeCounts, RingCounts, Balance, In
  <2> QED
    BY <2>2, <2>4, <2>5, <2>6 DEF QueueInv
<1> QED
  BY <1>1, <1>2, <1>3, <1>4, <1>5, <1>6 DEF Dequeue

\* So does every step.
LEMMA QueueInvNext == QueueInv /\ [Next]_queueVars => QueueInv'
<1> SUFFICES ASSUME QueueInv, [Next]_queueVars
             PROVE  QueueInv'
  OBVIOUS
<1>1. CASE UNCHANGED queueVars
  BY <1>1 DEF queueVars, semaphores, producers, consumer, history, QueueInv, TypeOK,
              IndicesInRange, PermitsConserved, SizeCounts, RingCounts, Balance,
              Filling, Emptying
<1>2. CASE Next
  BY <1>1, <1>2, EnqueueKeepsCounts, DequeueKeepsCounts DEF Next, Aborted
<1> QED
  BY <1>1, <1>2

\* However many producers race for it, the queue keeps its accounts.
THEOREM QueueCorrect == Spec => []QueueInv
<1> QED
  BY QueueInvInit, QueueInvNext, PTL DEF Spec

\* However many producers race for it, the ring's index stays within one
\* position per producer of the ring, and every other variable in its type.
THEOREM TypeCorrect == Spec => []TypeOK
<1>1. QueueInv => TypeOK
  BY DEF QueueInv
<1> QED
  BY <1>1, QueueCorrect, PTL

\* The two semaphores and the calls in progress always add up to the slots in
\* use: no permit is lost or made up, for any number of producers and slots.
THEOREM PermitsAreConserved == Spec => []PermitsConserved
<1>1. QueueInv => PermitsConserved
  BY DEF QueueInv
<1> QED
  BY <1>1, QueueCorrect, PTL

\* A consumer between its calls that reads a size of zero: the size counts
\* every item stored and every permit.
LEMMA QueueEmpty == QueueInv => EmptyIsEmpty
<1> SUFFICES ASSUME QueueInv, cons = "idle", size = 0
             PROVE  deq_sem = 0 /\ Len(placed) = Len(taken)
  BY DEF EmptyIsEmpty
<1>1. Count(prod, Stored) <= Count(prod, Counted)
  BY CountMonotone DEF Stored, Counted
<1>2. Count(prod, Stored) \in Nat /\ Count(prod, Counted) \in Nat
  BY CountType
<1>3. Balance = deq_sem + Count(prod, Counted) /\ deq_sem \in Nat
  BY <1>2, SizesPositive DEF QueueInv, TypeOK, Balance, In
<1>4. Balance = 0
  BY <1>2, <1>3, SizesPositive DEF QueueInv, SizeCounts
<1>5. deq_sem = 0 /\ Count(prod, Stored) = 0
  BY <1>1, <1>2, <1>3, <1>4
<1> QED
  BY <1>5 DEF QueueInv, TypeOK, RingCounts, In

\* A consumer between its calls that reads a size of zero leaves nothing in the
\* ring, although producers count before they store and dequeue before it waits.
THEOREM EmptyMeansEmpty == Spec => []EmptyIsEmpty
<1>1. QueueInv => EmptyIsEmpty
  BY QueueEmpty
<1> QED
  BY <1>1, QueueCorrect, PTL

-------------------------------------------------------------------------------
(* One producer: a line.                                                   *)

\* Each index is the number of items that passed it, modulo the ring, but for
\* the two steps in which it is advanced and wrapped.
EnqueueIndex(p) ==
    /\ prod[p] \in {"idle", "count", "place", "release"} => enq_idx = Len(placed) % Size
    /\ prod[p] = "advance" => enq_idx = (Len(placed) - 1) % Size
    /\ prod[p] = "wrap" => /\ enq_idx = ((Len(placed) - 1) % Size) + 1
                           /\ enq_next[p] = enq_idx

DequeueIndex ==
    /\ cons \in {"idle", "count", "wait", "take", "release"}
          => deq_idx = Len(taken) % Size
    /\ cons \in {"advance", "wrap"} => Len(taken) > 0
    /\ cons = "advance" => deq_idx = (Len(taken) - 1) % Size
    /\ cons = "wrap" => deq_idx = ((Len(taken) - 1) % Size) + 1

\* The ring holds what is waiting, and what was taken is what was placed.
InOrder(p) ==
    /\ ~aborted
    /\ offered[p] = IF prod[p] \in Stored THEN Len(placed) - 1 ELSE Len(placed)
    /\ \A k \in 1 .. Len(placed) : placed[k] = [by |-> p, n |-> k - 1]
    /\ \A k \in 1 .. Len(taken) : taken[k] = placed[k]
    /\ \A k \in Len(taken) .. Len(placed) - 1 : queue[k % Size] = placed[k + 1]

FifoInv(p) == EnqueueIndex(p) /\ DequeueIndex /\ InOrder(p)

\* A lone producer is counted at its own control point.
LEMMA LoneCount ==
  ASSUME NEW p, Producers = {p}, NEW f, NEW K
  PROVE  Count(f, K) = In(f[p], K)
<1>1. CASE f[p] \in K
  <2>1. {q \in Producers : f[q] \in K} = {p}
    BY <1>1
  <2> QED
    BY <1>1, <2>1, FS_Singleton DEF Count, In
<1>2. CASE f[p] \notin K
  <2>1. {q \in Producers : f[q] \in K} = {}
    BY <1>2
  <2> QED
    BY <1>2, <2>1, FS_EmptySet DEF Count, In
<1> QED
  BY <1>1, <1>2

\* The permits bound the line on both sides: it is never longer than the ring
\* less one, a producer about to store has room, and a consumer about to take
\* has an item.
LEMMA LineBounds ==
  ASSUME NEW p, Producers = {p}, QueueInv
  PROVE  /\ Len(placed) \in Nat /\ Len(taken) \in Nat
         /\ prod[p] \in Points
         /\ Len(taken) <= Len(placed)
         /\ Len(placed) <= Len(taken) + Size - 1
         /\ prod[p] = "place" => Len(placed) < Len(taken) + Size - 1
         /\ prod[p] \in Stored => Len(placed) > Len(taken)
         /\ cons = "take" => Len(placed) > Len(taken)
<1>1. /\ Len(placed) \in Nat /\ Len(taken) \in Nat
      /\ enq_sem \in Nat /\ deq_sem \in Nat /\ Emptying \in {0, 1}
      /\ prod \in [Producers -> Points]
      /\ cons \in {"idle", "count", "wait", "take", "advance", "wrap", "release"}
  BY SizesPositive DEF QueueInv, TypeOK, Points, Emptying
<1>2. Cardinality(Filling) = In(prod[p], Busy)
  BY <1>1, LoneCount, FillingCounts
<1>3. Count(prod, Stored) = In(prod[p], Stored)
  BY LoneCount
<1>4. enq_sem + deq_sem + In(prod[p], Busy) + Emptying = Size - 1
  BY <1>2 DEF QueueInv, PermitsConserved
<1>5. Len(placed) = Len(taken) + deq_sem + In(prod[p], Stored)
                      + In(cons, {"count", "take"})
  BY <1>3 DEF QueueInv, RingCounts
<1>6. prod[p] \in Points
  BY <1>1
<1>7. In(cons, {"count", "take"}) \in {0, 1} /\ In(cons, {"count", "take"}) <= Emptying
         /\ (cons = "take" => In(cons, {"count", "take"}) = 1)
  BY <1>1 DEF In, Emptying
<1>8. /\ In(prod[p], Stored) \in {0, 1} /\ In(prod[p], Busy) \in {0, 1}
      /\ In(prod[p], Stored) <= In(prod[p], Busy)
      /\ prod[p] \in Stored => In(prod[p], Stored) = 1
      /\ prod[p] = "place" => In(prod[p], Stored) = 0 /\ In(prod[p], Busy) = 1
  BY <1>6 DEF In, Stored, Busy, Points
<1> QED
  BY <1>1, <1>4, <1>5, <1>6, <1>7, <1>8, SizesPositive

\* Initially the line is empty.
LEMMA FifoInit == ASSUME NEW p, Producers = {p} PROVE Init => FifoInv(p)
<1> SUFFICES ASSUME Init
             PROVE  FifoInv(p)
  OBVIOUS
<1>1. 0 % Size = 0
  BY SmallMod, SizesPositive
<1>2. Len(placed) = 0 /\ Len(taken) = 0 /\ prod[p] = "idle" /\ offered[p] = 0
  BY DEF Init
<1> QED
  BY <1>1, <1>2, SizesPositive
     DEF Init, FifoInv, EnqueueIndex, DequeueIndex, InOrder, Stored

\* A step of the producer stores at the end of the line.
LEMMA FifoEnqueue ==
  ASSUME NEW p, Producers = {p}, QueueInv, FifoInv(p), Enqueue(p)
  PROVE  FifoInv(p)'
<1> USE SizesPositive
<1>t. /\ Len(placed) \in Nat /\ Len(taken) \in Nat
      /\ prod[p] \in Points
      /\ Len(taken) <= Len(placed)
      /\ Len(placed) <= Len(taken) + Size - 1
      /\ prod[p] = "place" => Len(placed) < Len(taken) + Size - 1
      /\ prod[p] \in Stored => Len(placed) > Len(taken)
  BY LineBounds
<1>d. prod \in [Producers -> Points] /\ p \in Producers
  BY DEF QueueInv, TypeOK, Points
<1>1. CASE EnqueueThrows(p)
  <2>1. prod[p] = "place" /\ enq_idx >= Size
    BY <1>1 DEF EnqueueThrows
  <2>2. Len(placed) % Size \in 0 .. Size - 1
    BY <1>t, DivMod
  <2> QED
    BY <2>1, <2>2 DEF FifoInv, EnqueueIndex
<1>2. CASE EnqueueAcquire(p) \/ EnqueueCount(p)
  <2>1. /\ prod[p] \in {"idle", "count"} /\ prod'[p] \in {"count", "place"}
        /\ UNCHANGED <<enq_idx, deq_idx, queue, offered, enq_next, cons, aborted,
                       placed, taken>>
    BY <1>2, <1>d DEF EnqueueAcquire, EnqueueCount, consumer, history
  <2> QED
    BY <2>1 DEF FifoInv, EnqueueIndex, DequeueIndex, InOrder, Stored
<1>3. CASE EnqueuePlace(p)
  <2>1. /\ prod[p] = "place" /\ prod'[p] = "advance"
        /\ queue' = [queue EXCEPT ![enq_idx] = ItemOf(p)]
        /\ placed' = Append(placed, ItemOf(p))
        /\ UNCHANGED <<enq_idx, deq_idx, offered, enq_next, cons, aborted, taken>>
    BY <1>3, <1>d DEF EnqueuePlace, consumer
  <2>2. ItemOf(p) = [by |-> p, n |-> Len(placed)]
    BY <2>1 DEF ItemOf, FifoInv, InOrder, Stored
  <2>3. /\ Len(placed') = Len(placed) + 1
        /\ \A k \in 1 .. Len(placed) : placed'[k] = placed[k]
        /\ placed'[Len(placed) + 1] = ItemOf(p)
    BY <2>1 DEF QueueInv, TypeOK
  <2>4. enq_idx = Len(placed) % Size /\ enq_idx \in 0 .. Size - 1
    BY <1>t, <2>1, DivMod DEF FifoInv, EnqueueIndex
  <2>5. EnqueueIndex(p)'
    BY <1>t, <2>1, <2>3, <2>4 DEF EnqueueIndex
  <2>6. \A k \in 1 .. Len(placed') : placed'[k] = [by |-> p, n |-> k - 1]
    <3> SUFFICES ASSUME NEW k \in 1 .. Len(placed) + 1
                 PROVE  placed'[k] = [by |-> p, n |-> k - 1]
      BY <2>3
    <3>1. CASE k = Len(placed) + 1
      BY <1>t, <2>2, <2>3, <3>1
    <3>2. CASE k \in 1 .. Len(placed)
      BY <2>3, <3>2 DEF FifoInv, InOrder
    <3> QED
      BY <1>t, <3>1, <3>2
  <2>7. \A k \in 1 .. Len(taken) : taken[k] = placed'[k]
    BY <1>t, <2>3 DEF FifoInv, InOrder
  <2>8. \A k \in Len(taken) .. Len(placed') - 1 : queue'[k % Size] = placed'[k + 1]
    <3> SUFFICES ASSUME NEW k \in Len(taken) .. Len(placed)
                 PROVE  queue'[k % Size] = placed'[k + 1]
      BY <1>t, <2>3
    <3>1. CASE k = Len(placed)
      BY <2>1, <2>3, <2>4, <3>1 DEF QueueInv, TypeOK
    <3>2. CASE k < Len(placed)
      <4>1. k % Size # Len(placed) % Size
        <5>1. k \in Nat /\ k < Len(placed) /\ Len(placed) < k + Size
          BY <1>t, <2>1, <3>2
        <5> QED
          BY <1>t, <5>1, WindowMod
      <4>2. queue'[k % Size] = queue[k % Size]
        <5>1. k % Size \in 0 .. Size - 1
          BY <1>t, DivMod
        <5> QED
          BY <2>1, <2>4, <4>1, <5>1 DEF QueueInv, TypeOK
      <4>3. queue[k % Size] = placed[k + 1]
        BY <1>t, <3>2 DEF FifoInv, InOrder
      <4>4. placed'[k + 1] = placed[k + 1]
        BY <1>t, <2>3, <3>2
      <4> QED
        BY <4>2, <4>3, <4>4
    <3> QED
      BY <1>t, <3>1, <3>2
  <2>9. InOrder(p)'
    <3>1. offered[p] = Len(placed) /\ ~aborted
      BY <2>1 DEF FifoInv, InOrder, Stored
    <3>2. prod'[p] \in Stored /\ offered'[p] = Len(placed') - 1
      BY <1>t, <2>1, <2>3, <3>1 DEF Stored
    <3> QED
      BY <2>1, <2>6, <2>7, <2>8, <3>1, <3>2 DEF InOrder
  <2> QED
    BY <2>1, <2>5, <2>9 DEF FifoInv, DequeueIndex
<1>4. CASE EnqueueAdvance(p)
  <2>1. /\ prod[p] = "advance" /\ prod'[p] = "wrap"
        /\ enq_idx' = enq_idx + 1 /\ enq_next'[p] = enq_idx + 1
        /\ UNCHANGED <<deq_idx, queue, offered, cons, aborted, placed, taken>>
    BY <1>4, <1>d DEF EnqueueAdvance, consumer, history, QueueInv, IndicesInRange
  <2> QED
    BY <2>1 DEF FifoInv, EnqueueIndex, DequeueIndex, InOrder, Stored
<1>5. CASE EnqueueWrap(p)
  <2>1. /\ prod[p] = "wrap" /\ prod'[p] = "release"
        /\ enq_idx' = enq_next[p] % Size
        /\ UNCHANGED <<deq_idx, queue, offered, enq_next, cons, aborted, placed, taken>>
    BY <1>5, <1>d DEF EnqueueWrap, consumer, history
  <2>2. enq_idx' = (((Len(placed) - 1) % Size) + 1) % Size
    BY <2>1 DEF FifoInv, EnqueueIndex
  <2>3. Len(placed) - 1 \in Nat
    BY <1>t, <2>1 DEF Stored
  <2>4. (((Len(placed) - 1) % Size) + 1) % Size = ((Len(placed) - 1) + 1) % Size
    <3>1. Size \in Nat /\ Size > 0
      OBVIOUS
    <3> QED
      BY <2>3, <3>1, NextMod, Zenon
  <2>5. (Len(placed) - 1) + 1 = Len(placed)
    BY <1>t
  <2>6. enq_idx' = Len(placed) % Size
    BY <2>2, <2>4, <2>5, Zenon
  <2> QED
    BY <2>1, <2>6 DEF FifoInv, EnqueueIndex, DequeueIndex, InOrder, Stored
<1>6. CASE EnqueueRelease(p)
  <2>1. /\ prod[p] = "release" /\ prod'[p] = "idle"
        /\ offered'[p] = offered[p] + 1
        /\ UNCHANGED <<enq_idx, deq_idx, queue, enq_next, cons, aborted, placed, taken>>
    BY <1>6, <1>d DEF EnqueueRelease, consumer, history, QueueInv, TypeOK
  <2>2. offered[p] = Len(placed) - 1 /\ ~aborted
    BY <2>1 DEF FifoInv, InOrder, Stored
  <2>3. offered'[p] = Len(placed') /\ prod'[p] \notin Stored
    BY <1>t, <2>1, <2>2 DEF Stored
  <2>4. InOrder(p)'
    BY <2>1, <2>2, <2>3 DEF FifoInv, InOrder
  <2> QED
    BY <2>1, <2>4 DEF FifoInv, EnqueueIndex, DequeueIndex
<1> QED
  BY <1>1, <1>2, <1>3, <1>4, <1>5, <1>6 DEF Enqueue

\* A step of the consumer takes from its front.
LEMMA FifoDequeue ==
  ASSUME NEW p, Producers = {p}, QueueInv, FifoInv(p), Dequeue
  PROVE  FifoInv(p)'
<1> USE SizesPositive
<1>t. /\ Len(placed) \in Nat /\ Len(taken) \in Nat
      /\ Len(taken) <= Len(placed)
      /\ Len(placed) <= Len(taken) + Size - 1
      /\ cons = "take" => Len(placed) > Len(taken)
  BY LineBounds
<1>1. CASE DequeueTake
  <2>1. /\ cons = "take" /\ cons' = "advance"
        /\ taken' = Append(taken, queue[deq_idx])
        /\ queue' = [queue EXCEPT ![deq_idx] = NULL]
        /\ UNCHANGED <<enq_idx, deq_idx, prod, offered, enq_next, aborted, placed>>
    BY <1>1 DEF DequeueTake, producers
  <2>2. deq_idx = Len(taken) % Size /\ deq_idx \in 0 .. Size - 1
    BY <1>t, <2>1, DivMod DEF FifoInv, DequeueIndex
  <2>3. queue[deq_idx] = placed[Len(taken) + 1]
    <3>1. \A k \in Len(taken) .. Len(placed) - 1 : queue[k % Size] = placed[k + 1]
      BY DEF FifoInv, InOrder
    <3>2. Len(taken) \in Len(taken) .. Len(placed) - 1
      BY <1>t, <2>1
    <3>3. queue[Len(taken) % Size] = placed[Len(taken) + 1]
      BY <3>1, <3>2
    <3> QED
      BY <2>2, <3>3
  <2>4. /\ Len(taken') = Len(taken) + 1
        /\ \A k \in 1 .. Len(taken) : taken'[k] = taken[k]
        /\ taken'[Len(taken) + 1] = queue[deq_idx]
    <3>1. queue[deq_idx] \in Items \cup {NULL} /\ taken \in Seq(Items \cup {NULL})
      BY <2>2 DEF QueueInv, TypeOK
    <3> QED
      BY <2>1, <3>1
  <2>5. DequeueIndex'
    BY <1>t, <2>1, <2>2, <2>4 DEF DequeueIndex
  <2>6. \A k \in 1 .. Len(taken') : taken'[k] = placed[k]
    <3> SUFFICES ASSUME NEW k \in 1 .. Len(taken) + 1
                 PROVE  taken'[k] = placed[k]
      BY <2>4
    <3>1. CASE k = Len(taken) + 1
      BY <2>3, <2>4, <3>1
    <3>2. CASE k \in 1 .. Len(taken)
      BY <2>4, <3>2 DEF FifoInv, InOrder
    <3> QED
      BY <1>t, <3>1, <3>2
  <2>7. \A k \in Len(taken') .. Len(placed) - 1 : queue'[k % Size] = placed[k + 1]
    <3> SUFFICES ASSUME NEW k \in Len(taken) + 1 .. Len(placed) - 1
                 PROVE  queue'[k % Size] = placed[k + 1]
      BY <2>4
    <3>1. Len(taken) < k /\ k < Len(taken) + Size /\ k \in Nat
      BY <1>t
    <3>2. k % Size # Len(taken) % Size
      BY <1>t, <3>1, WindowMod
    <3>3. k % Size \in 0 .. Size - 1
      BY <3>1, DivMod
    <3>4. queue'[k % Size] = queue[k % Size]
      BY <2>1, <2>2, <3>2, <3>3 DEF QueueInv, TypeOK
    <3> QED
      BY <1>t, <3>4 DEF FifoInv, InOrder
  <2>8. InOrder(p)'
    BY <2>1, <2>6, <2>7 DEF FifoInv, InOrder
  <2> QED
    BY <2>1, <2>5, <2>8 DEF FifoInv, EnqueueIndex
<1>2. CASE DequeueAdvance
  <2>1. /\ cons = "advance" /\ cons' = "wrap" /\ deq_idx' = deq_idx + 1
        /\ UNCHANGED <<enq_idx, queue, prod, offered, enq_next, aborted, placed, taken>>
    BY <1>2 DEF DequeueAdvance, producers, history
  <2> QED
    BY <2>1 DEF FifoInv, EnqueueIndex, DequeueIndex, InOrder
<1>3. CASE DequeueWrap
  <2>1. /\ cons = "wrap" /\ cons' = "release" /\ deq_idx' = deq_idx % Size
        /\ UNCHANGED <<enq_idx, queue, prod, offered, enq_next, aborted, placed, taken>>
    BY <1>3 DEF DequeueWrap, producers, history
  <2>2. deq_idx = ((Len(taken) - 1) % Size) + 1 /\ Len(taken) - 1 \in Nat
    BY <1>t, <2>1 DEF FifoInv, DequeueIndex
  <2>3. (((Len(taken) - 1) % Size) + 1) % Size = ((Len(taken) - 1) + 1) % Size
    <3>1. Size \in Nat /\ Size > 0
      OBVIOUS
    <3> QED
      BY <2>2, <3>1, NextMod, Zenon
  <2>4. (Len(taken) - 1) + 1 = Len(taken)
    BY <1>t
  <2>5. deq_idx' = Len(taken) % Size
    BY <2>1, <2>2, <2>3, <2>4, Zenon
  <2> QED
    BY <2>1, <2>5 DEF FifoInv, EnqueueIndex, DequeueIndex, InOrder
<1>4. CASE TryDequeue \/ TryDequeueTimeout \/ TryDequeueCount
             \/ BlockingDequeue \/ BlockingAcquire \/ DequeueRelease
  <2>1. /\ cons \in {"idle", "count", "wait", "release"} /\ cons' \in {"idle", "count", "wait", "take"}
        /\ UNCHANGED <<enq_idx, deq_idx, queue, prod, offered, enq_next, aborted,
                       placed, taken>>
    BY <1>4 DEF TryDequeue, TryDequeueTimeout, TryDequeueCount, BlockingDequeue,
                BlockingAcquire, DequeueRelease, queueVars, producers, consumer, history
  <2> QED
    BY <2>1 DEF FifoInv, EnqueueIndex, DequeueIndex, InOrder
<1> QED
  BY <1>1, <1>2, <1>3, <1>4 DEF Dequeue

\* So does every step.
LEMMA FifoNext ==
  ASSUME NEW p, Producers = {p}
  PROVE  QueueInv /\ FifoInv(p) /\ [Next]_queueVars => FifoInv(p)'
<1> SUFFICES ASSUME QueueInv, FifoInv(p), [Next]_queueVars
             PROVE  FifoInv(p)'
  OBVIOUS
<1>1. CASE UNCHANGED queueVars
  BY <1>1 DEF queueVars, producers, consumer, history, FifoInv, EnqueueIndex,
              DequeueIndex, InOrder
<1>2. CASE Next
  BY <1>1, <1>2, FifoEnqueue, FifoDequeue DEF Next, Aborted
<1> QED
  BY <1>1, <1>2

-------------------------------------------------------------------------------
(* The refinement: EnqueuePlace accepts, DequeueTake releases.             *)

\* The items a consumer has taken, by number.
Numbers == [i \in DOMAIN taken |-> taken[i].n]

\* Every step of the queue is a step of the line or a stutter.
LEMMA StepRefines ==
  ASSUME NEW p, Producers = {p}, QueueInv, FifoInv(p), [Next]_queueVars
  PROVE  [Line!Next]_<<Len(placed), Numbers>>
<1> USE SizesPositive
<1>t. /\ Len(placed) \in Nat /\ Len(taken) \in Nat
      /\ Len(taken) <= Len(placed)
      /\ prod[p] = "place" => Len(placed) < Len(taken) + Size - 1
      /\ cons = "take" => Len(placed) > Len(taken)
  BY LineBounds
<1>n. /\ taken \in Seq(Items \cup {NULL}) /\ placed \in Seq(Items)
      /\ DOMAIN taken = 1 .. Len(taken)
      /\ Len(Numbers) = Len(taken)
  <2>1. taken \in Seq(Items \cup {NULL}) /\ placed \in Seq(Items)
    BY DEF QueueInv, TypeOK
  <2>2. DOMAIN taken = 1 .. Len(taken)
    BY <2>1
  <2>3. Len(Numbers) = Len(taken)
    BY <1>t, <2>2 DEF Numbers
  <2> QED
    BY <2>1, <2>2, <2>3
<1>1. CASE EnqueuePlace(p)
  <2>1. /\ prod[p] = "place" /\ UNCHANGED taken
        /\ placed' = Append(placed, ItemOf(p))
    BY <1>1 DEF EnqueuePlace
  <2>2. Len(placed') = Len(placed) + 1
    BY <1>n, <2>1
  <2>3. Line!Accept
    BY <1>t, <1>n, <2>1, <2>2 DEF Line!Accept, Line!Waiting, Numbers
  <2> QED
    BY <2>3 DEF Line!Next
<1>2. CASE DequeueTake
  <2>1. /\ cons = "take" /\ UNCHANGED placed
        /\ taken' = Append(taken, queue[deq_idx])
    BY <1>2 DEF DequeueTake
  <2>2. queue[deq_idx] = placed[Len(taken) + 1]
    BY <1>t, <2>1 DEF FifoInv, DequeueIndex, InOrder
  <2>3. placed[Len(taken) + 1] = [by |-> p, n |-> Len(taken)]
    BY <1>t, <2>1 DEF FifoInv, InOrder
  <2>4. Numbers' = Append(Numbers, Len(Numbers))
    <3>1. queue[deq_idx].n = Len(taken)
      BY <2>2, <2>3
    <3>2. /\ DOMAIN taken' = 1 .. Len(taken) + 1
          /\ \A k \in 1 .. Len(taken) : taken'[k] = taken[k]
          /\ taken'[Len(taken) + 1] = queue[deq_idx]
      BY <1>n, <2>1
    <3>3. \A k \in 1 .. Len(taken) : Numbers[k] = k - 1
      <4> SUFFICES ASSUME NEW k \in 1 .. Len(taken)
                   PROVE  Numbers[k] = k - 1
        OBVIOUS
      <4>1. taken[k] = placed[k]
        BY DEF FifoInv, InOrder
      <4>2. placed[k] = [by |-> p, n |-> k - 1]
        BY <1>t DEF FifoInv, InOrder
      <4>3. Numbers[k] = taken[k].n
        BY <1>n DEF Numbers
      <4> QED
        BY <4>1, <4>2, <4>3
    <3>4. \A k \in 1 .. Len(taken) + 1 : taken'[k].n = k - 1
      BY <1>t, <1>n, <3>1, <3>2, <3>3 DEF Numbers
    <3>5. Numbers \in Seq(Nat)
      BY <1>t, <1>n, <3>3 DEF Numbers
    <3>6. /\ Numbers' \in Seq(Nat) /\ Len(Numbers') = Len(taken) + 1
          /\ \A k \in 1 .. Len(taken) + 1 : Numbers'[k] = k - 1
      BY <1>t, <3>2, <3>4 DEF Numbers
    <3>7. /\ Append(Numbers, Len(taken)) \in Seq(Nat)
          /\ Len(Append(Numbers, Len(taken))) = Len(taken) + 1
          /\ \A k \in 1 .. Len(taken) + 1 : Append(Numbers, Len(taken))[k] = k - 1
      BY <1>t, <1>n, <3>3, <3>5
    <3>8. Numbers' = Append(Numbers, Len(taken))
      BY <3>6, <3>7, SeqEqual
    <3> QED
      BY <1>n, <3>8
  <2>5. Line!Release
    BY <1>t, <1>n, <2>1, <2>4 DEF Line!Release, Line!Waiting, Numbers
  <2> QED
    BY <2>5 DEF Line!Next
<1>3. CASE UNCHANGED <<placed, taken>>
  BY <1>3 DEF Numbers
<1>4. [Next]_queueVars => EnqueuePlace(p) \/ DequeueTake \/ UNCHANGED <<placed, taken>>
  BY DEF Next, Aborted, Enqueue, EnqueueAcquire, EnqueueCount, EnqueueThrows,
         EnqueueAdvance, EnqueueWrap, EnqueueRelease, Dequeue, TryDequeue,
         TryDequeueTimeout, TryDequeueCount, BlockingDequeue, BlockingAcquire,
         DequeueAdvance, DequeueWrap, DequeueRelease, queueVars, history
<1> QED
  BY <1>1, <1>2, <1>3, <1>4

\* With one producer the ring, its semaphores and its unlocked indices are a
\* first-in first-out line of Size - 1 slots, whichever way the consumer
\* dequeues.
THEOREM ImplementsLine == ASSUME NEW p, Producers = {p} PROVE Spec => LineSpec
<1>1. Init => Line!Init
  BY DEF Init, Line!Init
<1>2. QueueInv /\ FifoInv(p) /\ [Next]_queueVars => [Line!Next]_<<Len(placed), Numbers>>
  BY StepRefines
<1>3. Init => FifoInv(p)
  BY FifoInit
<1>4. QueueInv /\ FifoInv(p) /\ [Next]_queueVars => FifoInv(p)'
  BY FifoNext
<1> QED
  BY <1>1, <1>2, <1>3, <1>4, QueueCorrect, PTL DEF Spec, LineSpec, Line!Spec, Numbers

-------------------------------------------------------------------------------
(* The logger.                                                             *)

\* A step of the logger moves the queue by one step of its own, or not.
LEMMA LoggerStep == [LoggerNext]_loggerVars => [Next]_queueVars
BY DEF LoggerNext, loggerVars, LogLine, Writer, WriterTestKeep, WriterTestEmpty,
       WriterTimeout, WriterGet, WriterGot, WriterWrite, WriterRename, DestructorClear,
       DestructorJoin, Terminated, Next, Dequeue

\* So what holds of the queue holds of the logger's.
LEMMA LoggerRunsQueue == LoggerSpec => Spec
<1>1. LoggerInit => Init
  BY DEF LoggerInit
<1> QED
  BY <1>1, LoggerStep, PTL DEF LoggerSpec, Spec

\* The lines of one thread reach the writer through a first-in first-out line,
\* also while the logger is being destroyed.
THEOREM LoggerImplementsLine ==
  ASSUME NEW p, Producers = {p} PROVE LoggerSpec => LineSpec
BY LoggerRunsQueue, ImplementsLine

\* A line between the ring and the file.
InHand == writer = "write" \/ cons \in {"advance", "wrap", "release"}

\* The writer dequeues only while it tries to; it tests the size only after it
\* has seen the flag cleared, and the flag is cleared only once every log call
\* has returned; so a size of zero is the last word.
WriterOrder ==
    /\ writer \in {"keep", "empty", "get", "write", "rename", "done"}
    /\ destructor \in {"idle", "join", "done"}
    /\ keep_logging = (destructor = "idle")
    /\ writer # "get" => cons = "idle"
    /\ destructor # "idle" => Filling = {}
    /\ writer \in {"empty", "rename", "done"} => destructor # "idle"
    /\ writer \in {"rename", "done"} => Len(placed) = Len(taken)
    /\ destructor = "done" => writer = "done"

\* The file is what was taken, less a line in hand.
FileFollows ==
    /\ InHand => Len(taken) > 0 /\ taken = Append(file, taken[Len(taken)])
    /\ ~InHand => taken = file

LoggerInv == WriterOrder /\ FileFollows

\* Nothing is logged yet.
LEMMA LoggerInvInit == LoggerInit => LoggerInv
BY DEF LoggerInit, Init, LoggerInv, WriterOrder, FileFollows, InHand, Filling

\* Every step keeps the order of the shutdown and the file.
LEMMA LoggerInvNext ==
  ASSUME NEW p, Producers = {p}, QueueInv, FifoInv(p), LoggerInv,
         [LoggerNext]_loggerVars
  PROVE  LoggerInv'
<1>t. /\ Len(placed) \in Nat /\ Len(taken) \in Nat
      /\ taken \in Seq(Items \cup {NULL})
      /\ cons \in {"idle", "count", "wait", "take", "advance", "wrap", "release"}
  BY LineBounds DEF QueueInv, TypeOK
<1>1. CASE UNCHANGED loggerVars \/ Terminated
  BY <1>1 DEF Terminated, loggerVars, queueVars, producers, consumer, history, LoggerInv,
              WriterOrder, FileFollows, InHand, Filling
<1>2. ASSUME NEW q \in Producers, LogLine(q)
      PROVE  LoggerInv'
  <2>1. destructor = "idle" /\ UNCHANGED <<keep_logging, writer, file, destructor>>
    BY <1>2 DEF LogLine
  <2>2. UNCHANGED <<cons, taken>>
    BY <1>2 DEF LogLine, Enqueue, EnqueueAcquire, EnqueueCount, EnqueuePlace,
                EnqueueThrows, EnqueueAdvance, EnqueueWrap, EnqueueRelease, consumer,
                history
  <2> QED
    BY <2>1, <2>2 DEF LoggerInv, WriterOrder, FileFollows, InHand
<1>3. CASE WriterTestKeep \/ WriterTestEmpty \/ WriterRename
  <2>1. /\ UNCHANGED <<prod, cons, placed, taken, keep_logging, file, destructor>>
        /\ \/ writer = "keep" /\ writer' = IF keep_logging THEN "get" ELSE "empty"
           \/ writer = "empty" /\ writer' = IF size = 0 THEN "rename" ELSE "get"
           \/ writer = "rename" /\ writer' = "done"
    BY <1>3 DEF WriterTestKeep, WriterTestEmpty, WriterRename, queueVars, producers,
                consumer, history
  <2>2. cons = "idle" /\ size = 0 => Len(placed) = Len(taken)
    BY QueueEmpty DEF EmptyIsEmpty
  <2>3. WriterOrder'
    BY <2>1, <2>2 DEF LoggerInv, WriterOrder, Filling
  <2>4. FileFollows'
    BY <2>1 DEF LoggerInv, FileFollows, InHand
  <2> QED
    BY <2>3, <2>4 DEF LoggerInv
<1>4. CASE WriterTimeout
  BY <1>4 DEF WriterTimeout, TryDequeueTimeout, queueVars, producers, consumer, history,
              LoggerInv, WriterOrder, FileFollows, InHand, Filling
<1>5. CASE WriterGet
  <2>1. /\ writer = "get"
        /\ UNCHANGED <<prod, placed, keep_logging, writer, file, destructor>>
    BY <1>5 DEF WriterGet, TryDequeue, TryDequeueCount, DequeueTake, DequeueAdvance,
                DequeueWrap, producers, history
  <2>2. WriterOrder'
    BY <2>1 DEF LoggerInv, WriterOrder, Filling
  <2>3. CASE DequeueTake
    <3>1. /\ cons = "take" /\ cons' = "advance"
          /\ taken' = Append(taken, queue[deq_idx])
      BY <2>3 DEF DequeueTake
    <3>2. taken = file
      BY <2>1, <3>1 DEF LoggerInv, FileFollows, InHand
    <3>3. /\ Len(taken') = Len(taken) + 1
          /\ taken'[Len(taken')] = queue[deq_idx]
      BY <1>t, <3>1
    <3> QED
      BY <1>t, <2>1, <2>2, <3>1, <3>2, <3>3 DEF LoggerInv, FileFollows, InHand
  <2>4. CASE ~DequeueTake
    BY <1>5, <2>1, <2>2, <2>4
       DEF WriterGet, TryDequeue, TryDequeueCount, DequeueAdvance, DequeueWrap, history,
           LoggerInv, FileFollows, InHand
  <2> QED
    BY <2>3, <2>4
<1>6. CASE WriterGot
  BY <1>6 DEF WriterGot, DequeueRelease, producers, history, LoggerInv, WriterOrder,
              FileFollows, InHand, Filling
<1>7. CASE WriterWrite
  BY <1>7 DEF WriterWrite, queueVars, producers, consumer, history, LoggerInv,
              WriterOrder, FileFollows, InHand, Filling
<1>8. CASE DestructorClear \/ DestructorJoin
  BY <1>8 DEF DestructorClear, DestructorJoin, queueVars, producers, consumer, history,
              LoggerInv, WriterOrder, FileFollows, InHand, Filling
<1> QED
  BY <1>1, <1>2, <1>3, <1>4, <1>5, <1>6, <1>7, <1>8 DEF LoggerNext, Writer

\* When the destructor returns, the file holds every line logged, in order:
\* for every ring and number of lines, while one thread logs and the
\* singleton is destroyed after the last log call has returned.
THEOREM LinesAreWritten ==
  ASSUME NEW p, Producers = {p} PROVE LoggerSpec => []LinesWritten
<1>1. LoggerInit => LoggerInv /\ FifoInv(p)
  BY LoggerInvInit, FifoInit DEF LoggerInit
<1>2. QueueInv /\ FifoInv(p) /\ LoggerInv /\ [LoggerNext]_loggerVars => LoggerInv'
  BY LoggerInvNext
<1>3. QueueInv /\ FifoInv(p) /\ [LoggerNext]_loggerVars => FifoInv(p)'
  BY FifoNext, LoggerStep
<1>4. QueueInv /\ FifoInv(p) /\ LoggerInv => LinesWritten
  <2> SUFFICES ASSUME QueueInv, FifoInv(p), LoggerInv, destructor = "done"
               PROVE  file = placed
    BY DEF LinesWritten
  <2>1. writer = "done" /\ cons = "idle" /\ Len(placed) = Len(taken)
    BY DEF LoggerInv, WriterOrder
  <2>2. file = taken
    BY <2>1 DEF LoggerInv, FileFollows, InHand
  <2>3. \A k \in 1 .. Len(taken) : taken[k] = placed[k]
    BY DEF FifoInv, InOrder
  <2>4. taken \in Seq(Items \cup {NULL}) /\ placed \in Seq(Items \cup {NULL})
    BY DEF QueueInv, TypeOK
  <2> QED
    BY <2>1, <2>2, <2>3, <2>4, SeqEqual
<1> QED
  BY <1>1, <1>2, <1>3, <1>4, LoggerRunsQueue, QueueCorrect, PTL DEF LoggerSpec

===============================================================================
