---------------------------- MODULE TelemetryQueue ----------------------------
(***************************************************************************)
(* Telemetry::TelemetryQueue (telemetry/telemetry_queue.hpp, .cpp): a ring *)
(* of locked slots between the thread that receives telemetry frames (the  *)
(* producer), the thread that draws them (the consumer) and the threads    *)
(* that reconfigure the delay while both run (the setters).                *)
(*                                                                         *)
(* A frame is the number enq_idx had when it was accepted.  Every mutex is *)
(* the set of control points at which a thread holds it, so a lock is      *)
(* taken and released exactly where the scoped objects of the code are.    *)
(***************************************************************************)
EXTENDS Integers, Sequences, FiniteSets

CONSTANTS
    Setters,         \* threads calling set_delay_sec and set_refresh_hz
    Delays,          \* the seconds they may ask for
    Rates,           \* the rates they may ask for
    InitDelay,       \* constructor argument delay_s
    InitRate,        \* constructor argument refresh_hz
    DELAY_SLOP,
    MAX_DELAY_S,
    MIN_REFRESH_HZ,
    MAX_REFRESH_HZ,
    SizeT,           \* 2^64: the modulus of size_t arithmetic
    MaxFrames,       \* bound: frames the producer offers in a behaviour
    NULL,            \* the null unique_ptr of a slot
    NONE             \* the empty optional of _total_frames

ASSUME QueueAssumption ==
    /\ Delays \subseteq Nat
    /\ Rates \subseteq Nat
    /\ DELAY_SLOP \in Nat \ {0}
    /\ MAX_DELAY_S \in Nat
    /\ MIN_REFRESH_HZ \in Nat \ {0}
    /\ MAX_REFRESH_HZ \in Nat
    /\ InitDelay \in 0 .. MAX_DELAY_S
    /\ InitRate \in MIN_REFRESH_HZ .. MAX_REFRESH_HZ
    /\ SizeT \in Nat
    /\ MaxFrames \in Nat
    /\ NULL \notin Nat
    /\ NONE \notin Nat

VARIABLES
    delay_s,         \* DelayInfo
    refresh_hz,
    total_frames,    \* _total_frames, or NONE
    enq_idx,
    deq_idx,
    frames,          \* _frames; index i lives in slot SlotOf(i)
    prod,            \* control point of the producer, inside enqueue
    prod_slot,       \* the slot it locks
    cons,            \* control point of the consumer, inside dequeue
    cons_slot,
    setter,          \* control point of each setter
    request,         \* the call each setter is making
    delivered        \* history: the frames dequeue has returned, in order

vars == <<delay_s, refresh_hz, total_frames, enq_idx, deq_idx, frames,
          prod, prod_slot, cons, cons_slot, setter, request, delivered>>

config   == <<delay_s, refresh_hz, total_frames>>
ring     == <<enq_idx, deq_idx, frames>>
producer == <<prod, prod_slot>>
consumer == <<cons, cons_slot>>
setting  == <<setter, request>>

-------------------------------------------------------------------------------
(* DelayInfo.                                                              *)

TotalFor(d, hz) == IF d > 0 THEN d * hz + DELAY_SLOP ELSE NONE

\* get_delay_frames().value_or(DELAY_SLOP)
Capacity(total) == IF total = NONE THEN DELAY_SLOP ELSE total

\* get_min_delay_frames()
MinFrames(total) == IF total = NONE THEN 0 ELSE total - DELAY_SLOP

-------------------------------------------------------------------------------
(* Indices, slots and locks.                                               *)

\* The slot of index i in a vector of n slots.  Vectors are sequences here,
\* so slots count from 1.
SlotIn(i, n) == (i % n) + 1

SlotOf(i) == SlotIn(i, Len(frames))

\* _enq_idx - _deq_idx, a size_t: it wraps while a rebuild has moved deq_idx
\* past enq_idx.
Pending == IF deq_idx <= enq_idx THEN enq_idx - deq_idx
                                 ELSE SizeT + enq_idx - deq_idx

\* _frame_mtx, shared by enqueue and dequeue and unique in rebuild_delay.
ProducerShares  == prod \in {"slot", "store", "commit"}
ConsumerShares  == cons \in {"slot", "take", "move"}
RebuildOwns     == \E s \in Setters : setter[s] \in {"skip", "clamp", "swap"}

\* The mutex of one slot.
ProducerLocks(k) == prod \in {"store", "commit"} /\ prod_slot = k
ConsumerLocks(k) == cons \in {"take", "move"} /\ cons_slot = k

\* _delay_info_mtx, held from the start of a legal set call to its end.
DelayInfoFree == \A s \in Setters : setter[s] \in {"idle", "enter"}

-------------------------------------------------------------------------------
Init ==
    /\ delay_s = InitDelay
    /\ refresh_hz = InitRate
    /\ total_frames = TotalFor(InitDelay, InitRate)
    /\ enq_idx = 0
    /\ deq_idx = 0
    /\ frames = [k \in 1 .. Capacity(total_frames) |-> NULL]
    /\ prod = "idle"
    /\ prod_slot = 1
    /\ cons = "idle"
    /\ cons_slot = 1
    /\ setter = [s \in Setters |-> "idle"]
    /\ request = [s \in Setters |-> [op |-> "delay", arg |-> InitDelay]]
    /\ delivered = << >>

-------------------------------------------------------------------------------
(* enqueue.  The capacity test runs before any lock is taken; the loads of *)
(* the two indices and of the delay are one step.                          *)

\* Mutant: one frame too many.
HasRoomOffByOne == Pending <= Capacity(total_frames)

HasRoom == Pending < Capacity(total_frames)

EnqueueCheck ==
    /\ prod = "idle"
    /\ enq_idx < MaxFrames
    /\ HasRoom
    /\ prod' = "shared"
    /\ UNCHANGED <<config, ring, prod_slot, consumer, setting, delivered>>

\* DELAY_FULL: the frame is dropped.
EnqueueFull ==
    /\ prod = "idle"
    /\ ~HasRoom
    /\ UNCHANGED vars

EnqueueShared ==
    /\ prod = "shared"
    /\ ~RebuildOwns
    /\ prod' = "slot"
    /\ prod_slot' = SlotOf(enq_idx)
    /\ UNCHANGED <<config, ring, consumer, setting, delivered>>

EnqueueSlot ==
    /\ prod = "slot"
    /\ ~ConsumerLocks(prod_slot)
    /\ prod' = "store"
    /\ UNCHANGED <<config, ring, prod_slot, consumer, setting, delivered>>

EnqueueStore ==
    /\ prod = "store"
    /\ frames' = [frames EXCEPT ![prod_slot] = enq_idx]
    /\ prod' = "commit"
    /\ UNCHANGED <<config, enq_idx, deq_idx, prod_slot, consumer, setting,
                   delivered>>

EnqueueCommit ==
    /\ prod = "commit"
    /\ enq_idx' = enq_idx + 1
    /\ prod' = "idle"
    /\ UNCHANGED <<config, deq_idx, frames, prod_slot, consumer, setting,
                   delivered>>

Enqueue == EnqueueCheck \/ EnqueueFull \/ EnqueueShared \/ EnqueueSlot
             \/ EnqueueStore \/ EnqueueCommit

-------------------------------------------------------------------------------
(* dequeue.                                                                *)

\* Mutants: one frame early, one frame late.
DelayReachedEarly == Pending + 1 >= MinFrames(total_frames)
DelayReachedLate == Pending > MinFrames(total_frames)

DelayReached == Pending >= MinFrames(total_frames)

DequeueCheck ==
    /\ cons = "idle"
    /\ DelayReached
    /\ cons' = "shared"
    /\ UNCHANGED <<config, ring, producer, cons_slot, setting, delivered>>

\* TOO_RECENT before any lock: the delay is not filled yet.
DequeueEarly ==
    /\ cons = "idle"
    /\ ~DelayReached
    /\ UNCHANGED vars

DequeueShared ==
    /\ cons = "shared"
    /\ ~RebuildOwns
    /\ cons' = "slot"
    /\ cons_slot' = SlotOf(deq_idx)
    /\ UNCHANGED <<config, ring, producer, setting, delivered>>

DequeueSlot ==
    /\ cons = "slot"
    /\ ~ProducerLocks(cons_slot)
    /\ cons' = "take"
    /\ UNCHANGED <<config, ring, producer, cons_slot, setting, delivered>>

\* A null slot is TOO_RECENT and releases both locks.
DequeueTake ==
    /\ cons = "take"
    /\ IF frames[cons_slot] = NULL
         THEN cons' = "idle" /\ UNCHANGED deq_idx
         ELSE cons' = "move" /\ deq_idx' = deq_idx + 1
    /\ UNCHANGED <<config, enq_idx, frames, producer, cons_slot, setting,
                   delivered>>

\* Mutant: the frame is copied out and stays in its slot.
DequeueMoveCopies ==
    /\ cons = "move"
    /\ delivered' = Append(delivered, frames[cons_slot])
    /\ cons' = "idle"
    /\ UNCHANGED <<config, ring, producer, cons_slot, setting>>

DequeueMove ==
    /\ cons = "move"
    /\ delivered' = Append(delivered, frames[cons_slot])
    /\ frames' = [frames EXCEPT ![cons_slot] = NULL]
    /\ cons' = "idle"
    /\ UNCHANGED <<config, enq_idx, deq_idx, producer, cons_slot, setting>>

Dequeue == DequeueCheck \/ DequeueEarly \/ DequeueShared \/ DequeueSlot
             \/ DequeueTake \/ DequeueMove

-------------------------------------------------------------------------------
(* set_delay_sec and set_refresh_hz.                                       *)

Requests == [op : {"delay"}, arg : Delays] \cup [op : {"rate"}, arg : Rates]

Legal(r) == IF r.op = "delay" THEN r.arg <= MAX_DELAY_S
                              ELSE r.arg \in MIN_REFRESH_HZ .. MAX_REFRESH_HZ

SetCall(s) ==
    /\ setter[s] = "idle"
    /\ \E r \in Requests :
         /\ Legal(r)
         /\ request' = [request EXCEPT ![s] = r]
    /\ setter' = [setter EXCEPT ![s] = "enter"]
    /\ UNCHANGED <<config, ring, producer, consumer, delivered>>

\* ILLEGAL_DELAY or ILLEGAL_REFRESH, before any lock.
SetRejected(s) ==
    /\ setter[s] = "idle"
    /\ \E r \in Requests : ~Legal(r)
    /\ UNCHANGED vars

\* Take _delay_info_mtx.
SetEnter(s) ==
    /\ setter[s] = "enter"
    /\ DelayInfoFree
    /\ setter' = [setter EXCEPT ![s] = "assign"]
    /\ UNCHANGED <<config, ring, producer, consumer, request, delivered>>

\* DelayInfo::set_delay_s and set_refresh_hz: first critical section.
SetAssign(s) ==
    /\ setter[s] = "assign"
    /\ IF request[s].op = "delay"
         THEN delay_s' = request[s].arg /\ UNCHANGED refresh_hz
         ELSE refresh_hz' = request[s].arg /\ UNCHANGED delay_s
    /\ setter' = [setter EXCEPT ![s] = "recalculate"]
    /\ UNCHANGED <<total_frames, ring, producer, consumer, request, delivered>>

\* Mutant: only a new delay is recalculated.
SetRecalculateDelayOnly(s) ==
    /\ setter[s] = "recalculate"
    /\ total_frames' = IF request[s].op = "delay"
                         THEN TotalFor(delay_s, refresh_hz) ELSE total_frames
    /\ setter' = [setter EXCEPT ![s] = "rebuild"]
    /\ UNCHANGED <<delay_s, refresh_hz, ring, producer, consumer, request,
                   delivered>>

\* Mutant: the set call locks the mutex it already holds.
SetRecalculateLocksTwice(s) ==
    /\ setter[s] = "recalculate"
    /\ DelayInfoFree
    /\ total_frames' = TotalFor(delay_s, refresh_hz)
    /\ setter' = [setter EXCEPT ![s] = "rebuild"]
    /\ UNCHANGED <<delay_s, refresh_hz, ring, producer, consumer, request,
                   delivered>>

\* DelayInfo::recalculate: second critical section.
SetRecalculate(s) ==
    /\ setter[s] = "recalculate"
    /\ total_frames' = TotalFor(delay_s, refresh_hz)
    /\ setter' = [setter EXCEPT ![s] = "rebuild"]
    /\ UNCHANGED <<delay_s, refresh_hz, ring, producer, consumer, request,
                   delivered>>

-------------------------------------------------------------------------------
(* rebuild_delay.                                                          *)

RebuildLock(s) ==
    /\ setter[s] = "rebuild"
    /\ ~ProducerShares
    /\ ~ConsumerShares
    /\ ~RebuildOwns
    /\ setter' = [setter EXCEPT ![s] = "skip"]
    /\ UNCHANGED <<config, ring, producer, consumer, request, delivered>>

SkipFrames(prev, new) == IF new < prev THEN prev - new - 1 ELSE 0

\* Before the first frame only the vector changes, and the call returns.
RebuildEmpty(s) ==
    /\ setter[s] = "skip"
    /\ enq_idx = 0
    /\ frames' = [k \in 1 .. Capacity(total_frames) |-> NULL]
    /\ setter' = [setter EXCEPT ![s] = "idle"]
    /\ UNCHANGED <<config, enq_idx, deq_idx, producer, consumer, request,
                   delivered>>

\* _deq_idx += skip_frames
RebuildSkip(s) ==
    /\ setter[s] = "skip"
    /\ enq_idx # 0
    /\ deq_idx' = deq_idx + SkipFrames(Len(frames), Capacity(total_frames))
    /\ setter' = [setter EXCEPT ![s] = "clamp"]
    /\ UNCHANGED <<config, enq_idx, frames, producer, consumer, request,
                   delivered>>

\* Mutant: no std::min.
RebuildClampMissing(s) ==
    /\ setter[s] = "clamp"
    /\ setter' = [setter EXCEPT ![s] = "swap"]
    /\ UNCHANGED <<config, ring, producer, consumer, request, delivered>>

\* _deq_idx.store(std::min(_deq_idx, _enq_idx))
RebuildClamp(s) ==
    /\ setter[s] = "clamp"
    /\ deq_idx' = IF deq_idx <= enq_idx THEN deq_idx ELSE enq_idx
    /\ setter' = [setter EXCEPT ![s] = "swap"]
    /\ UNCHANGED <<config, enq_idx, frames, producer, consumer, request,
                   delivered>>

\* The frame that copying index i moves out of the old vector: a slot that a
\* smaller index has already been moved out of is null.
Moved(i) == IF i >= deq_idx + Len(frames) THEN NULL ELSE frames[SlotOf(i)]

\* Mutant: the position in the old vector is used in the new one.
CopiedOldSlot(k, n) ==
    LET last == {i \in deq_idx .. enq_idx - 1 :
                    SlotOf(i) = k /\ i + n >= enq_idx}
    IN  IF last = {} THEN NULL ELSE Moved(CHOOSE i \in last : TRUE)

\* What slot k of a vector of n slots holds once deq_idx .. enq_idx - 1 have
\* been copied in ascending order: the last index that lands there, the one
\* no later index, n further on, overwrites.
Copied(k, n) ==
    LET last == {i \in deq_idx .. enq_idx - 1 :
                    SlotIn(i, n) = k /\ i + n >= enq_idx}
    IN  IF last = {} THEN NULL ELSE Moved(CHOOSE i \in last : TRUE)

\* Copy, replace the vector and return: both mutexes are released.
RebuildSwap(s) ==
    /\ setter[s] = "swap"
    /\ LET n == Capacity(total_frames)
       IN  frames' = [k \in 1 .. n |-> Copied(k, n)]
    /\ setter' = [setter EXCEPT ![s] = "idle"]
    /\ UNCHANGED <<config, enq_idx, deq_idx, producer, consumer, request,
                   delivered>>

Set(s) == SetCall(s) \/ SetRejected(s) \/ SetEnter(s) \/ SetAssign(s)
            \/ SetRecalculate(s) \/ RebuildLock(s) \/ RebuildEmpty(s)
            \/ RebuildSkip(s) \/ RebuildClamp(s) \/ RebuildSwap(s)

-------------------------------------------------------------------------------
Next == Enqueue \/ Dequeue \/ \E s \in Setters : Set(s)

Spec == Init /\ [][Next]_vars

(***************************************************************************)
(* Fairness.  The network owes nobody a frame, so EnqueueCheck has none;   *)
(* a call that has begun goes on, the drawing thread polls for ever        *)
(* (workers/interface_worker.cpp), and a mutex that is free again and      *)
(* again is obtained: every holder releases it after a few instructions    *)
(* and then sleeps or waits for input.                                     *)
(***************************************************************************)
EnqueueFairness ==
    /\ SF_vars(EnqueueShared) /\ SF_vars(EnqueueSlot)
    /\ WF_vars(EnqueueStore) /\ WF_vars(EnqueueCommit)

DequeueFairness ==
    /\ WF_vars(DequeueCheck)
    /\ SF_vars(DequeueShared) /\ SF_vars(DequeueSlot)
    /\ WF_vars(DequeueTake) /\ WF_vars(DequeueMove)

SetFairness(s) ==
    /\ SF_vars(SetEnter(s)) /\ SF_vars(RebuildLock(s))
    /\ WF_vars(SetAssign(s) \/ SetRecalculate(s) \/ RebuildEmpty(s)
                 \/ RebuildSkip(s) \/ RebuildClamp(s) \/ RebuildSwap(s))

FairSpec ==
    /\ Spec
    /\ EnqueueFairness
    /\ DequeueFairness
    /\ \A s \in Setters : SetFairness(s)

-------------------------------------------------------------------------------
(* Properties.                                                             *)

\* Every variable has the type the code gives it.
TypeOK ==
    /\ delay_s \in Nat
    /\ refresh_hz \in Nat \ {0}
    /\ total_frames \in Nat \cup {NONE}
    /\ total_frames # NONE => total_frames >= DELAY_SLOP
    /\ enq_idx \in Nat
    /\ deq_idx \in Nat
    /\ frames \in Seq(Nat \cup {NULL})
    /\ frames # << >>
    /\ prod \in {"idle", "shared", "slot", "store", "commit"}
    /\ prod_slot \in Nat \ {0}
    /\ cons \in {"idle", "shared", "slot", "take", "move"}
    /\ cons_slot \in Nat \ {0}
    /\ setter \in [Setters -> {"idle", "enter", "assign", "recalculate",
                               "rebuild", "skip", "clamp", "swap"}]
    /\ request \in [Setters -> {r \in Requests \cup
                                  [op : {"delay"}, arg : {InitDelay}] : Legal(r)}]
    /\ delivered \in Seq(Nat)

\* No frame is handed to the drawing thread twice, whatever the setters do
\* meanwhile: each unique_ptr is moved, never copied, through every rebuild.
DeliveredOnce ==
    \A i, j \in DOMAIN delivered : delivered[i] = delivered[j] => i = j

\* No frame is in two slots, and none that was delivered is still in the ring.
FramesDistinct ==
    /\ \A k, l \in DOMAIN frames :
          frames[k] = frames[l] /\ frames[k] # NULL => k = l
    /\ \A i \in DOMAIN delivered, k \in DOMAIN frames : frames[k] # delivered[i]

\* Outside the two stores of rebuild_delay the indices are in order.
IndicesOrdered ==
    (\A s \in Setters : setter[s] # "clamp") => deq_idx <= enq_idx

\* Between set calls the vector has the size the configured delay asks for,
\* so no update of one half of the configuration is ever lost.
ConfigConsistent ==
    DelayInfoFree =>
        /\ total_frames = TotalFor(delay_s, refresh_hz)
        /\ Len(frames) = Capacity(total_frames)

\* A frame that waits in the ring is one the consumer will still ask for: no
\* stale frame is left behind a moved deq_idx to surface a lap later.
NoStaleFrame ==
    ~RebuildOwns =>
        \A k \in DOMAIN frames :
            \/ frames[k] = NULL
            \/ prod = "commit" /\ prod_slot = k
            \/ cons = "move" /\ cons_slot = k
            \/ \E i \in deq_idx .. enq_idx - 1 : SlotOf(i) = k

\* Every index yet to be read still has its own frame in its slot: nothing
\* accepted is overwritten or misplaced.
RingComplete ==
    \A i \in deq_idx .. enq_idx - 1 : frames[SlotOf(i)] = i

\* A rebuild moves every frame that is still to be read to the slot its index has
\* in the new vector, as long as there are no more of them than slots, whatever
\* the two setters and the readers did to the indices before it.
RebuildKeepsFrames ==
    [][(\E s \in Setters : RebuildSwap(s))
          /\ RingComplete /\ Pending <= Capacity(total_frames) => RingComplete']_vars

\* Frames are drawn in the order in which they arrived.
DeliveredInOrder ==
    \A i, j \in DOMAIN delivered : i < j => delivered[i] < delivered[j]

\* assert(_deq_idx <= _enq_idx), which enqueue, dequeue and
\* get_accrued_delay_ms evaluate without a lock (telemetry_queue.cpp:48, 97,
\* 123): the three threads may evaluate it in any state.
IndicesAsserted == deq_idx <= enq_idx

\* With the delay left alone, or set again to what it is, the queue is a
\* DelayLine: the concurrent calls take effect in one step each, in order, and
\* honour the delay.
Line == INSTANCE DelayLine WITH
            Bound    <- Capacity(TotalFor(InitDelay, InitRate)),
            Hold     <- MinFrames(TotalFor(InitDelay, InitRate)),
            accepted <- enq_idx,
            released <- delivered

DelayLineSpec == Line!Spec

\* The consumer never starves next to a ring whose delay is filled: a frame
\* that is due is read, unless the delay is raised meanwhile.
FilledIsRead ==
    \A i \in 0 .. MaxFrames - 1 :
        LET due == i < enq_idx /\ enq_idx - i >= MinFrames(total_frames)
        IN  due ~> (deq_idx > i \/ ~due)

\* Every set call returns, against any number of polling calls.
SetTerminates ==
    \A s \in Setters : (setter[s] # "idle") ~> (setter[s] = "idle")

===============================================================================
