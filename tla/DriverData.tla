------------------------------ MODULE DriverData ------------------------------
(***************************************************************************)
(* The data and the operations of Telemetry::DriverTelemetry               *)
(* (telemetry/driver_telemetry.hpp, .cpp), one operator per method.        *)
(*                                                                         *)
(* The fields the move constructor and the move assignment carry over are  *)
(* the driver's own.  The others stay with the object, that is with the    *)
(* element of the board's vector, when std::sort moves drivers around.     *)
(***************************************************************************)
EXTENDS Integers, Sequences

CONSTANTS
    LapLength,                      \* _lap_length
    ResetDist,                      \* _lap_length * LAP_DIST_RESET_PCT
    CHECKPOINT_DIST,
    MAX_TIMESTAMP_DIFF_ALLOWED,
    MIN_IN_PIT_CNT,
    STALE_TELEM_THRESH,
    MaxRank,                        \* the largest int32_t
    SizeT,                          \* 2^64
    NONE                            \* an empty optional, a field not set

ASSUME DriverDataAssumption ==
    /\ LapLength \in Nat \ {0}
    /\ ResetDist \in 0 .. LapLength
    /\ CHECKPOINT_DIST \in Nat \ {0}
    /\ MAX_TIMESTAMP_DIFF_ALLOWED \in Nat
    /\ MIN_IN_PIT_CNT \in Nat
    /\ STALE_TELEM_THRESH \in Nat
    /\ SizeT \in Nat \ {0}
    /\ NONE \notin Nat \cup BOOLEAN

\* ceil(length / CHECKPOINT_DIST)
Checkpoints == (LapLength + CHECKPOINT_DIST - 1) \div CHECKPOINT_DIST

EmptyCheckpoint == [time |-> NONE, age |-> 0]

\* A driver just added: default members, then set_checkpoints.
NewDriver ==
    [car    |-> NONE,               \* _car_num
     dist   |-> NONE,               \* _telemetry
     time   |-> 0,
     pit    |-> NONE,
     rank   |-> MaxRank,            \* _results
     laps   |-> NONE,
     stale  |-> STALE_TELEM_THRESH + 1,
     in_pit |-> TRUE,
     times  |-> [k \in 0 .. Checkpoints - 1 |-> EmptyCheckpoint],
     last   |-> NONE,               \* _last_checkpt
     cur    |-> 0]                  \* _cur_checkpt

\* What stays with the object.
NewObject == [pit_count |-> 0, cur_laps |-> 0, new_telem |-> FALSE,
              gap |-> NONE, interval |-> NONE]

-------------------------------------------------------------------------------
\* An unset protobuf number reads as zero.
OrZero(v) == IF v = NONE THEN 0 ELSE v

\* Mutant: every distance is taken as it comes.
CorrectedDistUnchecked(d, m) == m.dist

\* Mutant: nor is it taken at the end of the lap.
CorrectedDistAlways(d, m) ==
    IF d.dist # NONE /\ OrZero(m.dist) < d.dist THEN d.dist ELSE m.dist

\* A distance that decreases short of the end of the lap is overridden with
\* the previous one.
CorrectedDist(d, m) ==
    IF d.dist # NONE /\ OrZero(m.dist) < d.dist /\ d.dist <= ResetDist
      THEN d.dist ELSE m.dist

\* take_new_telemetry, but for _new_telem
TakeTelemetry(d, m) ==
    [d EXCEPT !.car = m.car, !.dist = CorrectedDist(d, m), !.time = m.time,
              !.pit = m.pit, !.stale = 0]

\* take_new_results
TakeResults(d, r) == [d EXCEPT !.rank = r.rank, !.laps = r.laps]

\* frame_passed; past the threshold nothing tells the counts apart
FramePassed(d) ==
    [d EXCEPT !.stale = IF @ > STALE_TELEM_THRESH THEN @ ELSE @ + 1]

-------------------------------------------------------------------------------
(* refresh.                                                                *)

\* Mutant: a frame outside the pit does not start the count again.
PitCountKept(d, o) ==
    IF d.pit = TRUE /\ o.pit_count < MIN_IN_PIT_CNT
      THEN o.pit_count + 1 ELSE o.pit_count

\* past the minimum nothing tells the counts apart
PitCount(d, o) ==
    IF d.pit = TRUE
      THEN IF o.pit_count < MIN_IN_PIT_CNT THEN o.pit_count + 1 ELSE o.pit_count
      ELSE 0

InPit(d, o) == d.pit # NONE /\ PitCount(d, o) >= MIN_IN_PIT_CNT

Quotient(d) == OrZero(d.dist) \div CHECKPOINT_DIST

\* refresh reaches a checkpoint the vector does not have: at() throws.
OffTrack(d) == d.dist # NONE /\ Quotient(d) # d.cur /\ Quotient(d) >= Checkpoints

\* (checkpt.quot - 1) % _dist_times.size(): the long is converted to size_t.
Preceding(quot) == ((quot - 1 + SizeT) % SizeT) % Checkpoints

Stamped(t) == [time |-> t, age |-> 0]

\* Mutant: the preceding checkpoint is not looked at.
CheckpointTimesUnchecked(d) == [d.times EXCEPT ![Quotient(d)] = Stamped(d.time)]

\* The timestamp is taken for this checkpoint unless it is far ahead of the
\* preceding one's, which is itself dropped when it is far ahead of this.
CheckpointTimes(d) ==
    LET this == Quotient(d)
        prec == Preceding(this)
        before == d.times[prec].time
    IN  CASE before = NONE -> [d.times EXCEPT ![this] = Stamped(d.time)]
          [] before # NONE /\ before > d.time + MAX_TIMESTAMP_DIFF_ALLOWED ->
               [d.times EXCEPT ![prec] = EmptyCheckpoint,
                               ![this] = Stamped(d.time)]
          [] before # NONE /\ d.time > before + MAX_TIMESTAMP_DIFF_ALLOWED ->
               [d.times EXCEPT ![this] = EmptyCheckpoint]
          [] OTHER -> [d.times EXCEPT ![this] = Stamped(d.time)]

\* Only a new checkpoint is timed.
RefreshCheckpoint(d) ==
    IF d.dist = NONE \/ Quotient(d) = d.cur THEN d
    ELSE [d EXCEPT !.times = CheckpointTimes(d), !.last = d.cur,
                   !.cur = Quotient(d)]

RefreshTelemetry(d, o) ==
    IF o.new_telem
      THEN RefreshCheckpoint([d EXCEPT !.in_pit = InPit(d, o)])
      ELSE d

Aged(times) ==
    [k \in DOMAIN times |->
        IF times[k].time = NONE THEN times[k]
                                ELSE [times[k] EXCEPT !.age = @ + 1]]

NewLap(d, o) == d.laps # NONE /\ d.laps # o.cur_laps

\* The driver after refresh.
Refresh(d, o) ==
    LET t == RefreshTelemetry(d, o)
    IN  IF NewLap(d, o) THEN [t EXCEPT !.times = Aged(@)] ELSE t

\* Mutant: the lap that was started is not noted.
RefreshObjectLapLost(d, o) ==
    [o EXCEPT !.pit_count = IF o.new_telem THEN PitCount(d, o) ELSE @,
              !.new_telem = FALSE]

\* The object after refresh.
RefreshObject(d, o) ==
    [o EXCEPT !.pit_count = IF o.new_telem THEN PitCount(d, o) ELSE @,
              !.new_telem = FALSE,
              !.cur_laps  = IF NewLap(d, o) THEN d.laps ELSE @]

-------------------------------------------------------------------------------
(* diff_to_car.                                                            *)

\* Both cars have timed the checkpoint that this driver passed last.
BothTimed(d, e) ==
    d.last # NONE /\ d.times[d.last].time # NONE /\ e.times[d.last].time # NONE

\* What is asserted of their times.  A message without a time of day leaves zero.
PositiveTimes(d, e) ==
    BothTimed(d, e) => d.times[d.last].time > 0 /\ e.times[d.last].time > 0

\* Whether there is a value: they passed it at most a lap apart.
Comparable(d, e) ==
    BothTimed(d, e) /\ d.times[d.last].age - e.times[d.last].age \in -1 .. 1

===============================================================================
