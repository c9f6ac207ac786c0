---------------------------- MODULE DriverTelemetry ----------------------------
(***************************************************************************)
(* One driver on the track.  The feed reports where the car is and the     *)
(* time of day; now and then a distance drops or a timestamp runs away and *)
(* comes back (driver_telemetry.hpp:64-67, tests/telemetry/                *)
(* driver_telemetry.cpp:307).  The driver keeps, for every checkpoint, the *)
(* time at which the car passed it last, which is what gaps are made of.   *)
(***************************************************************************)
EXTENDS DriverData

CONSTANTS
    Jump,           \* how far a timestamp runs away
    Lasting,        \* whether it stays away for several checkpoints
    MaxTime         \* bound on the time of day

ASSUME DriverTelemetryAssumption ==
    /\ Lasting \in BOOLEAN
    /\ Jump \in Nat /\ Jump > 2 * MAX_TIMESTAMP_DIFF_ALLOWED
    /\ MaxTime \in Nat /\ MaxTime < Jump - MAX_TIMESTAMP_DIFF_ALLOWED

VARIABLES
    driver, object,     \* what is the driver's and what stays with the object
    position, clock,    \* the car and the time of day, as they are
    lap,                \* laps the car has completed
    dropped,            \* whether the last distance received was a drop
    streak              \* history: messages from the pit, in a row

vars == <<driver, object, position, clock, lap, dropped, streak>>

Message(dist, time, pit) == [car |-> "car", dist |-> dist, time |-> time, pit |-> pit]

Init ==
    /\ driver = NewDriver
    /\ object = NewObject
    /\ position = 0 /\ clock = 1 /\ lap = 0
    /\ dropped = FALSE /\ streak = 0

\* take_new_telemetry and refresh, as inform_new_frame calls them.
Receive(m) ==
    LET d == TakeTelemetry(driver, m)
        o == [object EXCEPT !.new_telem = TRUE]
    IN  /\ ~OffTrack(d)
        /\ driver' = Refresh(d, o)
        /\ object' = RefreshObject(d, o)
        /\ streak' = IF ~m.pit THEN 0 ELSE IF streak < MIN_IN_PIT_CNT
                                            THEN streak + 1 ELSE streak

Drive(p) ==
    /\ clock < MaxTime
    /\ clock' = clock + 1
    /\ position' = p % LapLength
    /\ lap' = IF p >= LapLength THEN lap + 1 ELSE lap

RanAway(k) == driver.times[k].time # NONE /\ driver.times[k].time > MaxTime

Timestamps ==
    IF Lasting \/ \A k \in DOMAIN driver.times : ~RanAway(k)
      THEN {clock', clock' + Jump} ELSE {clock'}

\* The car has moved on, at most to the next checkpoint, and says so.
Report ==
    /\ \E p \in position .. position + 1 :
         /\ Drive(p)
         /\ \E t \in Timestamps, b \in BOOLEAN : Receive(Message(position', t, b))
    /\ dropped' = FALSE

\* A report with a distance the car has long passed.
ReportDrop ==
    /\ Drive(position)
    /\ position <= ResetDist
    /\ \E p \in 0 .. position - 1, b \in BOOLEAN : Receive(Message(p, clock', b))
    /\ dropped' = TRUE

\* An overall result: the laps the car has completed.
Result ==
    /\ driver.laps # lap
    /\ LET d == TakeResults(driver, [rank |-> 1, laps |-> lap])
       IN  /\ driver' = Refresh(d, object)
           /\ object' = RefreshObject(d, object)
    /\ UNCHANGED <<position, clock, lap, dropped, streak>>

Next == Report \/ ReportDrop \/ Result

Spec == Init /\ [][Next]_vars

-------------------------------------------------------------------------------
(* Properties.                                                             *)

Optional(S) == S \cup {NONE}

\* "we'll need to skip these erroneous timestamps" (driver_telemetry.hpp:67):
\* a timestamp that ran away survives only in the checkpoint the car is at, and
\* is gone when the car reaches the next one of the same lap.  What is left in the
\* last checkpoint of a lap depends on the predecessor of the first.
RunawaySkippedInLap ==
    \A k \in DOMAIN driver.times : RanAway(k) => k \in {driver.cur, Checkpoints - 1}

\* The same of every checkpoint.  The predecessor of the first is the last only when
\* the number of checkpoints divides 2^64 (driver_telemetry.cpp:67).
RunawaySkipped == \A k \in DOMAIN driver.times : RanAway(k) => k = driver.cur

\* Drops are corrected and leave no trace: once the feed tells the truth again
\* the distance is the car's, and no end of lap is missed.
DistanceTrue == driver.dist # NONE /\ ~dropped => driver.dist = position

\* Back from where the car is, each checkpoint was passed before the one that
\* follows it, so that no gap is measured against a later lap's time.
TimesOrdered ==
    LET behind(i) == (driver.cur - i + Checkpoints) % Checkpoints
    IN  \A i, j \in 0 .. Checkpoints - 1 :
           LET later   == driver.times[behind(i)]
               earlier == driver.times[behind(j)]
           IN  i < j /\ later.time # NONE /\ earlier.time # NONE
                 /\ ~RanAway(behind(i)) /\ ~RanAway(behind(j))
                 => earlier.time < later.time /\ earlier.age >= later.age

\* "Driver should show as not in pit until at or after min count"
\* (tests/telemetry/driver_telemetry.cpp:398): a driver is in the pit exactly when
\* it has said so MIN_IN_PIT_CNT times in a row, whatever else its messages and
\* results bring.
InPitSettled ==
    driver.car # NONE => driver.in_pit = (streak >= MIN_IN_PIT_CNT)

\* "Do at the start of each lap" (driver_telemetry.cpp:119): a checkpoint ages
\* once per lap, so none is older than the laps the driver has completed.
AgePerLap ==
    \A k \in DOMAIN driver.times : driver.times[k].age <= OrZero(driver.laps)

===============================================================================
