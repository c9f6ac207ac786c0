---------------------------- MODULE TelemetryBoard ----------------------------
(***************************************************************************)
(* Telemetry::TelemetryBoard (telemetry/telemetry_board.hpp, .cpp): the    *)
(* drivers in the order in which they are drawn, and the map from a car's  *)
(* number to its place.  The drawing thread alternates inform_new_frame,   *)
(* when the queue has a frame for it, and draw_columns                     *)
(* (workers/interface_worker.cpp).                                         *)
(*                                                                         *)
(* A place of the vector is the driver it holds and the object that holds  *)
(* it.  A gap is the car it was computed for.                              *)
(***************************************************************************)
EXTENDS DriverData, Functions, SequencesExt

CONSTANTS
    Cars,
    Dists, Times, Pits, Ranks, MaxLaps,     \* what the feed says about a car
    MaxTelems,      \* bound on the telemetry messages of a frame
    NDEBUG,         \* assertions are compiled out (Makefile:15)
    ResultsFirst,   \* whether a car's result may come before its telemetry
    MaxFrames       \* bound on the frames of a behaviour

ASSUME TelemetryBoardAssumption ==
    /\ NDEBUG \in BOOLEAN /\ ResultsFirst \in BOOLEAN
    /\ Dists \subseteq Nat \cup {NONE}
    /\ Times \subseteq Nat
    /\ Pits \subseteq BOOLEAN \cup {NONE}
    /\ Ranks \subseteq Nat /\ MaxLaps \in Nat
    /\ MaxTelems \in Nat /\ MaxFrames \in Nat
    /\ NONE \notin Cars

VARIABLES
    tracked,        \* whether num_checkpts and lap_length are known
    places,         \* _drivers
    map,            \* _driver_map
    turn,           \* what the drawing thread does next
    aborted,        \* an assertion failed or an exception met a noexcept
    frames,         \* history: frames received
    said,           \* history: what the frame to be drawn has said of the cars
    pit_streak      \* history: each car's messages from the pit, in a row

boardVars == <<tracked, places, map, turn, aborted, frames, said, pit_streak>>

Place == [driver |-> NewDriver, object |-> NewObject]

\* What has been said when the frame has been drawn.
Silence == [telems |-> << >>, result |-> NONE, lap |-> NONE]

BoardInit ==
    /\ tracked = FALSE
    /\ places = << >>
    /\ map = << >>
    /\ turn = "inform"
    /\ aborted = FALSE
    /\ frames = 0
    /\ said = Silence
    /\ pit_streak = [c \in Cars |-> 0]

-------------------------------------------------------------------------------
(* inform_new_frame, on the board [places, map, aborted].                  *)

\* emplace_back on a full vector doubles it: the drivers move to new objects.
Full(s) == \E k \in 0 .. Len(s) : Len(s) = 0 \/ Len(s) = 2 ^ k

Grown(s) ==
    IF Full(s) THEN [i \in DOMAIN s |-> [s[i] EXCEPT !.object = NewObject]] ELSE s

\* The map with car c at place i.
Mapped(m, c, i) == [d \in DOMAIN m \cup {c} |-> IF d = c THEN i ELSE m[d]]

\* Mutant: the vector's size is read after the new driver is added.
AddedLate(b, c) ==
    [b EXCEPT !.places = Append(Grown(@), Place),
              !.map = Mapped(@, c, Len(b.places) + 2)]

\* check_and_populate, for a car the map does not have.
Added(b, c) ==
    [b EXCEPT !.places = Append(Grown(@), Place),
              !.map = Mapped(@, c, Len(b.places) + 1)]

\* The call is the operand of an assertion.
Populated(b, c) == IF NDEBUG \/ c \in DOMAIN b.map THEN b ELSE Added(b, c)

\* _drivers.at(_driver_map.at(c)), where at() may throw.
Updated(b, c, Op(_)) ==
    IF c \in DOMAIN b.map /\ b.map[c] \in DOMAIN b.places
      THEN [b EXCEPT !.places[b.map[c]] = Op(@)]
      ELSE [b EXCEPT !.aborted = TRUE]

\* A car's telemetry.
TelemetryTaken(b, m) ==
    Updated(Populated(b, m.car), m.car,
        LAMBDA p : [driver |-> TakeTelemetry(p.driver, m),
                    object |-> [p.object EXCEPT !.new_telem = TRUE]])

\* The telemetry the board has grows stale.
Passed(b) ==
    [b EXCEPT !.places = [i \in DOMAIN @ |->
        [b.places[i] EXCEPT !.driver = FramePassed(@)]]]

\* All of the frame's, one message after the other.
Telemetry(b, telems) ==
    IF telems = << >> THEN b
    ELSE LET taken[n \in 0 .. Len(telems)] ==
               IF n = 0 THEN Passed(b) ELSE TelemetryTaken(taken[n - 1], telems[n])
         IN  taken[Len(telems)]

\* Mutant: results come in the order of the places.
ResultsInOrder(b, r) ==
    IF r = NONE \/ r.rank \notin DOMAIN b.places THEN b
    ELSE [b EXCEPT !.places[r.rank].driver = TakeResults(@, r)]

\* A car's overall result.
Results(b, r) ==
    IF r = NONE THEN b
    ELSE Updated(Populated(b, r.car), r.car,
             LAMBDA p : [p EXCEPT !.driver = TakeResults(@, r)])

\* A car's completed lap, which is only drawn.
CompletedLap(b, c) ==
    IF c = NONE THEN b ELSE Updated(Populated(b, c), c, LAMBDA p : p)

\* Mutant: drivers in the pit are not refreshed.
RefreshedOnTrack(b) ==
    [b EXCEPT !.places = [i \in DOMAIN @ |->
        IF @[i].driver.pit = TRUE THEN @[i]
        ELSE [driver |-> Refresh(@[i].driver, @[i].object),
              object |-> RefreshObject(@[i].driver, @[i].object)]]]

\* Every driver is refreshed; one beyond the last checkpoint throws.
Refreshed(b) ==
    IF \E i \in DOMAIN b.places :
         b.places[i].object.new_telem /\ OffTrack(b.places[i].driver)
      THEN [b EXCEPT !.aborted = TRUE]
      ELSE [b EXCEPT !.places = [i \in DOMAIN @ |->
               [driver |-> Refresh(@[i].driver, @[i].object),
                object |-> RefreshObject(@[i].driver, @[i].object)]]]

Informed(b, f) ==
    LET read == CompletedLap(Results(Telemetry(b, f.telems), f.result), f.lap)
    IN  IF read.aborted THEN read ELSE Refreshed(read)

-------------------------------------------------------------------------------
(* The feed.                                                               *)

\* A car's laps only grow, one at a time.
LapsOf(c) ==
    IF c \notin DOMAIN map THEN 0 ELSE OrZero(places[map[c]].driver.laps)

Messages == [car : Cars, dist : Dists, time : Times, pit : Pits]

\* At most one message of a car.
Telems == {s \in BoundedSeq(Messages, MaxTelems) :
             \A i, j \in DOMAIN s : s[i].car = s[j].car => i = j}

Known(s) == IF ResultsFirst THEN Cars
            ELSE DOMAIN map \cup {s[i].car : i \in DOMAIN s}

ResultsOf(cars) ==
    {r \in [car : cars, rank : Ranks, laps : 0 .. MaxLaps] :
        r.laps \in LapsOf(r.car) .. LapsOf(r.car) + 1}

\* Frames that follow what the board knows.  A track's length counts only once.
Frames ==
    UNION {[track : {FALSE, ~tracked}, telems : {s},
            result : ResultsOf(Known(s)) \cup {NONE},
            lap : Known(s) \cup {NONE}] : s \in Telems}

\* The part of a frame that is about cars.
OfCars(f) == [telems |-> f.telems, result |-> f.result, lap |-> f.lap]

InPitStreak(s) ==
    [c \in Cars |->
        IF \E i \in DOMAIN s : s[i].car = c /\ s[i].pit = TRUE
          THEN IF pit_streak[c] < MIN_IN_PIT_CNT THEN pit_streak[c] + 1 ELSE pit_streak[c]
        ELSE IF \E i \in DOMAIN s : s[i].car = c THEN 0 ELSE pit_streak[c]]

\* interface_worker.cpp:61-66: a frame is due.  Nothing but the event's own
\* information is kept before the track's length is known.
Inform ==
    /\ turn = "inform" /\ ~aborted
    /\ frames < MaxFrames /\ frames' = frames + 1
    /\ \E f \in Frames :
         /\ tracked' = (tracked \/ f.track)
         /\ IF tracked'
              THEN LET b == Informed([places |-> places, map |-> map,
                                      aborted |-> FALSE], f)
                   IN  /\ places' = b.places /\ map' = b.map
                       /\ aborted' = b.aborted
                       /\ said' = OfCars(f)
                       /\ pit_streak' = InPitStreak(f.telems)
              ELSE UNCHANGED <<places, map, aborted, said, pit_streak>>
    /\ turn' = "draw"

\* No frame is due.
NoFrame ==
    /\ turn = "inform" /\ ~aborted
    /\ turn' = "draw"
    /\ UNCHANGED <<tracked, places, map, aborted, frames, said, pit_streak>>

-------------------------------------------------------------------------------
(* draw_columns.                                                           *)

\* std::sort by rank moves the drivers from object to object; drivers of the
\* same rank end in any order.
Sorted(s) ==
    {[i \in DOMAIN s |-> [s[i] EXCEPT !.driver = s[p[i]].driver]] :
       p \in {q \in Bijection(DOMAIN s, DOMAIN s) :
                \A i, j \in DOMAIN s :
                  i < j => s[q[i]].driver.rank <= s[q[j]].driver.rank}}

CarsOf(s) == {s[i].driver.car : i \in DOMAIN s}

\* Mutant: the map is left as it was before the sort.
ReassociatedNot(m, s) == m

\* reassociate_drivers, when no car is unknown to the map.
Reassociated(m, s) ==
    [c \in DOMAIN m |->
        IF c \in CarsOf(s) THEN CHOOSE i \in DOMAIN s : s[i].driver.car = c
                           ELSE m[c]]

\* The gap to the leader and the interval to the next, for all but the leader.
WithGaps(s) ==
    [i \in DOMAIN s |->
        IF i = 1 THEN s[i]
        ELSE [s[i] EXCEPT
                 !.object.gap = IF Comparable(s[i].driver, s[1].driver)
                                  THEN s[i].driver.car ELSE @,
                 !.object.interval = IF Comparable(s[i].driver, s[i - 1].driver)
                                       THEN s[i].driver.car ELSE @]]

\* Whether a gap or an interval is asked for between times that are not positive.
ZeroCompared(s) ==
    \E i \in 2 .. Len(s) : \E j \in {1, i - 1} : ~PositiveTimes(s[i].driver, s[j].driver)

\* A car the map does not know and a time that is not positive fail an assertion.
Draw ==
    /\ turn = "draw" /\ ~aborted
    /\ turn' = "inform"
    /\ said' = Silence
    /\ \E s \in Sorted(places) :
         IF CarsOf(s) \subseteq DOMAIN map
           THEN /\ places' = WithGaps(s)
                /\ map' = Reassociated(map, s)
                /\ aborted' = (~NDEBUG /\ ZeroCompared(s))
           ELSE /\ aborted' = TRUE
                /\ places' = s
                /\ UNCHANGED map
    /\ UNCHANGED <<tracked, frames, pit_streak>>

BoardNext == Inform \/ NoFrame \/ Draw

BoardSpec == BoardInit /\ [][BoardNext]_boardVars

-------------------------------------------------------------------------------
(* The refinement.                                                         *)

\* What the driver says of its car, wherever it is kept.
RowOf(d) == [dist |-> d.dist, time |-> d.time, pit |-> d.pit,
             rank |-> d.rank, laps |-> d.laps, stale |-> d.stale]

\* The rows the board shows, by car.
Shown == [c \in DOMAIN map |-> RowOf(places[map[c]].driver)]

Score == INSTANCE Scoreboard WITH
            rows <- IF aborted THEN << >> ELSE Shown,
            ended <- aborted

-------------------------------------------------------------------------------
(* Properties.                                                             *)

Heard(i) == places[i].driver.car # NONE

\* _driver_map is the inverse of _drivers: every car that has sent telemetry has
\* one place and the map finds it, whatever was added, sorted and moved since.
MapMatches ==
    ~aborted =>
        /\ Cardinality(DOMAIN map) = Len(places)
        /\ \A i \in DOMAIN places : Heard(i) => /\ places[i].driver.car \in DOMAIN map
                                                /\ map[places[i].driver.car] = i

\* inform_new_frame and draw_columns implement Scoreboard: a car's data is what the
\* feed last said of that car, though the map finds it in a vector that grows and
\* whose drivers are sorted, moved to other objects and refreshed.
ScoreboardSpec == Score!Spec

\* With assertions compiled in, the program ends in inform_new_frame only for a driver
\* beyond the last checkpoint, and in draw_columns only for a car that has sent no
\* telemetry or for a checkpoint passed at time zero: no car of a frame is looked up
\* before it has its place, whatever the frame brings first.
AbortsHaveCause ==
    aborted /\ ~NDEBUG =>
        IF turn = "draw"
          THEN \E i \in DOMAIN places : places[i].object.new_telem /\ OffTrack(places[i].driver)
          ELSE \E i \in DOMAIN places :
                  ~Heard(i) \/ \E k \in DOMAIN places[i].driver.times :
                                  places[i].driver.times[k].time = 0

\* "Fill in newly received telemetry information. Returns an expected with the
\* error encountered, if any." (telemetry_board.hpp:170): no frame ends the program.
NeverAborts == ~aborted

\* Car c's checkpoint is not the one of its distance.
Lags(c) ==
    LET d == places[map[c]].driver
    IN  d.dist # NONE /\ d.cur # Quotient(d)

\* A frame that adds no car puts every car it has telemetry of at its checkpoint, and
\* neither it nor a drawing leaves any other car behind: what is taken into an object
\* is refreshed in it, however the drivers were moved before.
CheckpointCurrent ==
    [][~aborted' /\ DOMAIN map' = DOMAIN map =>
          \A c \in DOMAIN map : Lags(c)' => Lags(c) /\ c \notin Score!Heard(said')]_boardVars

\* The same of every frame.  One that adds a car moves the drivers whose telemetry it
\* has brought before, and _new_telem stays behind (telemetry_board.cpp:153).
CheckpointShown == turn = "draw" /\ ~aborted => \A c \in DOMAIN map : ~Lags(c)

\* "Driver should show as not in pit until at or after min count"
\* (tests/telemetry/driver_telemetry.cpp): a driver that has sent telemetry is in
\* the pit exactly when it has said so MIN_IN_PIT_CNT times in a row.
InPitShown ==
    ~aborted =>
        \A i \in DOMAIN places :
            LET d == places[i].driver
            IN  Heard(i) => d.in_pit = (pit_streak[d.car] >= MIN_IN_PIT_CNT)

\* "Do at the start of each lap" (driver_telemetry.cpp:119): no checkpoint is
\* older than the laps the driver has completed.
AgeShown ==
    \A i \in DOMAIN places :
        LET d == places[i].driver
        IN  \A k \in DOMAIN d.times : d.times[k].age <= OrZero(d.laps)

\* "Calculate each driver's gap to leader" (telemetry_board.cpp:222): a gap or an
\* interval drawn beside a driver was calculated for that driver.
GapIsOwn ==
    turn = "inform" =>
        \A i \in DOMAIN places :
            {places[i].object.gap, places[i].object.interval}
                \subseteq {NONE, places[i].driver.car}

===============================================================================
