------------------------------ MODULE DriverProofs ------------------------------
(***************************************************************************)
(* Theorems about DriverTelemetry and about TelemetryBoard, for every      *)
(* track, every distance between checkpoints and every threshold, and for  *)
(* any number of cars.                                                     *)
(***************************************************************************)
EXTENDS DriverTelemetry, TelemetryBoard, NumberFacts, FiniteSetTheorems, TLAPS

-------------------------------------------------------------------------------
(* The data.                                                               *)

Places == 0 .. Checkpoints - 1
CheckpointType == [time : Nat \cup {NONE}, age : Nat]

DriverType ==
    [car    : {"car", NONE},
     dist   : Nat \cup {NONE},
     time   : Nat,
     pit    : BOOLEAN \cup {NONE},
     rank   : {1, MaxRank},
     laps   : Nat \cup {NONE},
     stale  : Nat,
     in_pit : BOOLEAN,
     times  : [Places -> CheckpointType],
     last   : Nat \cup {NONE},
     cur    : Places]

ObjectType ==
    [pit_count : Nat, cur_laps : Nat, new_telem : {FALSE}, gap : {NONE},
     interval : {NONE}]

MessageType == [car : {"car"}, dist : Nat, time : Nat, pit : BOOLEAN]

\* The constants.
LEMMA Positive ==
  /\ LapLength \in Nat /\ LapLength > 0
  /\ CHECKPOINT_DIST \in Nat /\ CHECKPOINT_DIST > 0
  /\ SizeT \in Nat /\ SizeT > 0
  /\ MIN_IN_PIT_CNT \in Nat /\ MAX_TIMESTAMP_DIFF_ALLOWED \in Nat
  /\ STALE_TELEM_THRESH \in Nat
  /\ NONE \notin Nat /\ NONE \notin BOOLEAN
BY DriverDataAssumption

\* A lap has at least one checkpoint, and every place on it belongs to one; the
\* last place belongs to the last checkpoint.
LEMMA CheckpointCount ==
  /\ Checkpoints \in Nat /\ Checkpoints > 0
  /\ \A p \in 0 .. LapLength - 1 : p \div CHECKPOINT_DIST \in Places
  /\ (LapLength - 1) \div CHECKPOINT_DIST = Checkpoints - 1
<1>1. LapLength - 1 \in Nat
  BY Positive
<1>2. PICK c \in Nat : c = (LapLength - 1) \div CHECKPOINT_DIST
  BY <1>1, Positive, DivMod
<1>3. Checkpoints = c + 1
  <2>1. LapLength + CHECKPOINT_DIST - 1 = (LapLength - 1) + CHECKPOINT_DIST
    BY Positive
  <2>2. ((LapLength - 1) + CHECKPOINT_DIST) \div CHECKPOINT_DIST = c + 1
    BY <1>1, <1>2, Positive, PeriodDiv
  <2> QED
    BY <2>1, <2>2 DEF Checkpoints
<1>4. ASSUME NEW p \in 0 .. LapLength - 1
      PROVE  p \div CHECKPOINT_DIST \in 0 .. c
  <2>1. p \in Nat /\ p <= LapLength - 1
    BY Positive
  <2>2. p \div CHECKPOINT_DIST \in Nat
    BY <2>1, Positive, DivMod
  <2>3. p \div CHECKPOINT_DIST <= (LapLength - 1) \div CHECKPOINT_DIST
    BY <1>1, <2>1, Positive, DivMonotone, Zenon
  <2> QED
    BY <1>2, <2>2, <2>3
<1> QED
  BY <1>2, <1>3, <1>4 DEF Places

-------------------------------------------------------------------------------
(* The operators.                                                          *)

\* The predecessor of a checkpoint is a checkpoint.
LEMMA PrecedingType ==
  ASSUME NEW q \in Nat
  PROVE  Preceding(q) \in Places
<1>1. PICK s \in Nat : s = (q - 1 + SizeT) % SizeT
  <2>1. q - 1 + SizeT \in Nat
    BY Positive
  <2> QED
    BY <2>1, Positive, DivMod
<1>2. s % Checkpoints \in Places
  BY <1>1, CheckpointCount, DivMod DEF Places
<1> QED
  BY <1>1, <1>2 DEF Preceding

\* Timing a checkpoint touches it and its predecessor only: it is stamped or
\* emptied, and the predecessor is emptied exactly when it is far ahead.
LEMMA CheckpointTimesType ==
  ASSUME NEW d, d.times \in [Places -> CheckpointType], d.time \in Nat,
         Quotient(d) \in Places
  PROVE  LET this  == Quotient(d)
             prec  == Preceding(this)
             ahead == /\ d.times[prec].time # NONE
                      /\ d.times[prec].time > d.time + MAX_TIMESTAMP_DIFF_ALLOWED
         IN  /\ CheckpointTimes(d) \in [Places -> CheckpointType]
             /\ CheckpointTimes(d)[this] \in {EmptyCheckpoint, Stamped(d.time)}
             /\ ahead /\ prec # this => CheckpointTimes(d)[prec] = EmptyCheckpoint
             /\ \A k \in Places \ {this} :
                   \/ CheckpointTimes(d)[k] = d.times[k]
                   \/ ahead /\ k = prec /\ CheckpointTimes(d)[k] = EmptyCheckpoint
<1> DEFINE this == Quotient(d)
           prec == Preceding(this)
           before == d.times[prec].time
           new == CheckpointTimes(d)
<1>1. this \in Places /\ prec \in Places
  BY PrecedingType, CheckpointCount DEF Places
<1>2. /\ d.times \in [Places -> CheckpointType] /\ d.time \in Nat
      /\ before \in Nat \cup {NONE}
      /\ EmptyCheckpoint \in CheckpointType /\ Stamped(d.time) \in CheckpointType
  BY <1>1, Positive DEF DriverType, CheckpointType, EmptyCheckpoint, Stamped
<1>3. CASE before = NONE
  <2>1. new = [d.times EXCEPT ![this] = Stamped(d.time)]
    BY <1>3 DEF CheckpointTimes
  <2> QED
    BY <1>1, <1>2, <1>3, <2>1
<1>4. CASE before # NONE /\ before > d.time + MAX_TIMESTAMP_DIFF_ALLOWED
  <2>1. new = [d.times EXCEPT ![prec] = EmptyCheckpoint, ![this] = Stamped(d.time)]
    BY <1>2, <1>4, Positive DEF CheckpointTimes
  <2> QED
    BY <1>1, <1>2, <1>4, <2>1
<1>5. CASE /\ before # NONE /\ ~(before > d.time + MAX_TIMESTAMP_DIFF_ALLOWED)
           /\ d.time > before + MAX_TIMESTAMP_DIFF_ALLOWED
  <2>1. new = [d.times EXCEPT ![this] = EmptyCheckpoint]
    BY <1>5 DEF CheckpointTimes
  <2> QED
    BY <1>1, <1>2, <1>5, <2>1
<1>6. CASE /\ before # NONE /\ ~(before > d.time + MAX_TIMESTAMP_DIFF_ALLOWED)
           /\ ~(d.time > before + MAX_TIMESTAMP_DIFF_ALLOWED)
  <2>1. new = [d.times EXCEPT ![this] = Stamped(d.time)]
    BY <1>6 DEF CheckpointTimes
  <2> QED
    BY <1>1, <1>2, <1>6, <2>1
<1> QED
  BY <1>3, <1>4, <1>5, <1>6

\* A lap adds one to the age of every checkpoint that has a time.
LEMMA AgedType ==
  ASSUME NEW t \in [Places -> CheckpointType]
  PROVE  /\ Aged(t) \in [Places -> CheckpointType]
         /\ \A k \in Places :
               /\ Aged(t)[k].time = t[k].time
               /\ Aged(t)[k].age = IF t[k].time = NONE THEN t[k].age ELSE t[k].age + 1
<1> SUFFICES ASSUME NEW k \in Places
             PROVE  /\ Aged(t)[k] \in CheckpointType
                    /\ Aged(t)[k].time = t[k].time
                    /\ Aged(t)[k].age
                         = IF t[k].time = NONE THEN t[k].age ELSE t[k].age + 1
  BY DEF Aged
<1>1. t[k] \in CheckpointType /\ t[k].time \in Nat \cup {NONE} /\ t[k].age \in Nat
  BY DEF CheckpointType
<1>2. Aged(t)[k] = IF t[k].time = NONE THEN t[k] ELSE [t[k] EXCEPT !.age = t[k].age + 1]
  BY DEF Aged
<1> QED
  BY <1>1, <1>2 DEF CheckpointType

-------------------------------------------------------------------------------
(* What a message and a result do.                                         *)

\* Types, and the object's lap, which is the driver's while drivers keep their
\* places.
DataInv ==
    /\ driver \in DriverType /\ object \in ObjectType
    /\ position \in 0 .. LapLength - 1 /\ clock \in Nat \ {0} /\ lap \in Nat
    /\ dropped \in BOOLEAN /\ streak \in Nat
    /\ object.cur_laps = OrZero(driver.laps)
    /\ object.cur_laps <= lap

\* A message that reaches checkpoint q times it; one that reaches none leaves
\* the times alone.
Crosses(m, q) ==
    LET prec  == Preceding(q)
        ahead == /\ driver.times[prec].time # NONE
                 /\ driver.times[prec].time > m.time + MAX_TIMESTAMP_DIFF_ALLOWED
    IN  /\ q # driver.cur
        /\ driver'.cur = q
        /\ driver'.times[q] \in {EmptyCheckpoint, Stamped(m.time)}
        /\ ahead /\ prec # q => driver'.times[prec] = EmptyCheckpoint
        /\ \A k \in Places \ {q} :
              \/ driver'.times[k] = driver.times[k]
              \/ ahead /\ k = prec /\ driver'.times[k] = EmptyCheckpoint

Stays(q) == q = driver.cur /\ driver'.cur = q /\ driver'.times = driver.times

\* Receiving a message: take_new_telemetry and refresh together.
LEMMA ReceiveEffect ==
  ASSUME DataInv, NEW m \in MessageType, Receive(m)
  PROVE  /\ driver' \in DriverType /\ object' \in ObjectType
         /\ driver'.car = "car"
         /\ driver'.dist = CorrectedDist(driver, m) /\ driver'.dist \in Nat
         /\ driver'.laps = driver.laps /\ object'.cur_laps = object.cur_laps
         /\ object'.pit_count = IF ~m.pit THEN 0
                                ELSE IF object.pit_count < MIN_IN_PIT_CNT
                                       THEN object.pit_count + 1 ELSE object.pit_count
         /\ driver'.in_pit = (object'.pit_count >= MIN_IN_PIT_CNT)
         /\ LET q == driver'.dist \div CHECKPOINT_DIST
            IN  q \in Places /\ (Stays(q) \/ Crosses(m, q))
<1> DEFINE d == TakeTelemetry(driver, m)
           o == [object EXCEPT !.new_telem = TRUE]
           e == [d EXCEPT !.in_pit = InPit(d, o)]
           q == Quotient(e)
<1>m. m.car = "car" /\ m.dist \in Nat /\ m.time \in Nat /\ m.pit \in BOOLEAN
  BY DEF MessageType
<1>c. CorrectedDist(driver, m) \in Nat
  BY <1>m, Positive DEF CorrectedDist, DataInv, DriverType
<1>1. /\ d \in DriverType
      /\ d = [driver EXCEPT !.car = "car", !.dist = CorrectedDist(driver, m),
                            !.time = m.time, !.pit = m.pit, !.stale = 0]
  BY <1>m, <1>c DEF TakeTelemetry, DataInv, DriverType
<1>2. /\ d.car = "car" /\ d.dist = CorrectedDist(driver, m) /\ d.time = m.time
      /\ d.pit = m.pit /\ d.laps = driver.laps /\ d.times = driver.times
      /\ d.cur = driver.cur
  BY <1>1 DEF DataInv, DriverType
<1>3. /\ o.new_telem = TRUE /\ o.pit_count = object.pit_count
      /\ o.cur_laps = object.cur_laps /\ object.pit_count \in Nat
  BY DEF DataInv, ObjectType
<1>4. ~NewLap(d, o)
  BY <1>2, <1>3 DEF NewLap, DataInv, OrZero
<1>5. /\ driver' = RefreshCheckpoint(e)
      /\ object' = [o EXCEPT !.pit_count = PitCount(d, o), !.new_telem = FALSE,
                             !.cur_laps = o.cur_laps]
      /\ ~OffTrack(d)
  BY <1>3, <1>4, Zenon DEF Receive, Refresh, RefreshTelemetry, RefreshObject
<1>6. PitCount(d, o) = IF ~m.pit THEN 0
                       ELSE IF object.pit_count < MIN_IN_PIT_CNT
                              THEN object.pit_count + 1 ELSE object.pit_count
  BY <1>m, <1>2, <1>3 DEF PitCount
<1>7. InPit(d, o) = (PitCount(d, o) >= MIN_IN_PIT_CNT) /\ PitCount(d, o) \in Nat
  BY <1>m, <1>2, <1>3, <1>6, Positive DEF InPit
<1>8. /\ object' \in ObjectType /\ object'.pit_count = PitCount(d, o)
      /\ object'.cur_laps = object.cur_laps
  BY <1>3, <1>5, <1>7 DEF DataInv, ObjectType
<1>9. /\ e \in DriverType /\ e.in_pit = InPit(d, o)
      /\ e.car = "car" /\ e.dist = CorrectedDist(driver, m) /\ e.time = m.time
      /\ e.laps = driver.laps /\ e.times = driver.times /\ e.cur = driver.cur
  <2>1. InPit(d, o) \in BOOLEAN
    BY <1>7
  <2> HIDE DEF d, o
  <2> QED
    BY <1>1, <1>2, <2>1 DEF DriverType
<1>10. e.dist \in Nat /\ e.dist # NONE /\ q = e.dist \div CHECKPOINT_DIST /\ q = Quotient(d)
  BY <1>c, <1>2, <1>9, Positive DEF Quotient, OrZero
<1>11. q \in Places
  <2>1. q \in Nat
    BY <1>10, Positive, DivMod
  <2>2. q = d.cur \/ q < Checkpoints
    BY <1>2, <1>5, <1>9, <1>10, <2>1, CheckpointCount DEF OffTrack
  <2>3. d.cur \in Places
    BY <1>1 DEF DriverType
  <2> QED
    BY <2>1, <2>2, <2>3, CheckpointCount DEF Places
<1>14. e.times \in [Places -> CheckpointType] /\ e.time \in Nat /\ Quotient(e) \in Places
  BY <1>9, <1>11 DEF DriverType
<1> HIDE DEF d, o, e
<1>12. CASE q = driver.cur
  <2>1. driver' = e
    BY <1>5, <1>9, <1>12 DEF RefreshCheckpoint
  <2> QED
    BY <1>c, <1>6, <1>7, <1>8, <1>9, <1>10, <1>11, <1>12, <2>1 DEF Stays
<1>13. CASE q # driver.cur
  <2>1. driver' = [e EXCEPT !.times = CheckpointTimes(e), !.last = e.cur, !.cur = q]
    BY <1>5, <1>9, <1>10, <1>13 DEF RefreshCheckpoint
  <2>2. CheckpointTimes(e) \in [Places -> CheckpointType]
    BY <1>9, <1>14, CheckpointTimesType
  <2>3. e.cur \in Nat
    BY <1>9 DEF DriverType, Places
  <2>4. /\ driver' \in DriverType /\ driver'.car = e.car /\ driver'.dist = e.dist
        /\ driver'.laps = e.laps /\ driver'.in_pit = e.in_pit
        /\ driver'.times = CheckpointTimes(e) /\ driver'.cur = q
    BY <1>9, <1>11, <2>1, <2>2, <2>3 DEF DriverType
  <2>5. Crosses(m, q)
    <3>1. LET prec  == Preceding(q)
              ahead == /\ e.times[prec].time # NONE
                       /\ e.times[prec].time > e.time + MAX_TIMESTAMP_DIFF_ALLOWED
          IN  /\ CheckpointTimes(e)[q] \in {EmptyCheckpoint, Stamped(e.time)}
              /\ ahead /\ prec # q => CheckpointTimes(e)[prec] = EmptyCheckpoint
              /\ \A k \in Places \ {q} :
                    \/ CheckpointTimes(e)[k] = e.times[k]
                    \/ ahead /\ k = prec /\ CheckpointTimes(e)[k] = EmptyCheckpoint
      BY <1>9, <1>14, CheckpointTimesType
    <3> HIDE DEF q
    <3> QED
      BY <1>9, <1>13, <2>4, <3>1 DEF Crosses
  <2> QED
    BY <1>c, <1>6, <1>7, <1>8, <1>9, <1>10, <1>11, <2>4, <2>5
<1> QED
  BY <1>12, <1>13

\* A result: take_new_results and refresh together.  The lap is new when it is
\* not the object's, and then every checkpoint ages.
LEMMA ResultEffect ==
  ASSUME DataInv, Result
  PROVE  /\ driver' \in DriverType /\ object' \in ObjectType
         /\ driver'.laps = lap /\ object'.cur_laps = lap
         /\ driver'.car = driver.car /\ driver'.dist = driver.dist
         /\ driver'.in_pit = driver.in_pit /\ driver'.cur = driver.cur
         /\ object'.pit_count = object.pit_count
         /\ \/ driver'.times = driver.times
            \/ driver'.times = Aged(driver.times) /\ object.cur_laps < lap
         /\ UNCHANGED <<position, clock, lap, dropped, streak>>
<1> DEFINE d == TakeResults(driver, [rank |-> 1, laps |-> lap])
<1>1. /\ driver' = Refresh(d, object) /\ object' = RefreshObject(d, object)
      /\ UNCHANGED <<position, clock, lap, dropped, streak>>
  BY DEF Result
<1>2. d = [driver EXCEPT !.rank = 1, !.laps = lap]
  BY DEF TakeResults
<1>3. lap \in Nat /\ lap # NONE /\ driver \in DriverType
  BY Positive DEF DataInv
<1>4. /\ d \in DriverType /\ d.laps = lap /\ d.times = driver.times /\ d.cur = driver.cur
      /\ d.car = driver.car /\ d.dist = driver.dist /\ d.in_pit = driver.in_pit
  BY <1>2, <1>3 DEF DriverType
<1>5. /\ object \in ObjectType /\ object.new_telem = FALSE /\ object.cur_laps \in Nat
      /\ object.pit_count \in Nat /\ object.cur_laps <= lap
  BY DEF DataInv, ObjectType
<1> HIDE DEF d
<1>6. NewLap(d, object) = (lap # object.cur_laps)
  BY <1>3, <1>4 DEF NewLap
<1>7. object' = [object EXCEPT !.pit_count = object.pit_count, !.new_telem = FALSE,
                               !.cur_laps = lap]
  BY <1>1, <1>4, <1>5, <1>6 DEF RefreshObject
<1>8. object' \in ObjectType /\ object'.cur_laps = lap /\ object'.pit_count = object.pit_count
  BY <1>3, <1>5, <1>7 DEF ObjectType
<1>9. CASE lap = object.cur_laps
  <2>1. driver' = d
    BY <1>1, <1>5, <1>6, <1>9 DEF Refresh, RefreshTelemetry
  <2> QED
    BY <1>1, <1>4, <1>8, <2>1
<1>10. CASE lap # object.cur_laps
  <2>1. driver' = [d EXCEPT !.times = Aged(d.times)]
    BY <1>1, <1>5, <1>6, <1>10 DEF Refresh, RefreshTelemetry
  <2>2. Aged(d.times) \in [Places -> CheckpointType]
    BY <1>4, AgedType DEF DriverType
  <2>3. /\ driver' \in DriverType /\ driver'.laps = lap /\ driver'.car = d.car
        /\ driver'.dist = d.dist /\ driver'.in_pit = d.in_pit /\ driver'.cur = d.cur
        /\ driver'.times = Aged(driver.times)
    BY <1>4, <2>1, <2>2 DEF DriverType
  <2> QED
    BY <1>1, <1>3, <1>4, <1>5, <1>8, <1>10, <2>3
<1> QED
  BY <1>9, <1>10

\* Every step is a message received from a car that drives on, or a result.
LEMMA DriverStep ==
  ASSUME DataInv, Next
  PROVE  \/ /\ \E p \in position .. position + 1, m \in MessageType :
                  /\ Drive(p)
                  /\ Receive(m)
                  /\ streak' = IF ~m.pit THEN 0 ELSE IF streak < MIN_IN_PIT_CNT
                                                     THEN streak + 1 ELSE streak
                  /\ \/ /\ m.dist = position' /\ dropped' = FALSE
                        /\ m.time \in Timestamps
                     \/ /\ p = position /\ position <= ResetDist /\ m.dist < position
                        /\ m.time = clock' /\ dropped' = TRUE
            /\ clock < MaxTime
         \/ Result
<1>t. position \in 0 .. LapLength - 1 /\ clock \in Nat /\ Jump \in Nat
  BY DriverTelemetryAssumption DEF DataInv
<1>1. CASE Report
  <2>1. PICK p \in position .. position + 1 :
           /\ Drive(p)
           /\ \E t \in Timestamps, b \in BOOLEAN : Receive(Message(position', t, b))
    BY <1>1 DEF Report
  <2>2. PICK t \in Timestamps, b \in BOOLEAN : Receive(Message(position', t, b))
    BY <2>1
  <2>3. position' \in Nat /\ clock' \in Nat /\ clock < MaxTime
    <3>1. p \in Nat /\ position' = p % LapLength
      BY <1>t, <2>1 DEF Drive
    <3>2. position' \in Nat
      BY <3>1, Positive, DivMod
    <3> QED
      BY <1>t, <2>1, <3>2 DEF Drive
  <2>4. t \in Nat
    <3>1. t \in {clock', clock' + Jump}
      BY DEF Timestamps
    <3>2. ASSUME NEW c \in Nat, NEW j \in Nat PROVE c + j \in Nat
      OBVIOUS
    <3>3. clock' + Jump \in Nat
      BY <1>t, <2>3, <3>2, Zenon
    <3> QED
      BY <2>3, <3>1, <3>3, Zenon
  <2>5. /\ Message(position', t, b) \in MessageType
        /\ Message(position', t, b).dist = position'
        /\ Message(position', t, b).time = t
    BY <2>3, <2>4 DEF Message, MessageType
  <2>6. dropped' = FALSE
    BY <1>1 DEF Report
  <2> QED
    BY <2>1, <2>2, <2>3, <2>5, <2>6 DEF Receive
<1>2. CASE ReportDrop
  <2>1. /\ Drive(position) /\ position <= ResetDist /\ dropped' = TRUE
        /\ \E p \in 0 .. position - 1, b \in BOOLEAN : Receive(Message(p, clock', b))
    BY <1>2 DEF ReportDrop
  <2>2. PICK p \in 0 .. position - 1, b \in BOOLEAN : Receive(Message(p, clock', b))
    BY <2>1
  <2>3. clock' \in Nat /\ clock < MaxTime
    BY <1>t, <2>1 DEF Drive
  <2>4. /\ Message(p, clock', b) \in MessageType
        /\ Message(p, clock', b).dist = p
        /\ Message(p, clock', b).time = clock'
    BY <2>3 DEF Message, MessageType
  <2>5. p < position /\ position \in position .. position + 1
    BY <1>t
  <2> QED
    BY <2>1, <2>2, <2>3, <2>4, <2>5 DEF Receive
<1> QED
  BY <1>1, <1>2 DEF Next

-------------------------------------------------------------------------------
(* Types, the pit and the laps.                                            *)

\* The object's count is the streak, and the driver's flag is read off it at
\* every message.
PitInv ==
    /\ object.pit_count = streak
    /\ driver.car # NONE => driver.in_pit = (streak >= MIN_IN_PIT_CNT)

\* No checkpoint is older than the laps the object has counted.
AgeInv == \A k \in Places : driver.times[k].age <= object.cur_laps

OwnInv == DataInv /\ PitInv /\ AgeInv

\* The new driver and the new object.
LEMMA OwnInit == Init => OwnInv
<1> SUFFICES ASSUME Init
             PROVE  OwnInv
  OBVIOUS
<1>1. /\ driver = NewDriver /\ object = NewObject
      /\ position = 0 /\ clock = 1 /\ lap = 0 /\ dropped = FALSE /\ streak = 0
  BY DEF Init
<1>2. 0 \in Places /\ EmptyCheckpoint \in CheckpointType /\ EmptyCheckpoint.age = 0
  BY CheckpointCount DEF Places, EmptyCheckpoint, CheckpointType
<1>3. [k \in 0 .. Checkpoints - 1 |-> EmptyCheckpoint] \in [Places -> CheckpointType]
  BY <1>2 DEF Places
<1>4. driver \in DriverType
  BY <1>1, <1>2, <1>3, Positive DEF NewDriver, DriverType
<1>5. object \in ObjectType
  BY <1>1 DEF NewObject, ObjectType
<1>6. driver.laps = NONE /\ driver.car = NONE /\ object.pit_count = 0 /\ object.cur_laps = 0
        /\ \A k \in Places : driver.times[k] = EmptyCheckpoint
  BY <1>1 DEF NewDriver, NewObject, Places
<1>7. DataInv
  <2>1. OrZero(driver.laps) = 0
    BY <1>6 DEF OrZero
  <2>2. position \in 0 .. LapLength - 1
    BY <1>1, Positive
  <2>3. /\ clock \in Nat \ {0} /\ lap \in Nat /\ streak \in Nat
        /\ dropped \in BOOLEAN
    <3>1. clock \in Nat \ {0} /\ lap \in Nat /\ streak \in Nat
      <4>1. clock = 1 /\ lap = 0 /\ streak = 0
        BY <1>1, Zenon
      <4> QED
        BY <4>1
    <3>2. dropped \in BOOLEAN
      BY <1>1, Zenon
    <3> QED
      BY <3>1, <3>2
  <2>4. object.cur_laps = OrZero(driver.laps) /\ object.cur_laps <= lap
    BY <1>1, <1>6, <2>1
  <2> QED
    BY <1>4, <1>5, <2>2, <2>3, <2>4 DEF DataInv
<1>8. PitInv
  BY <1>1, <1>6 DEF PitInv
<1>9. AgeInv
  BY <1>2, <1>6 DEF AgeInv
<1> QED
  BY <1>7, <1>8, <1>9 DEF OwnInv

\* Every step keeps them.
LEMMA OwnNext == OwnInv /\ [Next]_vars => OwnInv'
<1> SUFFICES ASSUME OwnInv, [Next]_vars
             PROVE  OwnInv'
  OBVIOUS
<1>d. DataInv
  BY DEF OwnInv
<1>t. /\ object.cur_laps \in Nat /\ object.pit_count \in Nat
      /\ driver.times \in [Places -> CheckpointType]
      /\ driver.cur \in Places
      /\ \A k \in Places : driver.times[k].age \in Nat
  BY <1>d DEF DataInv, DriverType, ObjectType, CheckpointType
<1>1. ASSUME NEW p \in position .. position + 1, NEW m \in MessageType, Drive(p),
             Receive(m), dropped' \in BOOLEAN,
             streak' = IF ~m.pit THEN 0 ELSE IF streak < MIN_IN_PIT_CNT
                                             THEN streak + 1 ELSE streak
      PROVE  OwnInv'
  <2> DEFINE q == driver'.dist \div CHECKPOINT_DIST
  <2>1. /\ driver' \in DriverType /\ object' \in ObjectType
        /\ driver'.laps = driver.laps /\ object'.cur_laps = object.cur_laps
        /\ object'.pit_count = IF ~m.pit THEN 0
                               ELSE IF object.pit_count < MIN_IN_PIT_CNT
                                      THEN object.pit_count + 1 ELSE object.pit_count
        /\ driver'.in_pit = (object'.pit_count >= MIN_IN_PIT_CNT)
        /\ q \in Places /\ (Stays(q) \/ Crosses(m, q))
    BY <1>1, <1>d, ReceiveEffect
  <2>2. /\ position' \in 0 .. LapLength - 1 /\ clock' \in Nat \ {0}
        /\ lap' \in Nat /\ lap' >= lap
    <3>1. p \in Nat
      BY <1>1, <1>d DEF DataInv
    <3>2. p % LapLength \in 0 .. LapLength - 1
      BY <3>1, Positive, DivMod
    <3> QED
      BY <1>1, <1>d, <3>2 DEF Drive, DataInv
  <2>3. streak' = object'.pit_count
    BY <1>1, <2>1 DEF OwnInv, PitInv
  <2>4. streak' \in Nat
    BY <2>1, <2>3 DEF ObjectType
  <2>5. DataInv'
    BY <1>1, <1>t, <1>d, <2>1, <2>2, <2>4 DEF DataInv, OrZero
  <2>6. PitInv'
    BY <2>1, <2>3 DEF PitInv
  <2>7. AgeInv'
    <3> SUFFICES ASSUME NEW k \in Places
                 PROVE  driver'.times[k].age <= object'.cur_laps
      BY DEF AgeInv
    <3>1. driver.times[k].age <= object.cur_laps
      BY DEF OwnInv, AgeInv
    <3>2. EmptyCheckpoint.age = 0 /\ Stamped(m.time).age = 0
      BY DEF EmptyCheckpoint, Stamped
    <3>3. driver'.times[k] \in {driver.times[k], EmptyCheckpoint, Stamped(m.time)}
      BY <2>1 DEF Stays, Crosses
    <3> QED
      BY <1>t, <2>1, <3>1, <3>2, <3>3
  <2> QED
    BY <2>5, <2>6, <2>7 DEF OwnInv
<1>2. CASE Result
  <2>1. /\ driver' \in DriverType /\ object' \in ObjectType
        /\ driver'.laps = lap /\ object'.cur_laps = lap
        /\ driver'.car = driver.car /\ driver'.in_pit = driver.in_pit
        /\ object'.pit_count = object.pit_count
        /\ \/ driver'.times = driver.times
           \/ driver'.times = Aged(driver.times) /\ object.cur_laps < lap
        /\ UNCHANGED <<position, clock, lap, dropped, streak>>
    BY <1>2, <1>d, ResultEffect
  <2>2. DataInv'
    BY <1>d, <2>1, Positive DEF DataInv, OrZero
  <2>3. PitInv'
    BY <2>1 DEF OwnInv, PitInv
  <2>4. AgeInv'
    <3> SUFFICES ASSUME NEW k \in Places
                 PROVE  driver'.times[k].age <= lap
      BY <2>1 DEF AgeInv
    <3>1. driver.times[k].age <= object.cur_laps /\ object.cur_laps <= lap /\ lap \in Nat
      BY <1>d DEF OwnInv, AgeInv, DataInv
    <3>2. CASE driver'.times = driver.times
      BY <1>t, <3>1, <3>2
    <3>3. CASE driver'.times = Aged(driver.times) /\ object.cur_laps < lap
      <4>1. driver'.times[k].age \in {driver.times[k].age, driver.times[k].age + 1}
        BY <1>t, <3>3, AgedType
      <4> QED
        BY <1>t, <3>1, <3>3, <4>1
    <3> QED
      BY <2>1, <3>2, <3>3
  <2> QED
    BY <2>2, <2>3, <2>4 DEF OwnInv
<1>3. CASE UNCHANGED vars
  BY <1>3 DEF vars, OwnInv, DataInv, PitInv, AgeInv
<1> QED
  BY <1>1, <1>2, <1>3, <1>d, DriverStep

\* A driver's own data and counts, from the messages and results it gets.
THEOREM OwnAlways == Spec => []OwnInv
<1> QED
  BY OwnInit, OwnNext, PTL DEF Spec

\* A driver is in the pit exactly when it has said so MIN_IN_PIT_CNT times in a
\* row, whatever else its messages and results bring.
THEOREM PitSettles == Spec => []InPitSettled
<1>1. OwnInv => InPitSettled
  BY DEF OwnInv, PitInv, InPitSettled
<1> QED
  BY <1>1, OwnAlways, PTL

\* A checkpoint ages once per lap: none is older than the laps completed.
THEOREM AgesPerLap == Spec => []AgePerLap
<1>1. OwnInv => AgePerLap
  BY DEF OwnInv, DataInv, DriverType, AgeInv, AgePerLap
<1> QED
  BY <1>1, OwnAlways, PTL

-------------------------------------------------------------------------------
(* On the track.  A car that reports at least once in the last part of the *)
(* lap, where a falling distance is believed, is followed exactly.         *)

\* The distance is the car's, also while drops arrive, and the current
\* checkpoint is the one the car is at.
TrackInv ==
    /\ (driver.dist = NONE /\ position = 0) \/ driver.dist = position
    /\ driver.cur = position \div CHECKPOINT_DIST

\* The car is at the start before the first message.
LEMMA TrackInit == Init => TrackInv
<1> SUFFICES ASSUME Init
             PROVE  TrackInv
  OBVIOUS
<1>1. position = 0 /\ driver.dist = NONE /\ driver.cur = 0
  BY DEF Init, NewDriver
<1>2. 0 \div CHECKPOINT_DIST = 0
  <2>1. 0 = CHECKPOINT_DIST * 0 + 0
    BY Positive
  <2> QED
    BY <2>1, Positive, DivUnique
<1> QED
  BY <1>1, <1>2 DEF TrackInv

\* A car that drives on stays where it is, moves one place on, or passes from
\* the last place to the first; and so does its checkpoint.
LEMMA DriveOn ==
  ASSUME DataInv, NEW p \in position .. position + 1, Drive(p)
  PROVE  /\ position' \in 0 .. LapLength - 1
         /\ \/ position' = p
            \/ position = LapLength - 1 /\ position' = 0
         /\ LET c == position \div CHECKPOINT_DIST
                q == position' \div CHECKPOINT_DIST
            IN  q \in {c, c + 1} \/ (c = Checkpoints - 1 /\ q = 0)
<1>0. position \in 0 .. LapLength - 1 /\ p \in Nat /\ position' = p % LapLength
  BY Positive DEF DataInv, Drive
<1>1. CASE p < LapLength
  <2>1. position' = p
    BY <1>0, <1>1, Positive, SmallMod
  <2>2. p \div CHECKPOINT_DIST
          \in {position \div CHECKPOINT_DIST, (position \div CHECKPOINT_DIST) + 1}
    <3>1. position \in Nat /\ (p = position \/ p = position + 1)
      BY <1>0
    <3> QED
      BY <3>1, Positive, NextDiv
  <2>3. position' \in 0 .. LapLength - 1
    BY <1>0, <1>1, <2>1, Positive
  <2>4. position' \div CHECKPOINT_DIST
          \in {position \div CHECKPOINT_DIST, (position \div CHECKPOINT_DIST) + 1}
    BY <2>1, <2>2, Zenon
  <2> QED
    BY <2>1, <2>3, <2>4, Zenon
<1>2. CASE p = LapLength
  <2>1. LapLength = LapLength * 1 + 0
    BY Positive
  <2>2. LapLength % LapLength = 0
    BY <2>1, Positive, ModUnique
  <2>3. position = LapLength - 1 /\ position' = 0
    BY <1>0, <1>2, <2>2
  <2>4. 0 \div CHECKPOINT_DIST = 0
    <3>1. 0 = CHECKPOINT_DIST * 0 + 0
      BY Positive
    <3> QED
      BY <3>1, Positive, DivUnique
  <2> QED
    BY <1>0, <2>3, <2>4, CheckpointCount
<1> QED
  BY <1>0, <1>1, <1>2, Positive

\* A message leaves the distance at the car's position, told or overridden.
LEMMA DistanceFollows ==
  ASSUME ResetDist < LapLength - 1, DataInv, TrackInv,
         NEW p \in position .. position + 1, NEW m \in MessageType, Drive(p),
         Receive(m),
         \/ m.dist = position'
         \/ p = position /\ position <= ResetDist /\ m.dist < position
  PROVE  driver'.dist = position'
<1>1. /\ position \in 0 .. LapLength - 1 /\ position' \in 0 .. LapLength - 1
      /\ position' = p \/ (position = LapLength - 1 /\ position' = 0)
      /\ p \in {position, position + 1}
      /\ m.dist \in Nat
  BY DriveOn DEF DataInv, MessageType
<1>2. driver'.dist = CorrectedDist(driver, m)
  BY ReceiveEffect
<1>3. ResetDist \in Nat /\ OrZero(m.dist) = m.dist
  BY <1>1, Positive, DriverDataAssumption DEF OrZero
<1>4. CASE driver.dist = NONE /\ position = 0
  BY <1>1, <1>2, <1>4, Positive DEF CorrectedDist
<1>5. CASE driver.dist = position
  <2>1. driver.dist # NONE
    BY <1>1, <1>5, Positive
  <2>2. CASE m.dist = position'
    <3>1. m.dist < position => position > ResetDist
      BY <1>1, <1>3, <2>2, Positive
    <3> QED
      BY <1>1, <1>2, <1>3, <1>5, <2>1, <2>2, <3>1 DEF CorrectedDist
  <2>3. CASE p = position /\ position <= ResetDist /\ m.dist < position
    <3>1. position' = position
      BY <1>1, <1>3, <2>3, Positive
    <3> QED
      BY <1>1, <1>2, <1>3, <1>5, <2>1, <2>3, <3>1 DEF CorrectedDist
  <2> QED
    BY <2>2, <2>3
<1> QED
  BY <1>4, <1>5 DEF TrackInv

\* Every step keeps the driver with its car.
LEMMA TrackNext ==
  ASSUME ResetDist < LapLength - 1
  PROVE  OwnInv /\ TrackInv /\ [Next]_vars => TrackInv'
<1> SUFFICES ASSUME OwnInv, TrackInv, [Next]_vars
             PROVE  TrackInv'
  OBVIOUS
<1>d. DataInv
  BY DEF OwnInv
<1>1. ASSUME NEW p \in position .. position + 1, NEW m \in MessageType, Drive(p),
             Receive(m),
             \/ m.dist = position'
             \/ p = position /\ position <= ResetDist /\ m.dist < position
      PROVE  TrackInv'
  <2>1. driver'.dist = position'
    BY <1>1, <1>d, DistanceFollows
  <2>2. driver'.cur = driver'.dist \div CHECKPOINT_DIST
    BY <1>1, <1>d, ReceiveEffect DEF Stays, Crosses
  <2> QED
    BY <2>1, <2>2 DEF TrackInv
<1>2. CASE Result
  BY <1>2, <1>d, ResultEffect DEF TrackInv
<1>3. CASE UNCHANGED vars
  BY <1>3 DEF vars, TrackInv
<1> QED
  BY <1>1, <1>2, <1>3, <1>d, DriverStep

\* Drops are corrected and leave no trace: while the end of the lap is reported,
\* the distance is always the car's.
THEOREM DistanceIsTrue ==
  ASSUME ResetDist < LapLength - 1 PROVE Spec => []DistanceTrue
<1>1. OwnInv /\ TrackInv /\ [Next]_vars => TrackInv'
  BY TrackNext
<1>2. TrackInv => DistanceTrue
  BY DEF TrackInv, DistanceTrue
<1> QED
  BY <1>1, <1>2, TrackInit, OwnAlways, PTL DEF Spec

-------------------------------------------------------------------------------
(* The times.                                                              *)

\* The checkpoint has a time that did not run away.
Told(k) == driver.times[k].time # NONE /\ ~(driver.times[k].time > MaxTime)

\* How many checkpoints before checkpoint c the car was at checkpoint k last.
Back(c, k) == IF k <= c THEN c - k ELSE c - k + Checkpoints

\* A time is one the clock has shown, and the further back a checkpoint is, the
\* earlier the car passed it, and the older its time.
OrderInv ==
    /\ \A k \in Places : Told(k) => driver.times[k].time <= clock
    /\ \A k, l \in Places :
          Back(driver.cur, k) < Back(driver.cur, l) /\ Told(k) /\ Told(l)
            => /\ driver.times[l].time < driver.times[k].time
               /\ driver.times[l].age >= driver.times[k].age

\* The checkpoint reached is the one the car is at; every other one is left one
\* further behind.
LEMMA OneFurther ==
  ASSUME NEW c \in Places, NEW q \in Places,
         q = c + 1 \/ (c = Checkpoints - 1 /\ q = 0),
         q # c
  PROVE  /\ Back(q, q) = 0
         /\ \A k \in Places : /\ Back(c, k) \in Nat
                              /\ k # q => Back(q, k) = Back(c, k) + 1
<1>1. c \in Nat /\ q \in Nat /\ c <= Checkpoints - 1 /\ q <= Checkpoints - 1
  BY CheckpointCount DEF Places
<1> SUFFICES ASSUME NEW k \in Places
             PROVE  /\ Back(q, q) = 0
                    /\ Back(c, k) \in Nat
                    /\ k # q => Back(q, k) = Back(c, k) + 1
  BY CheckpointCount DEF Places
<1>2. k \in Nat /\ k <= Checkpoints - 1
  BY CheckpointCount DEF Places
<1> QED
  BY <1>1, <1>2, CheckpointCount DEF Back

\* A car that keeps in touch goes from one checkpoint to the next.
LEMMA CrossesNext ==
  ASSUME ResetDist < LapLength - 1, DataInv, TrackInv,
         NEW p \in position .. position + 1, NEW m \in MessageType, Drive(p),
         Receive(m),
         \/ m.dist = position'
         \/ p = position /\ position <= ResetDist /\ m.dist < position
  PROVE  LET q == driver'.dist \div CHECKPOINT_DIST
         IN  /\ q \in Places /\ driver.cur \in Places
             /\ \/ Stays(q)
                \/ /\ Crosses(m, q)
                   /\ q = driver.cur + 1 \/ (driver.cur = Checkpoints - 1 /\ q = 0)
<1> DEFINE q == driver'.dist \div CHECKPOINT_DIST
           c == position \div CHECKPOINT_DIST
<1>1. q \in Places /\ (Stays(q) \/ Crosses(m, q))
  BY ReceiveEffect
<1>2. q = position' \div CHECKPOINT_DIST
  BY DistanceFollows, Zenon
<1>3. driver.cur = c /\ driver.cur \in Places
  BY DEF TrackInv, DataInv, DriverType
<1>4. q \in {c, c + 1} \/ (c = Checkpoints - 1 /\ q = 0)
  BY <1>2, DriveOn, Zenon
<1> HIDE DEF q, c
<1>5. q = driver.cur \/ q = driver.cur + 1 \/ (driver.cur = Checkpoints - 1 /\ q = 0)
  BY <1>3, <1>4
<1>6. Crosses(m, q) => q # driver.cur
  BY DEF Crosses
<1> QED
  BY <1>1, <1>3, <1>5, <1>6, Zenon DEF q

\* Nothing has a time at first.
LEMMA OrderInit == Init => OrderInv
<1> SUFFICES ASSUME Init
             PROVE  OrderInv
  OBVIOUS
<1>1. \A k \in Places : driver.times[k].time = NONE
  BY DEF Init, NewDriver, Places, EmptyCheckpoint
<1> QED
  BY <1>1 DEF OrderInv, Told

\* A timestamp is the clock's or out of its range.
LEMMA StampedTime ==
  ASSUME DataInv, NEW p \in Nat, Drive(p), NEW m \in MessageType,
         m.time \in Timestamps \/ m.time = clock'
  PROVE  /\ clock' = clock + 1 /\ clock' <= MaxTime
         /\ m.time = clock' \/ (m.time > Jump /\ m.time > MaxTime)
         /\ (\E k \in Places : RanAway(k)) /\ ~Lasting => m.time = clock'
<1>1. clock \in Nat /\ clock' = clock + 1 /\ clock < MaxTime
  BY DEF Drive, DataInv
<1>2. m.time \in {clock', clock' + Jump}
  BY DEF Timestamps
<1>3. /\ Jump \in Nat /\ MaxTime \in Nat /\ MAX_TIMESTAMP_DIFF_ALLOWED \in Nat
      /\ MaxTime < Jump - MAX_TIMESTAMP_DIFF_ALLOWED
  BY Positive, DriverTelemetryAssumption
<1>4. m.time = clock' \/ (m.time > Jump /\ m.time > MaxTime)
  BY <1>1, <1>2, <1>3
<1>5. ASSUME NEW k \in Places, RanAway(k), ~Lasting
      PROVE  m.time = clock'
  <2>1. k \in DOMAIN driver.times
    BY DEF DataInv, DriverType
  <2>2. Timestamps = {clock'}
    BY <1>5, <2>1 DEF Timestamps
  <2> QED
    BY <2>2
<1>6. clock' <= MaxTime
  BY <1>1, <1>3
<1> QED
  BY <1>1, <1>4, <1>5, <1>6

\* Every step keeps the order.
LEMMA OrderNext ==
  ASSUME ResetDist < LapLength - 1
  PROVE  OwnInv /\ TrackInv /\ OrderInv /\ [Next]_vars => OrderInv'
<1> SUFFICES ASSUME OwnInv, TrackInv, OrderInv, [Next]_vars
             PROVE  OrderInv'
  OBVIOUS
<1>d. DataInv
  BY DEF OwnInv
<1>t. /\ driver.times \in [Places -> CheckpointType]
      /\ driver.cur \in Places /\ clock \in Nat /\ MaxTime \in Nat /\ NONE \notin Nat
      /\ \A k \in Places : /\ driver.times[k].time \in Nat \cup {NONE}
                           /\ driver.times[k].age \in Nat
  BY <1>d, Positive, DriverTelemetryAssumption DEF DataInv, DriverType, CheckpointType
<1>1. ASSUME NEW p \in position .. position + 1, NEW m \in MessageType, Drive(p),
             Receive(m), m.time \in Timestamps \/ m.time = clock',
             \/ m.dist = position'
             \/ p = position /\ position <= ResetDist /\ m.dist < position
      PROVE  OrderInv'
  <2> DEFINE c == driver.cur
  <2>1. PICK q \in Places :
           \/ Stays(q)
           \/ /\ Crosses(m, q)
              /\ q = c + 1 \/ (c = Checkpoints - 1 /\ q = 0)
    BY <1>1, <1>d, CrossesNext, Zenon
  <2>2. /\ clock' = clock + 1
        /\ m.time = clock' \/ m.time > MaxTime
    <3>1. p \in Nat
      BY <1>d DEF DataInv
    <3> QED
      BY <1>1, <1>d, <3>1, StampedTime
  <2>3. CASE Stays(q)
    <3>1. driver'.cur = driver.cur /\ driver'.times = driver.times
      BY <2>3 DEF Stays
    <3>2. \A k \in Places : Told(k)' = Told(k)
      BY <3>1 DEF Told
    <3>3. ASSUME NEW k \in Places, Told(k)'
          PROVE  driver'.times[k].time <= clock'
      <4>1. driver.times[k].time \in Nat /\ driver.times[k].time <= clock
        BY <1>t, <3>2, <3>3 DEF OrderInv, Told
      <4> QED
        BY <1>t, <2>2, <3>1, <4>1
    <3> QED
      BY <3>1, <3>2, <3>3, Zenon DEF OrderInv
  <2>4. CASE Crosses(m, q) /\ (q = c + 1 \/ (c = Checkpoints - 1 /\ q = 0))
    <3>1. /\ q # c /\ driver'.cur = q
          /\ driver'.times[q] \in {EmptyCheckpoint, Stamped(m.time)}
          /\ \A k \in Places \ {q} : driver'.times[k] \in {driver.times[k], EmptyCheckpoint}
      BY <2>4 DEF Crosses
    <3>2. /\ Back(q, q) = 0
          /\ \A k \in Places : /\ Back(c, k) \in Nat
                               /\ k # q => Back(q, k) = Back(c, k) + 1
      BY <1>t, <2>1, <2>4, <3>1, OneFurther, Zenon
    <3>3. EmptyCheckpoint.time = NONE /\ Stamped(m.time).time = m.time /\ Stamped(m.time).age = 0
      BY DEF EmptyCheckpoint, Stamped
    <3>4. ASSUME NEW k \in Places, k # q, Told(k)'
          PROVE  driver'.times[k] = driver.times[k] /\ Told(k)
      BY <3>1, <3>3, <3>4 DEF Told
    <3>5. Told(q)' => driver'.times[q].time = clock' /\ driver'.times[q].age = 0
      <4>1. Told(q)' => driver'.times[q].time # NONE /\ ~(driver'.times[q].time > MaxTime)
        BY DEF Told
      <4> QED
        BY <2>2, <3>1, <3>3, <4>1
    <3>6. ASSUME NEW k \in Places, Told(k)'
          PROVE  driver'.times[k].time <= clock' /\ (k # q => driver'.times[k].time < clock')
      <4>1. CASE k = q
        BY <1>t, <2>2, <3>5, <3>6, <4>1
      <4>2. CASE k # q
        <5>1. driver'.times[k].time \in Nat /\ driver'.times[k].time <= clock
          BY <1>t, <3>4, <3>6, <4>2 DEF OrderInv, Told
        <5> QED
          BY <1>t, <2>2, <5>1
      <4> QED
        BY <4>1, <4>2
    <3>7. ASSUME NEW k \in Places, NEW l \in Places, Back(q, k) < Back(q, l),
                 Told(k)', Told(l)'
          PROVE  /\ driver'.times[l].time < driver'.times[k].time
                 /\ driver'.times[l].age >= driver'.times[k].age
      <4>1. l # q
        <5>1. Back(q, k) \in Nat
          BY <3>2
        <5> QED
          BY <3>2, <3>7, <5>1
      <4>2. driver'.times[l] = driver.times[l] /\ Told(l)
        BY <3>4, <3>7, <4>1
      <4>3. CASE k = q
        <5>1. driver'.times[l].time < clock' /\ driver'.times[l].age \in Nat
          BY <1>t, <3>6, <3>7, <4>1, <4>2
        <5> QED
          BY <3>5, <3>7, <4>3, <5>1
      <4>4. CASE k # q
        <5>1. driver'.times[k] = driver.times[k] /\ Told(k)
          BY <3>4, <3>7, <4>4
        <5>2. Back(c, k) < Back(c, l)
          BY <3>2, <3>7, <4>1, <4>4
        <5> QED
          BY <4>2, <5>1, <5>2 DEF OrderInv
      <4> QED
        BY <4>3, <4>4
    <3> QED
      BY <3>1, <3>6, <3>7 DEF OrderInv
  <2> QED
    BY <2>1, <2>3, <2>4
<1>2. CASE Result
  <2>1. /\ driver'.cur = driver.cur /\ clock' = clock
        /\ driver'.times = driver.times \/ driver'.times = Aged(driver.times)
    BY <1>2, <1>d, ResultEffect
  <2>2. \A k \in Places : Aged(driver.times)[k].time = driver.times[k].time
    BY <1>t, AgedType
  <2>3. \A k \in Places : driver'.times[k].time = driver.times[k].time
    BY <2>1, <2>2
  <2>4. \A k \in Places : Told(k)' = Told(k)
    BY <2>3 DEF Told
  <2>5. ASSUME NEW k \in Places, NEW l \in Places, Told(k), Told(l),
               driver.times[l].age >= driver.times[k].age
        PROVE  driver'.times[l].age >= driver'.times[k].age
    <3>1. CASE driver'.times = driver.times
      BY <2>5, <3>1
    <3>2. CASE driver'.times = Aged(driver.times)
      <4>1. /\ Aged(driver.times)[k].age = driver.times[k].age + 1
            /\ Aged(driver.times)[l].age = driver.times[l].age + 1
        BY <1>t, <2>5, AgedType DEF Told
      <4>2. /\ driver'.times[k].age = driver.times[k].age + 1
            /\ driver'.times[l].age = driver.times[l].age + 1
        BY <3>2, <4>1
      <4>3. driver.times[k].age \in Nat /\ driver.times[l].age \in Nat
        BY <1>t
      <4> QED
        BY <2>5, <4>2, <4>3
    <3> QED
      BY <2>1, <3>1, <3>2
  <2> QED
    BY <2>1, <2>3, <2>4, <2>5 DEF OrderInv
<1>3. CASE UNCHANGED vars
  BY <1>3 DEF vars, OrderInv, Told
<1> QED
  BY <1>1, <1>2, <1>3, <1>d, DriverStep

\* The checkpoint i places behind the car is i back.
LEMMA Behind ==
  ASSUME NEW c \in Places, NEW i \in Places
  PROVE  LET k == (c - i + Checkpoints) % Checkpoints
         IN  k \in Places /\ Back(c, k) = i
<1>1. c \in Nat /\ i \in Nat /\ c < Checkpoints /\ i < Checkpoints
        /\ Checkpoints \in Nat /\ Checkpoints > 0
  BY CheckpointCount DEF Places
<1>2. CASE i <= c
  <2>1. c - i \in Nat /\ c - i \in 0 .. Checkpoints - 1
    BY <1>1, <1>2
  <2>2. (c - i + Checkpoints) % Checkpoints = (c - i) % Checkpoints
    BY <1>1, <2>1, PeriodMod
  <2>3. (c - i) % Checkpoints = c - i
    BY <1>1, <2>1, SmallMod
  <2>4. Back(c, c - i) = i
    BY <1>1, <1>2, <2>1 DEF Back
  <2> QED
    BY <2>1, <2>2, <2>3, <2>4 DEF Places
<1>3. CASE i > c
  <2>1. c - i + Checkpoints \in 0 .. Checkpoints - 1 /\ ~(c - i + Checkpoints <= c)
    BY <1>1, <1>3
  <2>2. (c - i + Checkpoints) % Checkpoints = c - i + Checkpoints
    BY <1>1, <2>1, SmallMod
  <2>3. Back(c, c - i + Checkpoints) = i
    BY <1>1, <1>3, <2>1 DEF Back
  <2> QED
    BY <2>1, <2>2, <2>3 DEF Places
<1> QED
  BY <1>1, <1>2, <1>3

\* Back from the car each checkpoint was passed before the one that follows it,
\* so that no gap is measured against the time of a later lap.
THEOREM TimesAreOrdered ==
  ASSUME ResetDist < LapLength - 1 PROVE Spec => []TimesOrdered
<1>1. OwnInv /\ TrackInv /\ [Next]_vars => TrackInv'
  BY TrackNext
<1>2. OwnInv /\ TrackInv /\ OrderInv /\ [Next]_vars => OrderInv'
  BY OrderNext
<1>3. OwnInv /\ OrderInv => TimesOrdered
  <2> SUFFICES ASSUME OwnInv, OrderInv, NEW i \in Places, NEW j \in Places, i < j
               PROVE  LET behind(n) == (driver.cur - n + Checkpoints) % Checkpoints
                          later   == driver.times[behind(i)]
                          earlier == driver.times[behind(j)]
                      IN  later.time # NONE /\ earlier.time # NONE
                            /\ ~RanAway(behind(i)) /\ ~RanAway(behind(j))
                            => earlier.time < later.time /\ earlier.age >= later.age
    BY DEF TimesOrdered, Places
  <2>1. driver.cur \in Places
    BY DEF OwnInv, DataInv, DriverType
  <2>2. PICK k \in Places : /\ k = (driver.cur - i + Checkpoints) % Checkpoints
                            /\ Back(driver.cur, k) = i
    BY <2>1, Behind, Zenon
  <2>3. PICK l \in Places : /\ l = (driver.cur - j + Checkpoints) % Checkpoints
                            /\ Back(driver.cur, l) = j
    BY <2>1, Behind, Zenon
  <2>4. /\ driver.times[k].time # NONE /\ ~RanAway(k) => Told(k)
        /\ driver.times[l].time # NONE /\ ~RanAway(l) => Told(l)
    BY DEF Told, RanAway
  <2>5. Back(driver.cur, k) < Back(driver.cur, l)
    BY <2>2, <2>3
  <2> QED
    BY <2>2, <2>3, <2>4, <2>5 DEF OrderInv
<1> QED
  BY <1>1, <1>2, <1>3, TrackInit, OrderInit, OwnAlways, PTL DEF Spec

-------------------------------------------------------------------------------
(* Timestamps that run away.                                               *)

\* The predecessor of a checkpoint is the one before it.  That of the first is
\* the last one when the number of checkpoints divides 2^64, to which the code
\* converts minus one.
LEMMA PrecedingOf ==
  ASSUME Checkpoints <= SizeT, NEW c \in Places
  PROVE  /\ c + 1 \in Places => Preceding(c + 1) = c
         /\ SizeT % Checkpoints = 0 => Preceding(0) = Checkpoints - 1
<1>1. /\ c \in Nat /\ c < Checkpoints /\ Checkpoints \in Nat /\ Checkpoints > 0
      /\ SizeT \in Nat /\ SizeT > 0
  BY CheckpointCount, Positive DEF Places
<1>2. Preceding(c + 1) = c
  <2>1. PICK q \in Nat : q = c + 1 /\ q - 1 + SizeT = c + SizeT
    BY <1>1
  <2>2. (c + SizeT) % SizeT = c % SizeT
    BY <1>1, PeriodMod
  <2>3. c % SizeT = c /\ c % Checkpoints = c
    BY <1>1, SmallMod
  <2>4. Preceding(q) = ((q - 1 + SizeT) % SizeT) % Checkpoints
    BY DEF Preceding
  <2> QED
    BY <2>1, <2>2, <2>3, <2>4, Zenon
<1>3. ASSUME SizeT % Checkpoints = 0
      PROVE  Preceding(0) = Checkpoints - 1
  <2>1. SizeT - 1 \in Nat /\ 0 - 1 + SizeT = SizeT - 1
    BY <1>1
  <2>2. (SizeT - 1) % SizeT = SizeT - 1
    BY <1>1, <2>1, SmallMod
  <2>3. PICK a \in Nat, r \in 0 .. Checkpoints - 1 :
           a = SizeT \div Checkpoints /\ r = SizeT % Checkpoints /\ SizeT = Checkpoints * a + r
    <3>1. SizeT \in Nat /\ Checkpoints \in Nat /\ Checkpoints > 0
      BY <1>1
    <3> QED
      BY <3>1, QuotientRemainder, Zenon
  <2>4. SizeT = Checkpoints * a
    BY <1>1, <1>3, <2>3
  <2>5. SizeT - 1 = Checkpoints * (a - 1) + (Checkpoints - 1)
    <3>1. ASSUME NEW n \in Nat, NEW b \in Nat, NEW s \in Nat, s = n * b
          PROVE  s - 1 = n * (b - 1) + (n - 1)
      BY <3>1, SMTT(20)
    <3> QED
      BY <1>1, <2>3, <2>4, <3>1
  <2>6. (SizeT - 1) % Checkpoints = Checkpoints - 1
    BY <1>1, <2>1, <2>3, <2>5, ModUnique
  <2>7. Preceding(0) = ((0 - 1 + SizeT) % SizeT) % Checkpoints
    BY Zenon DEF Preceding
  <2> QED
    BY <2>1, <2>2, <2>6, <2>7, Zenon
<1> QED
  BY <1>2, <1>3

\* A time that ran away is the current checkpoint's, or the last one's when the
\* first does not have it as its predecessor.
AwayInv ==
    \A k \in Places :
        RanAway(k) => /\ driver.times[k].time > Jump
                      /\ \/ k = driver.cur
                         \/ k = Checkpoints - 1 /\ SizeT % Checkpoints # 0

\* Nothing has a time at first.
LEMMA AwayInit == Init => AwayInv
<1> SUFFICES ASSUME Init
             PROVE  AwayInv
  OBVIOUS
<1>1. \A k \in Places : driver.times[k].time = NONE
  BY DEF Init, NewDriver, Places, EmptyCheckpoint
<1> QED
  BY <1>1 DEF AwayInv, RanAway

\* Every step keeps it: one that reaches the next checkpoint finds the current
\* one's time far ahead of its own, and empties it.
LEMMA AwayNext ==
  ASSUME ResetDist < LapLength - 1, Checkpoints <= SizeT, ~Lasting
  PROVE  OwnInv /\ TrackInv /\ AwayInv /\ [Next]_vars => AwayInv'
<1> SUFFICES ASSUME OwnInv, TrackInv, AwayInv, [Next]_vars
             PROVE  AwayInv'
  OBVIOUS
<1>d. DataInv
  BY DEF OwnInv
<1>t. /\ driver.times \in [Places -> CheckpointType]
      /\ driver.cur \in Places /\ NONE \notin Nat
      /\ \A k \in Places : driver.times[k].time \in Nat \cup {NONE}
      /\ MaxTime \in Nat /\ Jump \in Nat /\ MAX_TIMESTAMP_DIFF_ALLOWED \in Nat
      /\ MaxTime < Jump - MAX_TIMESTAMP_DIFF_ALLOWED
  BY <1>d, Positive, DriverTelemetryAssumption DEF DataInv, DriverType, CheckpointType
<1>1. ASSUME NEW p \in position .. position + 1, NEW m \in MessageType, Drive(p),
             Receive(m), m.time \in Timestamps \/ m.time = clock',
             \/ m.dist = position'
             \/ p = position /\ position <= ResetDist /\ m.dist < position
      PROVE  AwayInv'
  <2>1. PICK q \in Places :
           \/ Stays(q)
           \/ /\ Crosses(m, q)
              /\ q = driver.cur + 1 \/ (driver.cur = Checkpoints - 1 /\ q = 0)
    BY <1>1, <1>d, CrossesNext, Zenon
  <2>2. /\ clock' <= MaxTime
        /\ m.time = clock' \/ (m.time > Jump /\ m.time > MaxTime)
        /\ (\E k \in Places : RanAway(k)) => m.time = clock'
    <3>1. p \in Nat
      BY <1>d DEF DataInv
    <3> QED
      BY <1>1, <1>d, <3>1, StampedTime
  <2>3. CASE Stays(q)
    BY <2>3 DEF Stays, AwayInv, RanAway
  <2>4. CASE Crosses(m, q) /\ (q = driver.cur + 1 \/ (driver.cur = Checkpoints - 1 /\ q = 0))
    <3>1. /\ q # driver.cur /\ driver'.cur = q
          /\ driver'.times[q] \in {EmptyCheckpoint, Stamped(m.time)}
          /\ \A k \in Places \ {q} : driver'.times[k] \in {driver.times[k], EmptyCheckpoint}
      BY <2>4 DEF Crosses
    <3>2. EmptyCheckpoint.time = NONE /\ Stamped(m.time).time = m.time
      BY DEF EmptyCheckpoint, Stamped
    <3>3. RanAway(q)' => driver'.times[q].time > Jump /\ m.time # clock'
      <4>1. RanAway(q)' => driver'.times[q].time # NONE /\ driver'.times[q].time > MaxTime
        BY DEF RanAway
      <4>2. RanAway(q)' => driver'.times[q].time = m.time
        BY <3>1, <3>2, <4>1
      <4>3. m.time = clock' => ~(m.time > MaxTime)
        <5>1. clock' \in Nat
          BY <1>1, <1>d DEF Drive, DataInv
        <5> QED
          BY <1>t, <2>2, <5>1
      <4> QED
        BY <2>2, <4>1, <4>2, <4>3
    <3>4. ASSUME NEW k \in Places, k # q, RanAway(k)'
          PROVE  /\ driver'.times[k].time > Jump
                 /\ k = Checkpoints - 1 /\ SizeT % Checkpoints # 0
      <4>1. driver'.times[k] = driver.times[k] /\ RanAway(k)
        BY <3>1, <3>2, <3>4 DEF RanAway
      <4>2. /\ driver.times[k].time > Jump
            /\ k = driver.cur \/ (k = Checkpoints - 1 /\ SizeT % Checkpoints # 0)
        BY <4>1 DEF AwayInv
      <4>3. CASE k = driver.cur /\ Preceding(q) = driver.cur
        <5>1. m.time = clock' /\ m.time <= MaxTime /\ m.time \in Nat
          BY <2>2, <4>1 DEF MessageType
        <5>2. driver.times[k].time \in Nat
          BY <1>t, <4>1 DEF RanAway
        <5>3. driver.times[k].time > m.time + MAX_TIMESTAMP_DIFF_ALLOWED
          BY <1>t, <4>2, <5>1, <5>2
        <5>4. driver'.times[k] = EmptyCheckpoint
          BY <2>4, <3>1, <4>1, <4>3, <5>3 DEF Crosses, RanAway
        <5> QED
          BY <3>2, <3>4, <5>4 DEF RanAway
      <4>4. CASE k = driver.cur /\ Preceding(q) # driver.cur
        <5>1. q # driver.cur + 1
          BY <1>t, <4>4, PrecedingOf
        <5>2. driver.cur = Checkpoints - 1 /\ q = 0
          BY <2>4, <5>1
        <5> QED
          BY <1>t, <4>1, <4>2, <4>4, <5>2, PrecedingOf
      <4> QED
        BY <4>1, <4>2, <4>3, <4>4
    <3> QED
      BY <3>1, <3>3, <3>4 DEF AwayInv
  <2> QED
    BY <2>1, <2>3, <2>4
<1>2. CASE Result
  <2>1. /\ driver'.cur = driver.cur
        /\ driver'.times = driver.times \/ driver'.times = Aged(driver.times)
    BY <1>2, <1>d, ResultEffect
  <2>2. \A k \in Places : Aged(driver.times)[k].time = driver.times[k].time
    BY <1>t, AgedType
  <2>3. \A k \in Places : driver'.times[k].time = driver.times[k].time
    BY <2>1, <2>2
  <2> QED
    BY <2>1, <2>3 DEF AwayInv, RanAway
<1>3. CASE UNCHANGED vars
  BY <1>3 DEF vars, AwayInv, RanAway
<1> QED
  BY <1>1, <1>2, <1>3, <1>d, DriverStep

\* On any track, a timestamp that ran away and came back is skipped at the next
\* checkpoint of the lap: it survives in the checkpoint the car is at, and in the last.
THEOREM RunawaysRemain ==
  ASSUME ResetDist < LapLength - 1, Checkpoints <= SizeT, ~Lasting
  PROVE  Spec => []RunawaySkippedInLap
<1>1. OwnInv /\ TrackInv /\ [Next]_vars => TrackInv'
  BY TrackNext
<1>2. OwnInv /\ TrackInv /\ AwayInv /\ [Next]_vars => AwayInv'
  BY AwayNext
<1>3. OwnInv /\ AwayInv => RunawaySkippedInLap
  BY DEF OwnInv, DataInv, DriverType, AwayInv, RunawaySkippedInLap
<1> QED
  BY <1>1, <1>2, <1>3, TrackInit, AwayInit, OwnAlways, PTL DEF Spec

-------------------------------------------------------------------------------
(* The board's data.                                                       *)

TimedCheckpoint == [time : Times \cup {NONE}, age : Nat]

BoardRecord ==
    [car    : Cars \cup {NONE},
     dist   : Dists \cup {NONE},
     time   : Times \cup {0},
     pit    : BOOLEAN \cup {NONE},
     rank   : Ranks \cup {MaxRank},
     laps   : Nat \cup {NONE},
     stale  : Nat,
     in_pit : BOOLEAN,
     times  : [Places -> TimedCheckpoint],
     last   : Places \cup {NONE},
     cur    : Places]

\* A distance comes with a time of day of the feed.
BoardDriver == {d \in BoardRecord : d.dist # NONE => d.time \in Times}

BoardObject ==
    [pit_count : Nat, cur_laps : Nat, new_telem : BOOLEAN, gap : Cars \cup {NONE},
     interval : Cars \cup {NONE}]

BoardPlace == [driver : BoardDriver, object : BoardObject]

CarMaps == UNION {[C -> Nat] : C \in SUBSET Cars}

Boards ==
    [places : Seq(BoardPlace), map : CarMaps,
     aborted : BOOLEAN]

\* The map takes its cars to the places, one to one, and a driver whose
\* telemetry has come is the car's.
Linked(b) ==
    /\ DOMAIN b.map \subseteq Cars
    /\ \A c \in DOMAIN b.map : /\ b.map[c] \in DOMAIN b.places
                               /\ b.places[b.map[c]].driver.car \in {c, NONE}
    /\ \A c, d \in DOMAIN b.map : b.map[c] = b.map[d] => c = d
    /\ \A i \in DOMAIN b.places : \E c \in DOMAIN b.map : b.map[c] = i

\* Every driver's telemetry has come.
Identified(b) == \A c \in DOMAIN b.map : b.places[b.map[c]].driver.car = c

\* What the board says of car c.
Row(b, c) == RowOf(b.places[b.map[c]].driver)

\* The same before the car is heard from.
RowBefore(b, c) == IF c \in DOMAIN b.map THEN Row(b, c) ELSE Score!Blank

\* What a result says.
Scored(w, r) == [w EXCEPT !.rank = r.rank, !.laps = r.laps]

\* Car c's telemetry is waiting for refresh; its checkpoint is not its distance's.
Waits(b, c) == b.places[b.map[c]].object.new_telem

LagsOn(b, c) ==
    LET d == b.places[b.map[c]].driver
    IN  d.dist # NONE /\ d.cur # Quotient(d)

\* What refresh needs of board a, if it follows board b and has the same cars.
Reached(a, b, heard) ==
    \A c \in DOMAIN b.map :
        /\ Waits(b, c) => Waits(a, c)
        /\ Waits(a, c) \/ (c \notin heard /\ (LagsOn(a, c) => LagsOn(b, c)))

\* Board after board.
LEMMA ReachedOn ==
  ASSUME NEW a, NEW b, NEW e, NEW g, NEW h, DOMAIN a.map = DOMAIN b.map,
         Reached(a, b, g), Reached(e, a, h)
  PROVE  Reached(e, b, g \cup h)
BY DEF Reached

\* A driver just added.
LEMMA PlaceType ==
  /\ Place \in BoardPlace /\ Place.driver.car = NONE /\ Place.driver.dist = NONE
  /\ Place.object = NewObject /\ NewObject \in BoardObject /\ ~NewObject.new_telem
<1>1. NewDriver \in BoardDriver
  <2>1. EmptyCheckpoint \in TimedCheckpoint
    BY DEF EmptyCheckpoint, TimedCheckpoint
  <2>2. [k \in 0 .. Checkpoints - 1 |-> EmptyCheckpoint] \in [Places -> TimedCheckpoint]
    BY <2>1 DEF Places
  <2>3. 0 \in Places /\ STALE_TELEM_THRESH + 1 \in Nat
    BY Positive, CheckpointCount DEF Places
  <2> QED
    BY <2>2, <2>3 DEF NewDriver, BoardDriver, BoardRecord
<1>2. NewObject \in BoardObject /\ ~NewObject.new_telem
  BY DEF NewObject, BoardObject
<1> QED
  BY <1>1, <1>2 DEF Place, BoardPlace, NewDriver

\* What emplace_back does to the others: they keep their drivers, and either all
\* keep their objects or none does.
LEMMA GrownType ==
  ASSUME NEW s \in Seq(BoardPlace)
  PROVE  /\ Grown(s) \in Seq(BoardPlace) /\ Len(Grown(s)) = Len(s)
         /\ \A i \in 1 .. Len(s) : /\ Grown(s)[i].driver = s[i].driver
                                   /\ Grown(s)[i].object \in {s[i].object, NewObject}
<1>1. CASE Full(s)
  <2> DEFINE g == [i \in DOMAIN s |-> [s[i] EXCEPT !.object = NewObject]]
  <2>1. Grown(s) = g
    BY <1>1 DEF Grown
  <2>3. DOMAIN s = 1 .. Len(s) /\ Len(s) \in Nat
    OBVIOUS
  <2>2. ASSUME NEW i \in 1 .. Len(s)
        PROVE  g[i] \in BoardPlace /\ g[i].driver = s[i].driver /\ g[i].object = NewObject
    <3>1. s[i] \in BoardPlace /\ i \in DOMAIN s
      BY <2>3
    <3>2. g[i] = [s[i] EXCEPT !.object = NewObject]
      BY <3>1
    <3> HIDE DEF g
    <3> QED
      BY <3>1, <3>2, PlaceType DEF BoardPlace
  <2>4. g \in Seq(BoardPlace) /\ Len(g) = Len(s)
    BY <2>2, <2>3
  <2> QED
    BY <2>1, <2>2, <2>4
<1>2. CASE ~Full(s)
  BY <1>2 DEF Grown
<1> QED
  BY <1>1, <1>2

\* The map with one more car.
LEMMA MappedType ==
  ASSUME NEW m \in CarMaps, NEW c \in Cars, NEW i \in Nat
  PROVE  /\ Mapped(m, c, i) \in CarMaps
         /\ DOMAIN Mapped(m, c, i) = DOMAIN m \cup {c}
         /\ Mapped(m, c, i)[c] = i
         /\ \A d \in DOMAIN m \ {c} : Mapped(m, c, i)[d] = m[d]
<1>1. DOMAIN m \in SUBSET Cars /\ \A d \in DOMAIN m : m[d] \in Nat
  BY DEF CarMaps
<1>2. Mapped(m, c, i) \in [DOMAIN m \cup {c} -> Nat]
  BY <1>1 DEF Mapped
<1>3. DOMAIN m \cup {c} \in SUBSET Cars
  BY <1>1
<1> QED
  BY <1>2, <1>3 DEF Mapped, CarMaps

\* A new driver's row is blank.
LEMMA NewRow == RowOf(NewDriver) = Score!Blank
BY DEF RowOf, NewDriver, Score!Blank

\* It is as old as a row can be.
LEMMA BlankStays == Score!Older(Score!Blank) = Score!Blank
BY Positive DEF Score!Older, Score!Blank

\* check_and_populate: the map has the car, unless assertions are compiled out;
\* the new driver has the last place and no telemetry.
LEMMA PopulatedEffect ==
  ASSUME NEW b \in Boards, Linked(b), NEW c \in Cars
  PROVE  /\ Populated(b, c) \in Boards /\ Linked(Populated(b, c))
         /\ Populated(b, c).aborted = b.aborted
         /\ DOMAIN b.map \subseteq DOMAIN Populated(b, c).map
         /\ DOMAIN Populated(b, c).map \subseteq DOMAIN b.map \cup {c}
         /\ ~NDEBUG => c \in DOMAIN Populated(b, c).map
         /\ NDEBUG \/ c \in DOMAIN b.map => Populated(b, c) = b
         /\ \A d \in DOMAIN b.map :
               Populated(b, c).places[Populated(b, c).map[d]].driver
                 = b.places[b.map[d]].driver
         /\ c \in DOMAIN Populated(b, c).map \ DOMAIN b.map =>
               Populated(b, c).places[Populated(b, c).map[c]].driver = NewDriver
         /\ \A d : RowBefore(Populated(b, c), d) = RowBefore(b, d)
<1>1. CASE NDEBUG \/ c \in DOMAIN b.map
  BY <1>1 DEF Populated
<1>2. CASE ~(NDEBUG \/ c \in DOMAIN b.map)
  <2> DEFINE n == Len(b.places)
             g == Grown(b.places)
             a == Populated(b, c)
  <2>1. /\ b.places \in Seq(BoardPlace) /\ b.aborted \in BOOLEAN
        /\ b.map \in CarMaps
    BY DEF Boards
  <2>2. n \in Nat /\ DOMAIN b.places = 1 .. n
    BY <2>1
  <2>3. a = [b EXCEPT !.places = Append(g, Place), !.map = Mapped(b.map, c, n + 1)]
    BY <1>2 DEF Populated, Added
  <2>4. /\ a.places = Append(g, Place) /\ a.map = Mapped(b.map, c, n + 1)
        /\ a.aborted = b.aborted
    BY <2>3 DEF Boards
  <2>5. /\ g \in Seq(BoardPlace) /\ Len(g) = n
        /\ \A i \in 1 .. n : /\ g[i].driver = b.places[i].driver
                             /\ g[i].object \in {b.places[i].object, NewObject}
    BY <2>1, GrownType
  <2>14. n + 1 \in Nat
    BY <2>2
  <2> HIDE DEF a, n, g
  <2>6. /\ a.map \in CarMaps
        /\ DOMAIN a.map = DOMAIN b.map \cup {c} /\ a.map[c] = n + 1
        /\ \A d \in DOMAIN b.map : a.map[d] = b.map[d]
    <3>1. /\ Mapped(b.map, c, n + 1) \in CarMaps
          /\ DOMAIN Mapped(b.map, c, n + 1) = DOMAIN b.map \cup {c}
          /\ Mapped(b.map, c, n + 1)[c] = n + 1
          /\ \A d \in DOMAIN b.map \ {c} : Mapped(b.map, c, n + 1)[d] = b.map[d]
      BY <2>1, <2>14, MappedType
    <3> QED
      BY <1>2, <2>4, <3>1
  <2>7. /\ a.places \in Seq(BoardPlace) /\ Len(a.places) = n + 1
        /\ DOMAIN a.places = 1 .. n + 1
        /\ a.places[n + 1] = Place /\ \A i \in 1 .. n : a.places[i] = g[i]
    BY <2>2, <2>4, <2>5, PlaceType
  <2>8. a \in Boards
    BY <2>1, <2>3, <2>4, <2>6, <2>7 DEF Boards
  <2>9. \A d \in DOMAIN b.map : b.map[d] \in 1 .. n
    BY <2>2 DEF Linked
  <2>10. \A d \in DOMAIN b.map : a.places[a.map[d]].driver = b.places[b.map[d]].driver
    BY <2>5, <2>6, <2>7, <2>9
  <2>11. Linked(a)
    <3>1. DOMAIN a.map \subseteq Cars
      BY <2>6 DEF Linked
    <3>2. ASSUME NEW d \in DOMAIN a.map
          PROVE  a.map[d] \in DOMAIN a.places /\ a.places[a.map[d]].driver.car \in {d, NONE}
      BY <2>2, <2>6, <2>7, <2>9, <2>10, PlaceType DEF Linked
    <3>3. ASSUME NEW d \in DOMAIN a.map, NEW e \in DOMAIN a.map, a.map[d] = a.map[e]
          PROVE  d = e
      BY <2>2, <2>6, <2>9, <3>3 DEF Linked
    <3>4. ASSUME NEW i \in DOMAIN a.places
          PROVE  \E d \in DOMAIN a.map : a.map[d] = i
      <4>1. CASE i = n + 1
        BY <2>6, <4>1
      <4>2. CASE i \in 1 .. n
        BY <2>2, <2>6, <4>2 DEF Linked
      <4> QED
        BY <2>2, <2>7, <4>1, <4>2
    <3> QED
      BY <3>1, <3>2, <3>3, <3>4 DEF Linked
  <2>12. \A d : RowBefore(a, d) = RowBefore(b, d)
    <3> SUFFICES ASSUME NEW d
                 PROVE  RowBefore(a, d) = RowBefore(b, d)
      OBVIOUS
    <3>1. a.places[a.map[c]].driver = NewDriver
      BY <2>6, <2>7 DEF Place
    <3> QED
      BY <1>2, <2>6, <2>10, <3>1, NewRow DEF RowBefore, Row
  <2>13. /\ ~NDEBUG => c \in DOMAIN a.map
         /\ a.places[a.map[c]].driver = NewDriver
    BY <2>6, <2>7 DEF Place
  <2> QED
    BY <1>2, <2>4, <2>6, <2>8, <2>10, <2>11, <2>12, <2>13 DEF a
<1> QED
  BY <1>1, <1>2

\* The board with place q for car c.
Replaced(b, c, q) == [b EXCEPT !.places[b.map[c]] = q]

\* A place that changes, and stays its car's.
LEMMA ChangedEffect ==
  ASSUME NEW b \in Boards, Linked(b), NEW c \in DOMAIN b.map, NEW q \in BoardPlace,
         q.driver.car \in {c, NONE}
  PROVE  LET a == Replaced(b, c, q)
         IN  /\ a \in Boards /\ Linked(a)
             /\ a.map = b.map /\ a.aborted = b.aborted
             /\ Len(a.places) = Len(b.places)
             /\ a.places[b.map[c]] = q
             /\ \A d \in DOMAIN b.map \ {c} : a.places[b.map[d]] = b.places[b.map[d]]
             /\ \A d : RowBefore(a, d) = IF d = c THEN RowOf(q.driver) ELSE RowBefore(b, d)
<1> DEFINE a == Replaced(b, c, q)
           s == [b.places EXCEPT ![b.map[c]] = q]
<1>1. b.places \in Seq(BoardPlace) /\ b.aborted \in BOOLEAN /\ b.map \in CarMaps
  BY DEF Boards
<1>2. b.map[c] \in DOMAIN b.places
  BY DEF Linked
<1>3. s \in Seq(BoardPlace) /\ Len(s) = Len(b.places) /\ DOMAIN s = DOMAIN b.places
  BY <1>1, <1>2
<1>4. /\ s[b.map[c]] = q
      /\ \A i \in DOMAIN b.places : i # b.map[c] => s[i] = b.places[i]
  BY <1>1, <1>2
<1>5. a.places = s /\ a.map = b.map /\ a.aborted = b.aborted /\ a = [b EXCEPT !.places = s]
  BY DEF Boards, Replaced
<1>6. a \in Boards
  BY <1>1, <1>3, <1>5 DEF Boards
<1> HIDE DEF s, a
<1>7. Linked(a)
  <2>1. ASSUME NEW d \in DOMAIN b.map
        PROVE  a.places[b.map[d]].driver.car \in {d, NONE}
    BY <1>3, <1>4, <1>5 DEF Linked
  <2> QED
    BY <1>3, <1>5, <2>1 DEF Linked
<1>8. \A d \in DOMAIN b.map \ {c} : a.places[b.map[d]] = b.places[b.map[d]]
  BY <1>4, <1>5 DEF Linked
<1>9. ASSUME NEW d
      PROVE  RowBefore(a, d) = IF d = c THEN RowOf(q.driver) ELSE RowBefore(b, d)
  <2>1. CASE d = c
    BY <1>4, <1>5, <2>1 DEF RowBefore, Row
  <2>2. CASE d # c /\ d \in DOMAIN b.map
    BY <1>5, <1>8, <2>2 DEF RowBefore, Row
  <2>3. CASE d \notin DOMAIN b.map
    BY <1>5, <2>3 DEF RowBefore
  <2> QED
    BY <2>1, <2>2, <2>3
<1> QED
  BY <1>3, <1>4, <1>5, <1>6, <1>7, <1>8, <1>9 DEF a

\* take_new_telemetry on the data of the board.
LEMMA TakeType ==
  ASSUME NEW d \in BoardDriver, NEW m \in Messages
  PROVE  /\ TakeTelemetry(d, m) \in BoardDriver
         /\ TakeTelemetry(d, m).car = m.car /\ TakeTelemetry(d, m).cur = d.cur
<1>1. m.car \in Cars /\ m.dist \in Dists /\ m.time \in Times /\ m.pit \in BOOLEAN \cup {NONE}
  BY TelemetryBoardAssumption DEF Messages
<1>2. CorrectedDist(d, m) \in Dists \cup {NONE}
  BY <1>1 DEF CorrectedDist, BoardDriver, BoardRecord
<1>3. TakeTelemetry(d, m) = [d EXCEPT !.car = m.car, !.dist = CorrectedDist(d, m),
                                      !.time = m.time, !.pit = m.pit, !.stale = 0]
  BY DEF TakeTelemetry
<1>4. PICK car \in Cars, dist \in Dists \cup {NONE}, time \in Times,
           pit \in BOOLEAN \cup {NONE} :
         car = m.car /\ dist = CorrectedDist(d, m) /\ time = m.time /\ pit = m.pit
  BY <1>1, <1>2, Zenon
<1>5. TakeTelemetry(d, m) = [d EXCEPT !.car = car, !.dist = dist, !.time = time,
                                      !.pit = pit, !.stale = 0]
  BY <1>3, <1>4, Zenon
<1> DEFINE e == TakeTelemetry(d, m)
<1> HIDE DEF e
<1>6. e = [d EXCEPT !.car = car, !.dist = dist, !.time = time, !.pit = pit, !.stale = 0]
  BY <1>5 DEF e
<1>7. e \in BoardRecord /\ e.time \in Times
  BY <1>6 DEF BoardDriver, BoardRecord
<1>8. e.car = car /\ e.cur = d.cur
  BY <1>6 DEF BoardDriver, BoardRecord
<1> QED
  BY <1>4, <1>7, <1>8 DEF e, BoardDriver

\* What take_new_telemetry, frame_passed and take_new_results do to a row.
LEMMA DriverRow ==
  ASSUME NEW d \in BoardDriver
  PROVE  /\ \A m \in Messages : RowOf(TakeTelemetry(d, m)) = Score!Told(RowOf(d), m)
         /\ RowOf(FramePassed(d)) = Score!Older(RowOf(d))
         /\ \A r \in [car : Cars, rank : Ranks, laps : Nat] :
               RowOf(TakeResults(d, r)) = Scored(RowOf(d), r)
<1>1. ASSUME NEW m \in Messages
      PROVE  RowOf(TakeTelemetry(d, m)) = Score!Told(RowOf(d), m)
  <2>1. CorrectedDist(d, m) = IF d.dist # NONE /\ Score!Number(m.dist) < d.dist
                                   /\ d.dist <= ResetDist
                                THEN d.dist ELSE m.dist
    BY DEF CorrectedDist, OrZero, Score!Number
  <2>2. PICK dist : dist = CorrectedDist(d, m)
    OBVIOUS
  <2>3. TakeTelemetry(d, m) = [d EXCEPT !.car = m.car, !.dist = dist, !.time = m.time,
                                        !.pit = m.pit, !.stale = 0]
    BY <2>2, Zenon DEF TakeTelemetry
  <2>4. RowOf(TakeTelemetry(d, m)) = [dist |-> dist, time |-> m.time, pit |-> m.pit,
                                      rank |-> d.rank, laps |-> d.laps, stale |-> 0]
    BY <2>3 DEF RowOf, BoardDriver, BoardRecord
  <2>5. Score!Told(RowOf(d), m) = [dist |-> dist, time |-> m.time, pit |-> m.pit,
                                   rank |-> d.rank, laps |-> d.laps, stale |-> 0]
    <3>1. RowOf(d).dist = d.dist
      BY DEF RowOf
    <3>2. Score!Told(RowOf(d), m) = [RowOf(d) EXCEPT !.dist = dist, !.time = m.time,
                                                     !.pit = m.pit, !.stale = 0]
      BY <2>1, <2>2, <3>1 DEF Score!Told
    <3> QED
      BY <3>2 DEF RowOf
  <2> QED
    BY <2>4, <2>5
<1>2. RowOf(FramePassed(d)) = Score!Older(RowOf(d))
  BY DEF RowOf, FramePassed, Score!Older, BoardDriver, BoardRecord
<1>3. ASSUME NEW r \in [car : Cars, rank : Ranks, laps : Nat]
      PROVE  RowOf(TakeResults(d, r)) = Scored(RowOf(d), r)
  <2>1. TakeResults(d, r) = [d EXCEPT !.rank = r.rank, !.laps = r.laps]
    BY DEF TakeResults
  <2>2. RowOf(TakeResults(d, r)) = [dist |-> d.dist, time |-> d.time, pit |-> d.pit,
                                    rank |-> r.rank, laps |-> r.laps, stale |-> d.stale]
    BY <2>1 DEF RowOf, BoardDriver, BoardRecord
  <2>3. Scored(RowOf(d), r) = [RowOf(d) EXCEPT !.rank = r.rank, !.laps = r.laps]
    BY DEF Scored
  <2> QED
    BY <2>2, <2>3 DEF RowOf
<1> QED
  BY <1>1, <1>2, <1>3

\* One telemetry message.  The driver it is about is the car's from then on, its
\* row is told, and refresh is waited for.
LEMMA TakenEffect ==
  ASSUME NEW b \in Boards, Linked(b), NEW m \in Messages
  PROVE  LET a == TelemetryTaken(b, m)
         IN  /\ a \in Boards /\ Linked(a)
             /\ DOMAIN b.map \subseteq DOMAIN a.map
             /\ ~NDEBUG =>
                   /\ DOMAIN a.map = DOMAIN b.map \cup {m.car}
                   /\ a.aborted = b.aborted
                   /\ \A d : RowBefore(a, d) = IF d = m.car THEN Score!Told(RowBefore(b, d), m)
                                                            ELSE RowBefore(b, d)
             /\ Identified(b) => Identified(a)
             /\ DOMAIN a.map = DOMAIN b.map => Reached(a, b, {m.car})
<1> DEFINE c == m.car
           p == Populated(b, c)
           a == TelemetryTaken(b, m)
           old == p.places[p.map[c]]
           q == [driver |-> TakeTelemetry(old.driver, m),
                 object |-> [old.object EXCEPT !.new_telem = TRUE]]
<1>1. c \in Cars
  BY DEF Messages
<1>2. /\ p \in Boards /\ Linked(p) /\ p.aborted = b.aborted
      /\ DOMAIN b.map \subseteq DOMAIN p.map
      /\ DOMAIN p.map \subseteq DOMAIN b.map \cup {c}
      /\ ~NDEBUG => c \in DOMAIN p.map
      /\ NDEBUG \/ c \in DOMAIN b.map => p = b
      /\ \A d \in DOMAIN b.map : p.places[p.map[d]].driver = b.places[b.map[d]].driver
      /\ \A d : RowBefore(p, d) = RowBefore(b, d)
  BY <1>1, PopulatedEffect
<1>3. CASE c \notin DOMAIN p.map
  <2>1. a = [p EXCEPT !.aborted = TRUE]
    BY <1>3 DEF TelemetryTaken, Updated
  <2> HIDE DEF p
  <2>2. a \in Boards /\ a.places = p.places /\ a.map = p.map
    BY <1>2, <2>1 DEF Boards
  <2>3. NDEBUG /\ p = b
    BY <1>2, <1>3
  <2>4. Linked(a) /\ (Identified(b) => Identified(a))
    BY <1>2, <1>3, <2>2, <2>3 DEF Linked, Identified
  <2>5. Reached(a, b, {c})
    BY <1>3, <2>2, <2>3 DEF Reached, Waits, LagsOn
  <2> QED
    BY <1>2, <2>2, <2>3, <2>4, <2>5
<1>4. CASE c \in DOMAIN p.map
  <2>1. p.map[c] \in DOMAIN p.places /\ p.places \in Seq(BoardPlace)
    BY <1>2, <1>4 DEF Linked, Boards
  <2>2. a = Replaced(p, c, q)
    BY <1>4, <2>1 DEF TelemetryTaken, Updated, Replaced
  <2>3. old \in BoardPlace
    BY <2>1
  <2>4. /\ TakeTelemetry(old.driver, m) \in BoardDriver
        /\ TakeTelemetry(old.driver, m).car = c
        /\ RowOf(TakeTelemetry(old.driver, m)) = Score!Told(RowOf(old.driver), m)
    BY <2>3, TakeType, DriverRow DEF BoardPlace
  <2>10. RowOf(q.driver) = Score!Told(RowBefore(b, c), m)
    <3>1. RowOf(old.driver) = RowBefore(p, c)
      BY <1>4 DEF RowBefore, Row
    <3> QED
      BY <1>2, <2>4, <3>1
  <2>5. q \in BoardPlace /\ q.driver.car = c /\ q.object.new_telem = TRUE
    <3>1. old.object \in BoardObject
      BY <2>3 DEF BoardPlace
    <3>2. [old.object EXCEPT !.new_telem = TRUE] \in BoardObject
      BY <3>1 DEF BoardObject
    <3>3. [old.object EXCEPT !.new_telem = TRUE].new_telem = TRUE
      BY <3>1 DEF BoardObject
    <3> QED
      BY <2>4, <3>2, <3>3 DEF BoardPlace
  <2> HIDE DEF p, old, q, a
  <2>6. /\ a \in Boards /\ Linked(a) /\ a.map = p.map /\ a.aborted = p.aborted
        /\ Len(a.places) = Len(p.places) /\ a.places[p.map[c]] = q
        /\ \A d \in DOMAIN p.map \ {c} : a.places[p.map[d]] = p.places[p.map[d]]
        /\ \A d : RowBefore(a, d) = IF d = c THEN RowOf(q.driver) ELSE RowBefore(p, d)
    BY <1>2, <1>4, <2>2, <2>5, ChangedEffect
  <2>8. ASSUME Identified(b)
        PROVE  Identified(a)
    <3> SUFFICES ASSUME NEW d \in DOMAIN p.map
                 PROVE  a.places[p.map[d]].driver.car = d
      BY <2>6 DEF Identified
    <3>1. CASE d = c
      BY <2>5, <2>6, <3>1
    <3>2. CASE d # c
      BY <1>2, <2>6, <2>8, <3>2 DEF Identified
    <3> QED
      BY <3>1, <3>2
  <2>9. ASSUME DOMAIN a.map = DOMAIN b.map
        PROVE  Reached(a, b, {c})
    <3>1. p = b
      BY <1>2, <1>4, <2>6, <2>9
    <3>2. Waits(a, c)
      BY <2>5, <2>6 DEF Waits
    <3>3. \A d \in DOMAIN b.map \ {c} : (Waits(a, d) <=> Waits(b, d))
                                        /\ (LagsOn(a, d) <=> LagsOn(b, d))
      BY <2>6, <3>1 DEF Waits, LagsOn
    <3> QED
      BY <3>2, <3>3 DEF Reached
  <2>11. \A d : RowBefore(a, d) = IF d = c THEN Score!Told(RowBefore(b, d), m)
                                           ELSE RowBefore(b, d)
    BY <1>2, <2>6, <2>10
  <2>13. ~NDEBUG => DOMAIN a.map = DOMAIN b.map \cup {c}
    BY <1>2, <1>4, <2>6
  <2> QED
    BY <1>2, <1>4, <2>6, <2>8, <2>9, <2>11, <2>13 DEF a
<1> QED
  BY <1>3, <1>4

\* take_new_results: the row of the car says its result, and nobody else's changes.
\* A driver the board had stays the car's.
LEMMA ResultsEffect ==
  ASSUME NEW b \in Boards, Linked(b),
         NEW r \in [car : Cars, rank : Ranks, laps : Nat] \cup {NONE}
  PROVE  LET a == Results(b, r)
         IN  /\ a \in Boards /\ Linked(a)
             /\ DOMAIN b.map \subseteq DOMAIN a.map
             /\ ~NDEBUG =>
                   /\ a.aborted = b.aborted
                   /\ DOMAIN a.map = DOMAIN b.map \cup (IF r = NONE THEN {} ELSE {r.car})
                   /\ \A d : RowBefore(a, d) = IF r # NONE /\ d = r.car
                                                 THEN Scored(RowBefore(b, d), r)
                                                 ELSE RowBefore(b, d)
             /\ DOMAIN a.map = DOMAIN b.map => /\ Identified(b) => Identified(a)
                                               /\ Reached(a, b, {})
<1>0. CASE r = NONE
  BY <1>0 DEF Results, Reached
<1> SUFFICES ASSUME r # NONE
             PROVE  LET a == Results(b, r)
                    IN  /\ a \in Boards /\ Linked(a)
                        /\ DOMAIN b.map \subseteq DOMAIN a.map
                        /\ ~NDEBUG =>
                              /\ a.aborted = b.aborted
                              /\ DOMAIN a.map = DOMAIN b.map \cup {r.car}
                              /\ \A d : RowBefore(a, d) = IF d = r.car
                                                            THEN Scored(RowBefore(b, d), r)
                                                            ELSE RowBefore(b, d)
                        /\ DOMAIN a.map = DOMAIN b.map => /\ Identified(b) => Identified(a)
                                                          /\ Reached(a, b, {})
  BY <1>0
<1> DEFINE c == r.car
           p == Populated(b, c)
           a == Results(b, r)
           old == p.places[p.map[c]]
           q == [old EXCEPT !.driver = TakeResults(old.driver, r)]
<1>1. c \in Cars /\ r.rank \in Ranks /\ r.laps \in Nat
  OBVIOUS
<1>2. /\ p \in Boards /\ Linked(p) /\ p.aborted = b.aborted
      /\ DOMAIN b.map \subseteq DOMAIN p.map
      /\ DOMAIN p.map \subseteq DOMAIN b.map \cup {c}
      /\ ~NDEBUG => c \in DOMAIN p.map
      /\ NDEBUG \/ c \in DOMAIN b.map => p = b
      /\ \A d : RowBefore(p, d) = RowBefore(b, d)
  BY <1>1, PopulatedEffect
<1>3. CASE c \notin DOMAIN p.map
  <2>1. a = [p EXCEPT !.aborted = TRUE]
    BY <1>3 DEF Results, Updated
  <2> HIDE DEF p
  <2>2. a \in Boards /\ a.places = p.places /\ a.map = p.map
    BY <1>2, <2>1 DEF Boards
  <2>3. NDEBUG /\ p = b
    BY <1>2, <1>3
  <2>4. Linked(a) /\ (Identified(b) => Identified(a))
    BY <1>2, <1>3, <2>2, <2>3 DEF Linked, Identified
  <2>5. Reached(a, b, {})
    BY <1>3, <2>2, <2>3 DEF Reached, Waits, LagsOn
  <2> QED
    BY <1>2, <2>2, <2>3, <2>4, <2>5
<1>4. CASE c \in DOMAIN p.map
  <2>1. p.map[c] \in DOMAIN p.places /\ p.places \in Seq(BoardPlace)
    BY <1>2, <1>4 DEF Linked, Boards
  <2>2. a = Replaced(p, c, q)
    BY <1>4, <2>1 DEF Results, Updated, Replaced
  <2>3. old \in BoardPlace
    BY <2>1
  <2>4. old.driver \in BoardDriver
    BY <2>3 DEF BoardPlace
  <2>5. /\ TakeResults(old.driver, r) \in BoardDriver
        /\ TakeResults(old.driver, r).car = old.driver.car
        /\ TakeResults(old.driver, r).cur = old.driver.cur
        /\ TakeResults(old.driver, r).dist = old.driver.dist
    <3>1. TakeResults(old.driver, r) = [old.driver EXCEPT !.rank = r.rank, !.laps = r.laps]
      BY DEF TakeResults
    <3> HIDE DEF old
    <3> QED
      BY <1>1, <2>4, <3>1 DEF BoardDriver, BoardRecord
  <2>6. q \in BoardPlace /\ q.object = old.object /\ q.driver = TakeResults(old.driver, r)
    <3> HIDE DEF old
    <3> QED
      BY <2>3, <2>5 DEF BoardPlace
  <2>7. old.driver.car \in {c, NONE}
    BY <1>2, <1>4 DEF Linked
  <2>13. RowOf(q.driver) = Scored(RowBefore(b, c), r)
    <3>1. RowOf(old.driver) = RowBefore(p, c)
      BY <1>4 DEF RowBefore, Row
    <3> QED
      BY <1>2, <2>4, <2>6, <3>1, DriverRow
  <2> HIDE DEF p, old, q, a
  <2>8. /\ a \in Boards /\ Linked(a) /\ a.map = p.map /\ a.aborted = p.aborted
        /\ Len(a.places) = Len(p.places) /\ a.places[p.map[c]] = q
        /\ \A d \in DOMAIN p.map \ {c} : a.places[p.map[d]] = p.places[p.map[d]]
        /\ \A d : RowBefore(a, d) = IF d = c THEN RowOf(q.driver) ELSE RowBefore(p, d)
    BY <1>2, <1>4, <2>2, <2>5, <2>6, <2>7, ChangedEffect
  <2>10. ASSUME NEW d \in DOMAIN p.map
         PROVE  /\ a.places[a.map[d]].driver.car = p.places[p.map[d]].driver.car
                /\ a.places[a.map[d]].driver.cur = p.places[p.map[d]].driver.cur
                /\ a.places[a.map[d]].driver.dist = p.places[p.map[d]].driver.dist
                /\ a.places[a.map[d]].object = p.places[p.map[d]].object
    BY <2>5, <2>6, <2>8 DEF old
  <2>11. Identified(p) => Identified(a)
    BY <2>8, <2>10 DEF Identified
  <2>12. Reached(a, p, {})
    BY <2>8, <2>10 DEF Reached, Waits, LagsOn, Quotient
  <2>14. DOMAIN a.map = DOMAIN b.map => p = b
    BY <1>2, <1>4, <2>8
  <2>15. \A d : RowBefore(a, d) = IF d = c THEN Scored(RowBefore(b, d), r)
                                           ELSE RowBefore(b, d)
    BY <1>2, <2>8, <2>13
  <2>16. ~NDEBUG => DOMAIN a.map = DOMAIN b.map \cup {c}
    BY <1>2, <1>4, <2>8
  <2> QED
    BY <1>2, <1>4, <2>8, <2>11, <2>12, <2>14, <2>15, <2>16 DEF a
<1> QED
  BY <1>3, <1>4

\* take_new_lap changes no row.
LEMMA CompletedLapEffect ==
  ASSUME NEW b \in Boards, Linked(b), NEW c \in Cars \cup {NONE}
  PROVE  LET a == CompletedLap(b, c)
         IN  /\ a \in Boards /\ Linked(a)
             /\ DOMAIN b.map \subseteq DOMAIN a.map
             /\ ~NDEBUG =>
                   /\ a.aborted = b.aborted
                   /\ DOMAIN a.map = DOMAIN b.map \cup (IF c = NONE THEN {} ELSE {c})
                   /\ \A d : RowBefore(a, d) = RowBefore(b, d)
             /\ DOMAIN a.map = DOMAIN b.map => /\ Identified(b) => Identified(a)
                                               /\ Reached(a, b, {})
<1>0. CASE c = NONE
  BY <1>0 DEF CompletedLap, Reached
<1> SUFFICES ASSUME c # NONE
             PROVE  LET a == CompletedLap(b, c)
                    IN  /\ a \in Boards /\ Linked(a)
                        /\ DOMAIN b.map \subseteq DOMAIN a.map
                        /\ ~NDEBUG => /\ a.aborted = b.aborted
                                      /\ DOMAIN a.map = DOMAIN b.map \cup {c}
                                      /\ \A d : RowBefore(a, d) = RowBefore(b, d)
                        /\ DOMAIN a.map = DOMAIN b.map => /\ Identified(b) => Identified(a)
                                                          /\ Reached(a, b, {})
  BY <1>0
<1> DEFINE p == Populated(b, c)
           a == CompletedLap(b, c)
<1>2. /\ p \in Boards /\ Linked(p) /\ p.aborted = b.aborted
      /\ DOMAIN b.map \subseteq DOMAIN p.map
      /\ DOMAIN p.map \subseteq DOMAIN b.map \cup {c}
      /\ ~NDEBUG => c \in DOMAIN p.map
      /\ NDEBUG \/ c \in DOMAIN b.map => p = b
      /\ \A d : RowBefore(p, d) = RowBefore(b, d)
  BY PopulatedEffect
<1>3. CASE c \notin DOMAIN p.map
  <2>1. a = [p EXCEPT !.aborted = TRUE]
    BY <1>3 DEF CompletedLap, Updated
  <2> HIDE DEF p
  <2>2. a \in Boards /\ a.places = p.places /\ a.map = p.map
    BY <1>2, <2>1 DEF Boards
  <2>3. NDEBUG /\ p = b
    BY <1>2, <1>3
  <2>4. Linked(a) /\ (Identified(b) => Identified(a))
    BY <1>2, <1>3, <2>2, <2>3 DEF Linked, Identified
  <2>5. Reached(a, b, {})
    BY <1>3, <2>2, <2>3 DEF Reached, Waits, LagsOn
  <2> QED
    BY <1>2, <2>2, <2>3, <2>4, <2>5
<1>4. CASE c \in DOMAIN p.map
  <2>1. p.map[c] \in DOMAIN p.places /\ p.places \in Seq(BoardPlace)
    BY <1>2, <1>4 DEF Linked, Boards
  <2>2. a = [p EXCEPT !.places[p.map[c]] = p.places[p.map[c]]]
    BY <1>4, <2>1 DEF CompletedLap, Updated
  <2> HIDE DEF p
  <2>3. p = [p EXCEPT !.places[p.map[c]] = p.places[p.map[c]]]
    <3>1. p.places = [p.places EXCEPT ![p.map[c]] = p.places[p.map[c]]]
      BY <2>1
    <3> QED
      BY <1>2, <3>1 DEF Boards
  <2>4. a = p
    BY <2>2, <2>3
  <2>5. DOMAIN p.map = DOMAIN b.map => p = b
    BY <1>2, <1>4
  <2>6. Reached(p, p, {})
    BY DEF Reached
  <2> HIDE DEF a
  <2> QED
    BY <1>2, <1>4, <2>4, <2>5, <2>6 DEF a
<1> QED
  BY <1>3, <1>4

\* frame_passed tells every driver, and changes nothing but its count.
LEMMA PassedEffect ==
  ASSUME NEW b \in Boards, Linked(b)
  PROVE  LET a == Passed(b)
         IN  /\ a \in Boards /\ Linked(a) /\ a.map = b.map /\ a.aborted = b.aborted
             /\ \A c : RowBefore(a, c) = Score!Older(RowBefore(b, c))
             /\ Identified(b) => Identified(a)
             /\ Reached(a, b, {})
<1> DEFINE a == Passed(b)
           s == [i \in DOMAIN b.places |->
                   [b.places[i] EXCEPT !.driver = FramePassed(b.places[i].driver)]]
<1>1. b.places \in Seq(BoardPlace) /\ b.aborted \in BOOLEAN /\ b.map \in CarMaps
  BY DEF Boards
<1>2. DOMAIN b.places = 1 .. Len(b.places) /\ Len(b.places) \in Nat
  BY <1>1
<1>3. a.places = s /\ a.map = b.map /\ a.aborted = b.aborted
  BY DEF Passed, Boards
<1>4. ASSUME NEW i \in DOMAIN b.places
      PROVE  /\ s[i] \in BoardPlace /\ s[i].object = b.places[i].object
             /\ s[i].driver.car = b.places[i].driver.car
             /\ s[i].driver.cur = b.places[i].driver.cur
             /\ s[i].driver.dist = b.places[i].driver.dist
             /\ RowOf(s[i].driver) = Score!Older(RowOf(b.places[i].driver))
  <2>1. b.places[i] \in BoardPlace
    BY <1>1
  <2>2. PICK d \in BoardDriver : d = b.places[i].driver
    BY <2>1 DEF BoardPlace
  <2>3. /\ FramePassed(d) \in BoardDriver
        /\ FramePassed(d).car = d.car /\ FramePassed(d).cur = d.cur
        /\ FramePassed(d).dist = d.dist
        /\ RowOf(FramePassed(d)) = Score!Older(RowOf(d))
    <3>0. RowOf(FramePassed(d)) = Score!Older(RowOf(d))
      BY DriverRow
    <3>a. d \in BoardRecord /\ d.stale \in Nat
      BY DEF BoardDriver, BoardRecord
    <3>1. PICK n \in Nat : FramePassed(d) = [d EXCEPT !.stale = n]
      BY <3>a, Positive DEF FramePassed
    <3>2. /\ FramePassed(d) \in BoardDriver
          /\ FramePassed(d).car = d.car /\ FramePassed(d).cur = d.cur
          /\ FramePassed(d).dist = d.dist
      BY <3>a, <3>1 DEF BoardDriver, BoardRecord
    <3> QED
      BY <3>0, <3>2
  <2>4. s[i] = [b.places[i] EXCEPT !.driver = FramePassed(d)]
    BY <2>2
  <2> HIDE DEF s
  <2> QED
    BY <2>1, <2>2, <2>3, <2>4 DEF BoardPlace
<1>5. s \in Seq(BoardPlace) /\ DOMAIN s = DOMAIN b.places
  <2>1. s \in [1 .. Len(b.places) -> BoardPlace]
    BY <1>2, <1>4
  <2> HIDE DEF s
  <2> QED
    BY <1>2, <2>1
<1>6. a \in Boards
  <2>1. a = [b EXCEPT !.places = s]
    BY DEF Passed
  <2> HIDE DEF a, s
  <2> QED
    BY <1>5, <2>1 DEF Boards
<1> HIDE DEF a, s
<1>7. Linked(a) /\ (Identified(b) => Identified(a))
  BY <1>3, <1>4, <1>5 DEF Linked, Identified
<1>8. Reached(a, b, {})
  BY <1>3, <1>4, <1>5 DEF Reached, Waits, LagsOn, Quotient, Linked
<1>9. ASSUME NEW c
      PROVE  RowBefore(a, c) = Score!Older(RowBefore(b, c))
  <2>1. CASE c \in DOMAIN b.map
    BY <1>3, <1>4, <2>1 DEF Linked, Row, RowBefore
  <2>2. CASE c \notin DOMAIN b.map
    BY <1>3, <2>2, BlankStays DEF RowBefore
  <2> QED
    BY <2>1, <2>2
<1> QED
  BY <1>3, <1>6, <1>7, <1>8, <1>9 DEF a

\* Telemetry makes a row young again, whatever its age was.
LEMMA ToldAnyway ==
  ASSUME NEW b, NEW c, NEW m
  PROVE  Score!Told(Score!Older(RowBefore(b, c)), m) = Score!Told(RowBefore(b, c), m)
<1>0. PICK r : r = RowBefore(b, c)
  OBVIOUS
<1>r. \E d : r = RowOf(d)
  BY <1>0, NewRow DEF RowBefore, Row
<1>1. PICK n : Score!Older(r) = [r EXCEPT !.stale = n]
  BY DEF Score!Older
<1>2. Score!Older(r).dist = r.dist
  BY <1>1, <1>r DEF RowOf
<1>3. PICK dist : dist = IF r.dist # NONE /\ Score!Number(m.dist) < r.dist
                              /\ r.dist <= ResetDist
                           THEN r.dist ELSE m.dist
  OBVIOUS
<1>4. Score!Told(r, m) = [r EXCEPT !.dist = dist, !.time = m.time, !.pit = m.pit, !.stale = 0]
  BY <1>3 DEF Score!Told
<1>5. Score!Told(Score!Older(r), m)
        = [Score!Older(r) EXCEPT !.dist = dist, !.time = m.time, !.pit = m.pit, !.stale = 0]
  BY <1>2, <1>3 DEF Score!Told
<1>6. [[r EXCEPT !.stale = n] EXCEPT !.dist = dist, !.time = m.time, !.pit = m.pit, !.stale = 0]
        = [r EXCEPT !.dist = dist, !.time = m.time, !.pit = m.pit, !.stale = 0]
  BY <1>r DEF RowOf
<1> QED
  BY <1>0, <1>1, <1>4, <1>5, <1>6

\* The boards after each of a frame's messages.
Taking(f, b, s) ==
    f = [n \in 0 .. Len(s) |->
            IF n = 0 THEN Passed(b) ELSE TelemetryTaken(f[n - 1], s[n])]

\* There is such a function: it is extended message by message.
LEMMA TakingExists ==
  ASSUME NEW b, NEW s \in Seq(Messages), s # << >>
  PROVE  \E f : Taking(f, b, s) /\ Telemetry(b, s) = f[Len(s)]
<1> DEFINE Upto(f, k) ==
             f = [n \in 0 .. k |-> IF n = 0 THEN Passed(b) ELSE TelemetryTaken(f[n - 1], s[n])]
           Bad == {k \in 0 .. Len(s) : ~ \E f : Upto(f, k)}
<1>1. Len(s) \in Nat
  OBVIOUS
<1>2. Bad = {}
  <2> SUFFICES ASSUME Bad # {}
               PROVE  FALSE
    OBVIOUS
  <2>1. PICK k \in Bad : \A j \in Bad : k <= j
    <3>1. Bad \in SUBSET Nat
      BY <1>1
    <3> HIDE DEF Bad
    <3> QED
      BY <3>1, LeastExists
  <2>2. k \in 0 .. Len(s) /\ ~ \E f : Upto(f, k)
    OBVIOUS
  <2>3. CASE k = 0
    <3> DEFINE f == [n \in 0 .. 0 |-> Passed(b)]
    <3>1. Upto(f, 0)
      OBVIOUS
    <3> QED
      BY <2>2, <2>3, <3>1
  <2>4. CASE k # 0
    <3>1. k - 1 \in 0 .. Len(s) /\ k - 1 \notin Bad
      <4>1. k - 1 \in 0 .. Len(s) /\ ~(k <= k - 1)
        BY <1>1, <2>2, <2>4
      <4> HIDE DEF Bad
      <4> QED
        BY <2>1, <4>1
    <3>2. PICK f : Upto(f, k - 1)
      BY <3>1
    <3> DEFINE g == [n \in 0 .. k |-> IF n = k THEN TelemetryTaken(f[k - 1], s[k]) ELSE f[n]]
    <3>3. ASSUME NEW n \in 0 .. k
          PROVE  g[n] = IF n = 0 THEN Passed(b) ELSE TelemetryTaken(g[n - 1], s[n])
      <4>1. CASE n = k
        <5>1. g[n] = TelemetryTaken(f[k - 1], s[k]) /\ g[k - 1] = f[k - 1]
          BY <1>1, <2>2, <2>4, <4>1
        <5> QED
          BY <2>4, <4>1, <5>1
      <4>2. CASE n # k
        <5>1. n \in 0 .. k - 1
          BY <1>1, <2>2, <4>2
        <5>2. g[n] = f[n] /\ (n # 0 => g[n - 1] = f[n - 1])
          BY <1>1, <2>2, <5>1
        <5>3. f[n] = IF n = 0 THEN Passed(b) ELSE TelemetryTaken(f[n - 1], s[n])
          BY <3>2, <5>1
        <5> QED
          BY <5>2, <5>3
      <4> QED
        BY <4>1, <4>2
    <3>4. Upto(g, k)
      BY <3>3
    <3> QED
      BY <2>2, <3>4
  <2> QED
    BY <2>3, <2>4
<1>3. \E g : Taking(g, b, s)
  BY <1>1, <1>2 DEF Taking
<1> DEFINE h == CHOOSE f : Taking(f, b, s)
<1>4. Taking(h, b, s)
  BY <1>3
<1>5. Telemetry(b, s) = h[Len(s)]
  BY DEF Telemetry, Taking
<1> QED
  BY <1>4, <1>5

\* A frame's telemetry, message after message.
LEMMA TelemetryEffect ==
  ASSUME NEW b \in Boards, Linked(b), NEW o, o.telems \in Telems
  PROVE  LET a == Telemetry(b, o.telems)
         IN  /\ a \in Boards /\ Linked(a)
             /\ DOMAIN b.map \subseteq DOMAIN a.map
             /\ ~NDEBUG =>
                   /\ a.aborted = b.aborted
                   /\ DOMAIN a.map = DOMAIN b.map \cup Score!Heard(o)
                   /\ \A c : RowBefore(a, c) = Score!WithTelemetry(RowBefore(b, c), c, o)
             /\ Identified(b) => Identified(a)
             /\ DOMAIN a.map = DOMAIN b.map => Reached(a, b, Score!Heard(o))
<1> DEFINE s == o.telems
<1>1. s \in Seq(Messages) /\ Len(s) \in Nat /\ DOMAIN s = 1 .. Len(s)
  BY TelemetryBoardAssumption DEF Telems, BoundedSeq, SeqOf
<1>u. \A i, j \in 1 .. Len(s) : s[i].car = s[j].car => i = j
  BY <1>1 DEF Telems
<1>h. Score!Heard(o) = {s[i].car : i \in 1 .. Len(s)}
  BY <1>1 DEF Score!Heard
<1> HIDE DEF s
<1>2. CASE s = << >>
  <2>1. Score!Heard(o) = {}
    BY <1>1, <1>2, <1>h
  <2>2. \A r, c : Score!WithTelemetry(r, c, o) = r
    BY <1>2, <2>1 DEF Score!WithTelemetry, s
  <2>3. Telemetry(b, s) = b
    BY <1>2 DEF Telemetry
  <2>4. Reached(b, b, {})
    BY DEF Reached
  <2> QED
    BY <2>1, <2>2, <2>3, <2>4 DEF s
<1>3. CASE s # << >>
  <2> DEFINE heard(n) == {s[i].car : i \in 1 .. n}
  <2>1. PICK f : Taking(f, b, s) /\ Telemetry(b, s) = f[Len(s)]
    BY <1>1, <1>3, TakingExists
  <2>2. f[0] = Passed(b)
    BY <1>1, <2>1 DEF Taking
  <2>3. \A n \in 1 .. Len(s) : f[n] = TelemetryTaken(f[n - 1], s[n])
    BY <1>1, <2>1 DEF Taking
  <2> DEFINE Rows(n) ==
               /\ \A i \in 1 .. n : RowBefore(f[n], s[i].car)
                                      = Score!Told(RowBefore(b, s[i].car), s[i])
               /\ \A c : c \notin heard(n) => RowBefore(f[n], c) = Score!Older(RowBefore(b, c))
             Fine(n) ==
               LET a == f[n]
               IN  /\ a \in Boards /\ Linked(a)
                   /\ DOMAIN b.map \subseteq DOMAIN a.map
                   /\ ~NDEBUG => /\ a.aborted = b.aborted
                                 /\ DOMAIN a.map = DOMAIN b.map \cup heard(n)
                                 /\ Rows(n)
                   /\ Identified(b) => Identified(a)
                   /\ DOMAIN a.map = DOMAIN b.map => Reached(a, b, heard(n))
             Bad == {n \in 0 .. Len(s) : ~Fine(n)}
  <2>4. Fine(0)
    <3>1. heard(0) = {} /\ 1 .. 0 = {}
      OBVIOUS
    <3> HIDE DEF heard
    <3> QED
      BY <2>2, <3>1, PassedEffect
  <2>5. ASSUME NEW n \in 1 .. Len(s), Fine(n - 1)
        PROVE  Fine(n)
    <3>1. f[n - 1] \in Boards /\ Linked(f[n - 1])
      BY <2>5
    <3>2. s[n] \in Messages
      BY <1>1
    <3>3. f[n] = TelemetryTaken(f[n - 1], s[n])
      BY <2>3
    <3>4. /\ f[n] \in Boards /\ Linked(f[n])
          /\ DOMAIN f[n - 1].map \subseteq DOMAIN f[n].map
          /\ ~NDEBUG =>
                /\ DOMAIN f[n].map = DOMAIN f[n - 1].map \cup {s[n].car}
                /\ f[n].aborted = f[n - 1].aborted
                /\ \A c : RowBefore(f[n], c)
                            = IF c = s[n].car THEN Score!Told(RowBefore(f[n - 1], c), s[n])
                                              ELSE RowBefore(f[n - 1], c)
          /\ Identified(f[n - 1]) => Identified(f[n])
          /\ DOMAIN f[n].map = DOMAIN f[n - 1].map => Reached(f[n], f[n - 1], {s[n].car})
      BY <3>1, <3>2, <3>3, TakenEffect
    <3>5. DOMAIN b.map \subseteq DOMAIN f[n].map /\ (Identified(b) => Identified(f[n]))
      BY <2>5, <3>4
    <3>9. heard(n) = heard(n - 1) \cup {s[n].car}
      <4>1. \A i : i \in 1 .. n <=> i = n \/ i \in 1 .. n - 1
        BY <1>1
      <4> QED
        BY <4>1
    <3>10. \A i \in 1 .. n - 1 : s[i].car # s[n].car
      <4>1. \A i \in 1 .. n - 1 : i \in 1 .. Len(s) /\ i # n
        BY <1>1
      <4> QED
        BY <1>u, <4>1
    <3>11. s[n].car \notin heard(n - 1)
      BY <3>10
    <3>6. ASSUME ~NDEBUG
          PROVE  /\ f[n].aborted = b.aborted
                 /\ DOMAIN f[n].map = DOMAIN b.map \cup heard(n)
                 /\ Rows(n)
      <4>1. /\ f[n - 1].aborted = b.aborted
            /\ DOMAIN f[n - 1].map = DOMAIN b.map \cup heard(n - 1)
            /\ Rows(n - 1)
        BY <2>5, <3>6
      <4> HIDE DEF heard
      <4>2. RowBefore(f[n], s[n].car) = Score!Told(RowBefore(b, s[n].car), s[n])
        <5>1. RowBefore(f[n - 1], s[n].car) = Score!Older(RowBefore(b, s[n].car))
          BY <3>11, <4>1
        <5> QED
          BY <3>4, <3>6, <5>1, ToldAnyway
      <4>3. ASSUME NEW i \in 1 .. n
            PROVE  RowBefore(f[n], s[i].car) = Score!Told(RowBefore(b, s[i].car), s[i])
        <5>1. CASE i = n
          BY <4>2, <5>1
        <5>2. CASE i # n
          <6>1. i \in 1 .. n - 1
            BY <1>1, <5>2
          <6> QED
            BY <3>4, <3>6, <3>10, <4>1, <6>1
        <5> QED
          BY <5>1, <5>2
      <4>4. ASSUME NEW c, c \notin heard(n)
            PROVE  RowBefore(f[n], c) = Score!Older(RowBefore(b, c))
        BY <3>4, <3>6, <3>9, <4>1, <4>4
      <4> QED
        BY <3>4, <3>6, <3>9, <4>1, <4>3, <4>4
    <3>7. ASSUME DOMAIN f[n].map = DOMAIN b.map
          PROVE  Reached(f[n], b, heard(n))
      <4>1. DOMAIN f[n - 1].map = DOMAIN b.map
        BY <2>5, <3>4, <3>7
      <4>2. Reached(f[n - 1], b, heard(n - 1)) /\ Reached(f[n], f[n - 1], {s[n].car})
        BY <2>5, <3>4, <3>7, <4>1
      <4> HIDE DEF heard
      <4> QED
        BY <3>9, <4>1, <4>2, ReachedOn
    <3> HIDE DEF heard, Rows
    <3> QED
      BY <3>4, <3>5, <3>6, <3>7
  <2> HIDE DEF Fine
  <2>6. Bad = {}
    <3> SUFFICES ASSUME Bad # {}
                 PROVE  FALSE
      OBVIOUS
    <3>1. PICK k \in Bad : \A j \in Bad : k <= j
      <4>1. Bad \in SUBSET Nat
        BY <1>1
      <4> HIDE DEF Bad
      <4> QED
        BY <4>1, LeastExists
    <3>2. k \in 1 .. Len(s) /\ k - 1 \in 0 .. Len(s) /\ k - 1 \notin Bad
      BY <1>1, <2>4, <3>1
    <3> QED
      BY <2>5, <3>1, <3>2
  <2>7. Fine(Len(s))
    BY <1>1, <2>6
  <2>8. heard(Len(s)) = Score!Heard(o)
    BY <1>h
  <2>9. ASSUME ~NDEBUG, NEW c
        PROVE  RowBefore(f[Len(s)], c) = Score!WithTelemetry(RowBefore(b, c), c, o)
    <3>1. Rows(Len(s))
      BY <2>7, <2>9 DEF Fine
    <3>2. CASE c \in Score!Heard(o)
      <4>1. PICK i : i = CHOOSE k \in DOMAIN s : s[k].car = c
        OBVIOUS
      <4>2. i \in 1 .. Len(s) /\ s[i].car = c
        BY <1>1, <1>h, <3>2, <4>1
      <4>3. Score!WithTelemetry(RowBefore(b, c), c, o) = Score!Told(RowBefore(b, c), s[i])
        BY <3>2, <4>1 DEF Score!WithTelemetry, s
      <4> QED
        BY <3>1, <4>2, <4>3
    <3>3. CASE c \notin Score!Heard(o)
      <4>1. Score!WithTelemetry(RowBefore(b, c), c, o) = Score!Older(RowBefore(b, c))
        BY <1>3, <3>3 DEF Score!WithTelemetry, s
      <4> QED
        BY <2>8, <3>1, <3>3, <4>1
    <3> QED
      BY <3>2, <3>3
  <2> HIDE DEF heard, Rows
  <2> QED
    BY <2>1, <2>7, <2>8, <2>9 DEF Fine, s
<1> QED
  BY <1>2, <1>3

\* A distance is a number or not set.
LEMMA DistsType == Dists \subseteq Nat \cup {NONE}
BY TelemetryBoardAssumption

\* refresh, on a driver that is on the track: it stays the car's and its
\* distance; telemetry takes it to the distance's checkpoint, and is done with.
LEMMA RefreshEffect ==
  ASSUME NEW d \in BoardDriver, NEW o \in BoardObject, ~(o.new_telem /\ OffTrack(d))
  PROVE  /\ Refresh(d, o) \in BoardDriver
         /\ Refresh(d, o).car = d.car /\ Refresh(d, o).dist = d.dist
         /\ RowOf(Refresh(d, o)) = RowOf(d)
         /\ IF o.new_telem /\ d.dist # NONE THEN Refresh(d, o).cur = Quotient(d)
                                            ELSE Refresh(d, o).cur = d.cur
         /\ RefreshObject(d, o) \in BoardObject
         /\ ~RefreshObject(d, o).new_telem
<1> DEFINE e == [d EXCEPT !.in_pit = InPit(d, o)]
           t == RefreshTelemetry(d, o)
<1>1. /\ d \in BoardRecord /\ d.dist \in Nat \cup {NONE} /\ d.cur \in Places
      /\ d.times \in [Places -> TimedCheckpoint]
      /\ d.dist # NONE => d.time \in Times
      /\ Times \subseteq Nat /\ d.time \in Nat
  <2>1. d \in BoardRecord /\ (d.dist # NONE => d.time \in Times)
    BY DEF BoardDriver
  <2>2. /\ d.dist \in Dists \cup {NONE} /\ d.cur \in Places
        /\ d.times \in [Places -> TimedCheckpoint] /\ d.time \in Times \cup {0}
    BY <2>1 DEF BoardRecord
  <2>3. Times \subseteq Nat
    BY TelemetryBoardAssumption
  <2>4. d.dist \in Nat \cup {NONE}
    BY <2>2, DistsType
  <2>5. d.time \in Nat
    <3>1. d.time \in Times \/ d.time = 0
      BY <2>2, Zenon
    <3>2. CASE d.time \in Times
      BY <2>3, <3>2, Zenon
    <3>3. CASE d.time = 0
      BY <3>3, SMT
    <3> QED
      BY <3>1, <3>2, <3>3
  <2> QED
    BY <2>1, <2>2, <2>3, <2>4, <2>5, Zenon
<1>t. ASSUME NEW ts \in [Places -> TimedCheckpoint]
      PROVE  ts \in [Places -> CheckpointType]
  BY <1>1 DEF TimedCheckpoint, CheckpointType
<1>2. PICK p \in BOOLEAN : p = InPit(d, o)
  BY DEF InPit
<1>3. /\ e \in BoardDriver /\ e.car = d.car /\ e.dist = d.dist /\ e.cur = d.cur
      /\ e.times = d.times /\ e.time = d.time /\ RowOf(e) = RowOf(d)
  <2>1. e = [d EXCEPT !.in_pit = p]
    BY <1>2, Zenon
  <2> HIDE DEF e
  <2> QED
    BY <1>1, <2>1 DEF BoardDriver, BoardRecord, RowOf
<1>4. Quotient(e) = Quotient(d)
  BY <1>3 DEF Quotient
<1> HIDE DEF e
<1>5. /\ t \in BoardDriver /\ t.car = d.car /\ t.dist = d.dist /\ RowOf(t) = RowOf(d)
      /\ IF o.new_telem /\ d.dist # NONE THEN t.cur = Quotient(d) ELSE t.cur = d.cur
  <2>1. CASE ~o.new_telem
    BY <2>1 DEF RefreshTelemetry
  <2>2. CASE o.new_telem /\ (d.dist = NONE \/ Quotient(d) = d.cur)
    <3>1. t = e
      BY <1>3, <1>4, <2>2 DEF RefreshTelemetry, RefreshCheckpoint, e
    <3> QED
      BY <1>3, <2>2, <3>1
  <2>3. CASE o.new_telem /\ d.dist # NONE /\ Quotient(d) # d.cur
    <3>1. t = [e EXCEPT !.times = CheckpointTimes(e), !.last = e.cur, !.cur = Quotient(e)]
      BY <1>3, <1>4, <2>3 DEF RefreshTelemetry, RefreshCheckpoint, e
    <3>2. Quotient(e) \in Places
      <4>1. Quotient(d) \in Nat
        <5>1. d.dist \in Nat /\ OrZero(d.dist) = d.dist
          BY <1>1, <2>3 DEF OrZero
        <5> QED
          BY <5>1, Positive, DivMod DEF Quotient
      <4>2. Quotient(d) < Checkpoints
        BY <2>3, <4>1, CheckpointCount DEF OffTrack
      <4> QED
        BY <1>4, <4>1, <4>2, CheckpointCount DEF Places
    <3>3. CheckpointTimes(e) \in [Places -> TimedCheckpoint]
      <4>1. /\ CheckpointTimes(e) \in [Places -> CheckpointType]
            /\ \A k \in Places : CheckpointTimes(e)[k]
                                   \in {d.times[k], EmptyCheckpoint, Stamped(d.time)}
        BY <1>1, <1>t, <1>3, <3>2, CheckpointTimesType
      <4>2. EmptyCheckpoint \in TimedCheckpoint /\ Stamped(d.time) \in TimedCheckpoint
        BY <1>1, <2>3 DEF EmptyCheckpoint, Stamped, TimedCheckpoint
      <4>3. \A k \in Places : CheckpointTimes(e)[k] \in TimedCheckpoint
        BY <1>1, <4>1, <4>2
      <4> QED
        BY <4>1, <4>3
    <3>4. /\ t \in BoardDriver /\ t.car = e.car /\ t.dist = e.dist /\ t.cur = Quotient(e)
          /\ RowOf(t) = RowOf(e)
      <4> HIDE DEF t
      <4> QED
        BY <1>1, <1>3, <3>1, <3>2, <3>3 DEF BoardDriver, BoardRecord, RowOf
    <3> QED
      BY <1>3, <1>4, <2>3, <3>4
  <2> QED
    BY <2>1, <2>2, <2>3
<1>6. /\ Refresh(d, o) \in BoardDriver /\ Refresh(d, o).car = t.car
      /\ Refresh(d, o).dist = t.dist /\ Refresh(d, o).cur = t.cur
      /\ RowOf(Refresh(d, o)) = RowOf(t)
  <2>1. CASE ~NewLap(d, o)
    BY <1>5, <2>1 DEF Refresh
  <2>2. CASE NewLap(d, o)
    <3>1. Refresh(d, o) = [t EXCEPT !.times = Aged(t.times)]
      BY <2>2 DEF Refresh
    <3> HIDE DEF t
    <3>2. t.times \in [Places -> TimedCheckpoint]
      BY <1>5 DEF BoardDriver, BoardRecord
    <3>3. PICK a \in [Places -> TimedCheckpoint] : a = Aged(t.times)
      <4>1. /\ Aged(t.times) \in [Places -> CheckpointType]
            /\ \A k \in Places : Aged(t.times)[k].time = t.times[k].time
        BY <1>t, <3>2, AgedType
      <4>2. \A k \in Places : Aged(t.times)[k] \in TimedCheckpoint
        BY <3>2, <4>1 DEF CheckpointType, TimedCheckpoint
      <4> QED
        BY <4>1, <4>2
    <3>4. Refresh(d, o) = [t EXCEPT !.times = a]
      BY <3>1, <3>3
    <3> QED
      BY <1>5, <3>4 DEF BoardDriver, BoardRecord, RowOf
  <2> QED
    BY <2>1, <2>2
<1>7. RefreshObject(d, o) \in BoardObject /\ ~RefreshObject(d, o).new_telem
  <2>1. o.pit_count \in Nat /\ PitCount(d, o) \in Nat
    BY Positive DEF BoardObject, PitCount
  <2>2. d.laps \in Nat \cup {NONE} /\ o.cur_laps \in Nat
    BY DEF BoardDriver, BoardRecord, BoardObject
  <2>3. PICK n \in Nat : n = IF o.new_telem THEN PitCount(d, o) ELSE o.pit_count
    BY <2>1
  <2>4. PICK l \in Nat : l = IF NewLap(d, o) THEN d.laps ELSE o.cur_laps
    BY <2>2 DEF NewLap
  <2>5. RefreshObject(d, o) = [o EXCEPT !.pit_count = n, !.new_telem = FALSE, !.cur_laps = l]
    BY <2>3, <2>4 DEF RefreshObject
  <2> QED
    BY <2>5 DEF BoardObject
<1> QED
  BY <1>5, <1>6, <1>7

\* Every driver is refreshed, unless one is off the track.
LEMMA RefreshedEffect ==
  ASSUME NEW b \in Boards, Linked(b)
  PROVE  LET a == Refreshed(b)
         IN  /\ a \in Boards /\ Linked(a) /\ a.map = b.map
             /\ \A c : RowBefore(a, c) = RowBefore(b, c)
             /\ a.aborted /\ ~b.aborted =>
                  \E i \in DOMAIN a.places :
                     a.places[i].object.new_telem /\ OffTrack(a.places[i].driver)
             /\ Identified(b) => Identified(a)
             /\ ~a.aborted => \A c \in DOMAIN b.map : LagsOn(a, c) => LagsOn(b, c) /\ ~Waits(b, c)
<1> DEFINE a == Refreshed(b)
           bad == \E i \in DOMAIN b.places :
                    b.places[i].object.new_telem /\ OffTrack(b.places[i].driver)
           s == [i \in DOMAIN b.places |->
                   [driver |-> Refresh(b.places[i].driver, b.places[i].object),
                    object |-> RefreshObject(b.places[i].driver, b.places[i].object)]]
<1>1. b.places \in Seq(BoardPlace) /\ b.aborted \in BOOLEAN /\ b.map \in CarMaps
  BY DEF Boards
<1>2. DOMAIN b.places = 1 .. Len(b.places) /\ Len(b.places) \in Nat
  BY <1>1
<1>t. ASSUME NEW i \in DOMAIN b.places
      PROVE  b.places[i].driver \in BoardDriver /\ b.places[i].object \in BoardObject
  <2>1. b.places[i] \in BoardPlace
    BY <1>1
  <2> QED
    BY <2>1 DEF BoardPlace
<1>3. CASE bad
  <2>1. a = [b EXCEPT !.aborted = TRUE]
    BY <1>3 DEF Refreshed
  <2>2. a \in Boards /\ a.places = b.places /\ a.map = b.map /\ a.aborted
    BY <2>1 DEF Boards
  <2>3. Linked(a) /\ (Identified(b) => Identified(a))
    BY <2>2 DEF Linked, Identified
  <2> QED
    BY <1>3, <2>2, <2>3 DEF RowBefore, Row
<1>4. CASE ~bad
  <2>1. a = [b EXCEPT !.places = s]
    BY <1>4 DEF Refreshed
  <2>2. ASSUME NEW i \in DOMAIN b.places
        PROVE  /\ s[i] \in BoardPlace
               /\ s[i].driver.car = b.places[i].driver.car
               /\ s[i].driver.dist = b.places[i].driver.dist
               /\ RowOf(s[i].driver) = RowOf(b.places[i].driver)
               /\ IF b.places[i].object.new_telem /\ b.places[i].driver.dist # NONE
                    THEN s[i].driver.cur = Quotient(b.places[i].driver)
                    ELSE s[i].driver.cur = b.places[i].driver.cur
               /\ ~s[i].object.new_telem
    <3>1. PICK d \in BoardDriver, o \in BoardObject :
            d = b.places[i].driver /\ o = b.places[i].object
      BY <1>t
    <3>2. ~(o.new_telem /\ OffTrack(d))
      BY <1>4, <3>1
    <3>3. s[i] = [driver |-> Refresh(d, o), object |-> RefreshObject(d, o)]
      BY <3>1
    <3> HIDE DEF s
    <3>4. /\ Refresh(d, o) \in BoardDriver
          /\ Refresh(d, o).car = d.car /\ Refresh(d, o).dist = d.dist
          /\ RowOf(Refresh(d, o)) = RowOf(d)
          /\ IF o.new_telem /\ d.dist # NONE THEN Refresh(d, o).cur = Quotient(d)
                                             ELSE Refresh(d, o).cur = d.cur
          /\ RefreshObject(d, o) \in BoardObject
          /\ ~RefreshObject(d, o).new_telem
      BY <3>2, RefreshEffect
    <3> QED
      BY <3>1, <3>3, <3>4 DEF BoardPlace
  <2>3. s \in Seq(BoardPlace) /\ DOMAIN s = DOMAIN b.places
    <3>1. s \in [1 .. Len(b.places) -> BoardPlace]
      BY <1>2, <2>2
    <3> HIDE DEF s
    <3> QED
      BY <1>2, <3>1
  <2> HIDE DEF a, s
  <2>4. a \in Boards /\ a.places = s /\ a.map = b.map /\ a.aborted = b.aborted
    BY <2>1, <2>3 DEF Boards
  <2>5. Linked(a) /\ (Identified(b) => Identified(a))
    BY <2>2, <2>3, <2>4 DEF Linked, Identified
  <2>6. ASSUME NEW c \in DOMAIN b.map, LagsOn(a, c)
        PROVE  LagsOn(b, c) /\ ~Waits(b, c)
    <3>1. PICK i \in DOMAIN b.places : i = b.map[c]
      BY DEF Linked
    <3>2. s[i].driver.dist # NONE /\ s[i].driver.cur # Quotient(s[i].driver)
      BY <2>4, <2>6, <3>1 DEF LagsOn
    <3>3. Quotient(s[i].driver) = Quotient(b.places[i].driver)
      BY <2>2 DEF Quotient
    <3> QED
      BY <2>2, <3>1, <3>2, <3>3 DEF LagsOn, Waits
  <2>8. \A c : RowBefore(a, c) = RowBefore(b, c)
    BY <2>2, <2>4 DEF Linked, Row, RowBefore
  <2> QED
    BY <2>4, <2>5, <2>6, <2>8 DEF a
<1> QED
  BY <1>3, <1>4

-------------------------------------------------------------------------------
(* Frames and drawings.                                                    *)

\* What every distance of the feed lies on.
OnTrack == \A d \in Dists : OrZero(d) \div CHECKPOINT_DIST < Checkpoints

\* Then no driver is off it.
LEMMA NobodyOffTrack == OnTrack => \A d \in BoardDriver : ~OffTrack(d)
<1> SUFFICES ASSUME OnTrack, NEW d \in BoardDriver, d.dist # NONE
             PROVE  ~(Quotient(d) >= Checkpoints)
  BY DEF OffTrack
<1>1. d.dist \in Dists /\ d.dist \in Nat /\ OrZero(d.dist) = d.dist
  BY DistsType DEF BoardDriver, BoardRecord, OrZero
<1>2. Quotient(d) \in Nat /\ Quotient(d) < Checkpoints
  BY <1>1, Positive, DivMod DEF OnTrack, Quotient
<1> QED
  BY <1>2, CheckpointCount

\* What a frame is about.  Unless a result may come before telemetry, it is cars
\* of the map and of the frame's own messages.
LEMMA FrameType ==
  ASSUME NEW f \in Frames, DOMAIN map \subseteq Cars
  PROVE  /\ f.telems \in Telems
         /\ f.result \in [car : Cars, rank : Ranks, laps : Nat] \cup {NONE}
         /\ f.lap \in Cars \cup {NONE}
         /\ ~ResultsFirst =>
               /\ f.result # NONE => f.result.car
                    \in DOMAIN map \cup {f.telems[i].car : i \in DOMAIN f.telems}
               /\ f.lap # NONE => f.lap
                    \in DOMAIN map \cup {f.telems[i].car : i \in DOMAIN f.telems}
<1>1. PICK s \in Telems : f \in [track : {FALSE, ~tracked}, telems : {s},
                                result : ResultsOf(Known(s)) \cup {NONE},
                                lap : Known(s) \cup {NONE}]
  BY DEF Frames
<1>2. /\ f.telems = s /\ f.result \in ResultsOf(Known(s)) \cup {NONE}
      /\ f.lap \in Known(s) \cup {NONE}
  BY <1>1
<1>3. Known(s) \subseteq Cars
  <2>1. s \in Seq(Messages)
    BY TelemetryBoardAssumption DEF Telems, BoundedSeq, SeqOf
  <2>2. \A i \in DOMAIN s : s[i].car \in Cars
    <3>1. ASSUME NEW i \in DOMAIN s
          PROVE  s[i].car \in Cars
      <4>1. s[i] \in Messages
        BY <2>1
      <4> QED
        BY <4>1 DEF Messages
    <3> QED
      BY <3>1
  <2> QED
    BY <2>2 DEF Known
<1>4. ASSUME NEW r \in ResultsOf(Known(s))
      PROVE  r \in [car : Cars, rank : Ranks, laps : Nat] /\ r.car \in Known(s)
  BY <1>3, TelemetryBoardAssumption DEF ResultsOf
<1>5. ~ResultsFirst => Known(s) = DOMAIN map \cup {s[i].car : i \in DOMAIN s}
  BY DEF Known
<1> QED
  BY <1>1, <1>2, <1>3, <1>4, <1>5

\* The row of car c after a frame, when it was r.
RowAfter(r, c, o) == Score!WithResult(Score!WithTelemetry(r, c, o), c, o)

\* inform_new_frame, from the telemetry to the refresh.  Every row follows the frame;
\* only a driver off the track ends it; and when nobody is new, everyone heard from
\* is refreshed.
LEMMA InformedEffect ==
  ASSUME NEW b \in Boards, Linked(b), b.map = map, ~b.aborted, NEW f \in Frames
  PROVE  LET a == Informed(b, f)
             o == OfCars(f)
         IN  /\ a \in Boards /\ Linked(a)
             /\ ~NDEBUG =>
                   /\ a.aborted => \E i \in DOMAIN a.places :
                                      /\ a.places[i].object.new_telem
                                      /\ OffTrack(a.places[i].driver)
                   /\ DOMAIN a.map = DOMAIN b.map \cup Score!Named(o)
                   /\ \A c : RowBefore(a, c) = RowAfter(RowBefore(b, c), c, o)
                   /\ ~ResultsFirst /\ Identified(b) => Identified(a)
             /\ ~a.aborted /\ DOMAIN a.map = DOMAIN b.map =>
                   \A c \in DOMAIN b.map : LagsOn(a, c) => LagsOn(b, c) /\ c \notin Score!Heard(o)
<1> DEFINE o == OfCars(f)
           t == Telemetry(b, o.telems)
           r == Results(t, o.result)
           l == CompletedLap(r, o.lap)
           a == Informed(b, f)
<1>o. o.telems = f.telems /\ o.result = f.result /\ o.lap = f.lap
  BY DEF OfCars
<1>1. /\ o.telems \in Telems
      /\ o.result \in [car : Cars, rank : Ranks, laps : Nat] \cup {NONE}
      /\ o.lap \in Cars \cup {NONE}
      /\ ~ResultsFirst =>
            /\ o.result # NONE => o.result.car \in DOMAIN map \cup Score!Heard(o)
            /\ o.lap # NONE => o.lap \in DOMAIN map \cup Score!Heard(o)
  <2>1. DOMAIN map \subseteq Cars
    BY DEF Linked
  <2>2. Score!Heard(o) = {f.telems[i].car : i \in DOMAIN f.telems}
    BY <1>o DEF Score!Heard
  <2> HIDE DEF o
  <2> QED
    BY <1>o, <2>1, <2>2, FrameType
<1>7. a = IF l.aborted THEN l ELSE Refreshed(l)
  BY <1>o DEF Informed
<1> HIDE DEF o, a
<1>2. /\ t \in Boards /\ Linked(t)
      /\ DOMAIN b.map \subseteq DOMAIN t.map
      /\ ~NDEBUG => /\ t.aborted = b.aborted
                    /\ DOMAIN t.map = DOMAIN b.map \cup Score!Heard(o)
                    /\ \A c : RowBefore(t, c) = Score!WithTelemetry(RowBefore(b, c), c, o)
      /\ Identified(b) => Identified(t)
      /\ DOMAIN t.map = DOMAIN b.map => Reached(t, b, Score!Heard(o))
  BY <1>1, TelemetryEffect
<1> HIDE DEF t
<1>3. /\ r \in Boards /\ Linked(r)
      /\ DOMAIN t.map \subseteq DOMAIN r.map
      /\ ~NDEBUG =>
            /\ r.aborted = t.aborted
            /\ DOMAIN r.map = DOMAIN t.map \cup (IF o.result = NONE THEN {} ELSE {o.result.car})
            /\ \A c : RowBefore(r, c) = IF o.result # NONE /\ c = o.result.car
                                          THEN Scored(RowBefore(t, c), o.result)
                                          ELSE RowBefore(t, c)
      /\ DOMAIN r.map = DOMAIN t.map => (Identified(t) => Identified(r)) /\ Reached(r, t, {})
  BY <1>1, <1>2, ResultsEffect
<1> HIDE DEF r
<1>4. /\ l \in Boards /\ Linked(l)
      /\ DOMAIN r.map \subseteq DOMAIN l.map
      /\ ~NDEBUG =>
            /\ l.aborted = r.aborted
            /\ DOMAIN l.map = DOMAIN r.map \cup (IF o.lap = NONE THEN {} ELSE {o.lap})
            /\ \A c : RowBefore(l, c) = RowBefore(r, c)
      /\ DOMAIN l.map = DOMAIN r.map => (Identified(r) => Identified(l)) /\ Reached(l, r, {})
  BY <1>1, <1>3, CompletedLapEffect
<1> HIDE DEF l
<1>5. LET n == Refreshed(l)
      IN  /\ n \in Boards /\ Linked(n) /\ n.map = l.map
          /\ \A c : RowBefore(n, c) = RowBefore(l, c)
          /\ n.aborted /\ ~l.aborted =>
               \E i \in DOMAIN n.places :
                  n.places[i].object.new_telem /\ OffTrack(n.places[i].driver)
          /\ Identified(l) => Identified(n)
          /\ ~n.aborted => \A c \in DOMAIN l.map : LagsOn(n, c) => LagsOn(l, c) /\ ~Waits(l, c)
  BY <1>4, RefreshedEffect
<1>6. /\ a \in Boards /\ Linked(a) /\ a.map = l.map
      /\ \A c : RowBefore(a, c) = RowBefore(l, c)
      /\ Identified(l) => Identified(a)
  BY <1>4, <1>5, <1>7
<1>8. ~NDEBUG => l.aborted = b.aborted
  BY <1>2, <1>3, <1>4
<1>9. ASSUME ~NDEBUG, a.aborted
      PROVE  \E i \in DOMAIN a.places :
                a.places[i].object.new_telem /\ OffTrack(a.places[i].driver)
  BY <1>5, <1>7, <1>8, <1>9
<1>10. ~NDEBUG => DOMAIN a.map = DOMAIN b.map \cup Score!Named(o)
  BY <1>2, <1>3, <1>4, <1>6 DEF Score!Named
<1>11. ASSUME ~NDEBUG, NEW c
       PROVE  RowBefore(a, c) = RowAfter(RowBefore(b, c), c, o)
  <2>1. RowBefore(a, c) = RowBefore(r, c)
    BY <1>4, <1>6, <1>11
  <2>2. RowBefore(t, c) = Score!WithTelemetry(RowBefore(b, c), c, o)
    BY <1>2, <1>11
  <2>3. RowBefore(r, c) = IF o.result # NONE /\ c = o.result.car
                            THEN Scored(RowBefore(t, c), o.result) ELSE RowBefore(t, c)
    BY <1>3, <1>11
  <2>4. \A w : Score!WithResult(w, c, o) = IF o.result # NONE /\ c = o.result.car
                                             THEN Scored(w, o.result) ELSE w
    BY DEF Score!WithResult, Scored
  <2> QED
    BY <2>1, <2>2, <2>3, <2>4 DEF RowAfter
<1>12. ASSUME ~NDEBUG, ~ResultsFirst, Identified(b)
       PROVE  Identified(a)
  <2>1. DOMAIN t.map = DOMAIN map \cup Score!Heard(o)
    BY <1>2, <1>12
  <2>2. DOMAIN r.map = DOMAIN t.map
    BY <1>1, <1>3, <1>12, <2>1
  <2>3. DOMAIN l.map = DOMAIN r.map
    BY <1>1, <1>4, <1>12, <2>1, <2>2
  <2> QED
    BY <1>2, <1>3, <1>4, <1>6, <1>12, <2>2, <2>3
<1>13. ASSUME ~a.aborted, DOMAIN a.map = DOMAIN b.map, NEW c \in DOMAIN b.map, LagsOn(a, c)
       PROVE  LagsOn(b, c) /\ c \notin Score!Heard(o)
  <2>1. /\ DOMAIN t.map = DOMAIN b.map /\ DOMAIN r.map = DOMAIN t.map
        /\ DOMAIN l.map = DOMAIN r.map
    BY <1>2, <1>3, <1>4, <1>6, <1>13
  <2>2. Reached(r, b, Score!Heard(o) \cup {})
    BY <1>2, <1>3, <2>1, ReachedOn
  <2>3. Reached(l, b, Score!Heard(o) \cup {} \cup {})
    BY <1>4, <2>1, <2>2, ReachedOn
  <2>4. LagsOn(l, c) /\ ~Waits(l, c)
    BY <1>5, <1>7, <1>13, <2>1
  <2> QED
    BY <2>3, <2>4 DEF Reached
<1> QED
  BY <1>6, <1>9, <1>10, <1>11, <1>12, <1>13 DEF a, o

\* The board between two steps.
Board == [places |-> places, map |-> map, aborted |-> FALSE]

\* Map and vector are linked unless an assertion failed while drawing; nobody is
\* without telemetry if telemetry comes first; what was said has been drawn before
\* the next frame; and the program ends for a reason.
BoardInv ==
    /\ Board \in Boards /\ aborted \in BOOLEAN
    /\ ~aborted \/ (~NDEBUG /\ ~ResultsFirst) => Linked(Board)
    /\ ~NDEBUG /\ ~ResultsFirst => Identified(Board)
    /\ turn = "inform" => said = Silence
    /\ AbortsHaveCause

\* What a step has to leave: a board n with the places and the map that follow.
LEMMA BoardNextInv ==
  ASSUME NEW n, n \in Boards, places' = n.places, map' = n.map, aborted' \in BOOLEAN,
         ~aborted' \/ (~NDEBUG /\ ~ResultsFirst) => Linked(n),
         ~NDEBUG /\ ~ResultsFirst => Identified(n),
         turn' = "inform" => said' = Silence,
         AbortsHaveCause'
  PROVE  BoardInv'
<1>1. PICK m : m = [places |-> n.places, map |-> n.map, aborted |-> FALSE]
  OBVIOUS
<1>2. m \in Boards /\ m.places = n.places /\ m.map = n.map
  BY <1>1 DEF Boards
<1>3. (Linked(n) => Linked(m)) /\ (Identified(n) => Identified(m))
  BY <1>2 DEF Linked, Identified
<1>4. Board' = m
  BY <1>1 DEF Board
<1>5. Silence' = Silence
  BY DEF Silence
<1>6. Linked(m) <=> Linked(Board)'
  BY <1>4 DEF Linked
<1>7. Identified(m) <=> Identified(Board)'
  BY <1>4 DEF Identified
<1> QED
  BY <1>2, <1>3, <1>4, <1>6, <1>7 DEF BoardInv

\* The board starts empty.
LEMMA BoardStarts == BoardInit => BoardInv
<1> SUFFICES ASSUME BoardInit
             PROVE  BoardInv
  OBVIOUS
<1>1. places = << >> /\ map = << >> /\ aborted = FALSE /\ said = Silence
  BY DEF BoardInit
<1>2. Board.places = << >> /\ Board.map = << >> /\ DOMAIN << >> = {}
  BY <1>1 DEF Board
<1>3. << >> \in CarMaps
  <2>1. << >> \in [{} -> Nat]
    OBVIOUS
  <2>2. {} \in SUBSET Cars
    OBVIOUS
  <2> QED
    BY <2>1, <2>2 DEF CarMaps
<1>4. Board \in Boards
  BY <1>1, <1>3 DEF Board, Boards
<1>5. AbortsHaveCause
  BY <1>1 DEF AbortsHaveCause
<1> QED
  BY <1>1, <1>2, <1>4, <1>5 DEF BoardInv, Linked, Identified

\* What a frame does to the board, when the track's length is known.
InformedBy(f, a) ==
    /\ a = Informed(Board, f)
    /\ places' = a.places /\ map' = a.map /\ aborted' = a.aborted
    /\ said' = OfCars(f)

\* And in any case.
LEMMA InformCases ==
  ASSUME BoardInv, Inform
  PROVE  /\ ~aborted /\ said = Silence /\ turn' = "draw"
         /\ Board \in Boards /\ Linked(Board) /\ Board.map = map /\ Board.aborted = FALSE
         /\ Board.places = places
         /\ \/ UNCHANGED <<places, map, aborted, said>>
            \/ \E f \in Frames : \E a : InformedBy(f, a)
<1>1. PICK f \in Frames :
         IF tracked'
           THEN LET b == Informed([places |-> places, map |-> map, aborted |-> FALSE], f)
                IN  /\ places' = b.places /\ map' = b.map
                    /\ aborted' = b.aborted
                    /\ said' = OfCars(f)
           ELSE UNCHANGED <<places, map, aborted, said>>
  BY DEF Inform
<1>2. /\ ~aborted /\ Board \in Boards /\ Linked(Board)
      /\ Board.places = places /\ Board.map = map /\ Board.aborted = FALSE
  BY DEF Inform, BoardInv, Board
<1>3. said = Silence /\ turn' = "draw"
  BY DEF Inform, BoardInv
<1>4. CASE tracked'
  BY <1>1, <1>2, <1>3, <1>4 DEF InformedBy, Board
<1> QED
  BY <1>1, <1>2, <1>3, <1>4

\* A frame.
LEMMA InformKeeps == BoardInv /\ Inform => BoardInv'
<1> SUFFICES ASSUME BoardInv, Inform
             PROVE  BoardInv'
  OBVIOUS
<1>2. /\ ~aborted /\ turn' = "draw" /\ Board \in Boards /\ Linked(Board)
      /\ Board.places = places /\ Board.map = map /\ Board.aborted = FALSE
  BY InformCases
<1>3. CASE UNCHANGED <<places, map, aborted, said>>
  <2>1. AbortsHaveCause' /\ aborted' \in BOOLEAN
    BY <1>2, <1>3 DEF AbortsHaveCause, BoardInv
  <2> QED
    BY <1>2, <1>3, <2>1, BoardNextInv DEF BoardInv
<1>4. ASSUME NEW f \in Frames, NEW a, InformedBy(f, a)
      PROVE  BoardInv'
  <2>2. a = Informed(Board, f) /\ places' = a.places /\ map' = a.map /\ aborted' = a.aborted
    BY <1>4 DEF InformedBy
  <2>3. /\ a \in Boards /\ Linked(a)
        /\ ~NDEBUG =>
              /\ a.aborted => \E i \in DOMAIN a.places :
                                 /\ a.places[i].object.new_telem
                                 /\ OffTrack(a.places[i].driver)
              /\ ~ResultsFirst /\ Identified(Board) => Identified(a)
    BY <1>2, <2>2, InformedEffect
  <2>5. aborted' \in BOOLEAN
    BY <2>2, <2>3 DEF Boards
  <2>6. AbortsHaveCause'
    BY <1>2, <2>2, <2>3 DEF AbortsHaveCause
  <2> QED
    BY <1>2, <2>2, <2>3, <2>5, <2>6, BoardNextInv DEF BoardInv
<1> QED
  BY <1>3, <1>4, InformCases

\* std::sort: every driver is somewhere, in a place with an object of its own.
LEMMA SortedEffect ==
  ASSUME NEW ps \in Seq(BoardPlace), NEW s \in Sorted(ps)
  PROVE  /\ s \in Seq(BoardPlace) /\ Len(s) = Len(ps)
         /\ \A i \in DOMAIN ps : s[i].object = ps[i].object
         /\ \E p \in Bijection(DOMAIN ps, DOMAIN ps) :
              \A i \in DOMAIN ps : s[i].driver = ps[p[i]].driver
<1>1. PICK p \in Bijection(DOMAIN ps, DOMAIN ps) :
        s = [i \in DOMAIN ps |-> [ps[i] EXCEPT !.driver = ps[p[i]].driver]]
  BY DEF Sorted
<1>2. DOMAIN ps = 1 .. Len(ps) /\ Len(ps) \in Nat
  OBVIOUS
<1>3. ASSUME NEW i \in DOMAIN ps
      PROVE  /\ s[i] \in BoardPlace /\ s[i].object = ps[i].object
             /\ s[i].driver = ps[p[i]].driver
  <2>1. p[i] \in DOMAIN ps
    BY DEF Bijection, Injection
  <2>2. ps[i] \in BoardPlace /\ ps[p[i]] \in BoardPlace
    BY <2>1
  <2>3. s[i] = [ps[i] EXCEPT !.driver = ps[p[i]].driver]
    BY <1>1
  <2> QED
    BY <2>2, <2>3 DEF BoardPlace
<1>4. s \in Seq(BoardPlace) /\ Len(s) = Len(ps)
  <2>1. s \in [1 .. Len(ps) -> BoardPlace]
    BY <1>1, <1>2, <1>3
  <2> QED
    BY <1>2, <2>1
<1> QED
  BY <1>3, <1>4

\* The gaps are the object's.
LEMMA WithGapsEffect ==
  ASSUME NEW s \in Seq(BoardPlace)
  PROVE  /\ WithGaps(s) \in Seq(BoardPlace) /\ Len(WithGaps(s)) = Len(s)
         /\ \A i \in DOMAIN s :
               /\ WithGaps(s)[i].driver = s[i].driver
               /\ WithGaps(s)[i].object.new_telem = s[i].object.new_telem
<1> DEFINE w == WithGaps(s)
<1>1. DOMAIN s = 1 .. Len(s) /\ Len(s) \in Nat
  OBVIOUS
<1>2. ASSUME NEW i \in DOMAIN s
      PROVE  /\ w[i] \in BoardPlace /\ w[i].driver = s[i].driver
             /\ w[i].object.new_telem = s[i].object.new_telem
  <2>1. s[i] \in BoardPlace
    OBVIOUS
  <2>2. CASE i = 1
    BY <2>1, <2>2 DEF WithGaps
  <2>3. CASE i # 1
    <3>1. PICK o \in BoardObject, c \in Cars \cup {NONE} :
            o = s[i].object /\ c = s[i].driver.car
      BY <2>1 DEF BoardPlace, BoardDriver, BoardRecord
    <3>2. PICK g \in Cars \cup {NONE} :
            g = IF Comparable(s[i].driver, s[1].driver) THEN s[i].driver.car ELSE o.gap
      BY <3>1 DEF BoardObject
    <3>3. PICK v \in Cars \cup {NONE} :
            v = IF Comparable(s[i].driver, s[i - 1].driver) THEN s[i].driver.car
                ELSE o.interval
      BY <3>1 DEF BoardObject
    <3>4. w[i] = [s[i] EXCEPT
                   !.object.gap = IF Comparable(s[i].driver, s[1].driver)
                                    THEN s[i].driver.car ELSE @,
                   !.object.interval = IF Comparable(s[i].driver, s[i - 1].driver)
                                         THEN s[i].driver.car ELSE @]
      BY <2>3 DEF WithGaps
    <3> HIDE DEF w
    <3>5. w[i] = [s[i] EXCEPT !.object = [o EXCEPT !.gap = g, !.interval = v]]
      BY <2>1, <3>1, <3>2, <3>3, <3>4 DEF BoardPlace, BoardObject
    <3>6. [o EXCEPT !.gap = g, !.interval = v] \in BoardObject
      BY DEF BoardObject
    <3>7. [o EXCEPT !.gap = g, !.interval = v].new_telem = o.new_telem
      BY DEF BoardObject
    <3> QED
      BY <2>1, <3>1, <3>5, <3>6, <3>7 DEF BoardPlace
  <2> QED
    BY <2>2, <2>3
<1>3. DOMAIN w = 1 .. Len(s)
  BY <1>1 DEF WithGaps
<1>4. w \in [1 .. Len(s) -> BoardPlace]
  <2>1. w = [i \in 1 .. Len(s) |-> w[i]]
    BY <1>1 DEF WithGaps
  <2> HIDE DEF w
  <2> QED
    BY <1>1, <1>2, <2>1
<1> HIDE DEF w
<1>5. w \in Seq(BoardPlace) /\ Len(w) = Len(s)
  BY <1>1, <1>4
<1> QED
  BY <1>2, <1>5 DEF w

\* After a sort in which the map knows every car, it is told where each now is.
LEMMA ReassociatedEffect ==
  ASSUME NEW b \in Boards, Linked(b), NEW s \in Sorted(b.places),
         CarsOf(s) \subseteq DOMAIN b.map
  PROVE  LET n == [places |-> WithGaps(s), map |-> Reassociated(b.map, s),
                   aborted |-> FALSE]
         IN  /\ n \in Boards /\ Linked(n) /\ Identified(n)
             /\ DOMAIN n.map = DOMAIN b.map
             /\ \A c \in DOMAIN b.map : n.places[n.map[c]].driver = b.places[b.map[c]].driver
<1> DEFINE w == WithGaps(s)
           m == Reassociated(b.map, s)
           Car(i) == b.places[i].driver.car
<1>1. b.places \in Seq(BoardPlace) /\ b.map \in CarMaps /\ DOMAIN b.map \subseteq Cars
  BY DEF Boards, Linked
<1>2. /\ s \in Seq(BoardPlace) /\ Len(s) = Len(b.places)
      /\ DOMAIN s = DOMAIN b.places
  BY <1>1, SortedEffect
<1>3. PICK p \in Bijection(DOMAIN b.places, DOMAIN b.places) :
        \A i \in DOMAIN b.places : s[i].driver = b.places[p[i]].driver
  BY <1>1, SortedEffect
<1>4. /\ \A i \in DOMAIN s : p[i] \in DOMAIN s
      /\ \A i, j \in DOMAIN s : p[i] = p[j] => i = j
      /\ \A j \in DOMAIN s : \E i \in DOMAIN s : p[i] = j
  BY <1>2, <1>3 DEF Bijection, Injection, Surjection, IsInjective
<1>5. /\ w \in Seq(BoardPlace) /\ Len(w) = Len(s) /\ DOMAIN w = DOMAIN s
      /\ \A i \in DOMAIN s : w[i].driver = s[i].driver
  BY <1>2, WithGapsEffect
<1>6. ASSUME NEW j \in DOMAIN s
      PROVE  Car(j) \in DOMAIN b.map /\ b.map[Car(j)] = j
  <2>1. PICK i \in DOMAIN s : p[i] = j
    BY <1>4
  <2>2. Car(j) \in DOMAIN b.map
    BY <1>2, <1>3, <2>1 DEF CarsOf
  <2>3. PICK c \in DOMAIN b.map : b.map[c] = j
    BY <1>2 DEF Linked
  <2>4. Car(j) \in {c, NONE}
    BY <2>3 DEF Linked
  <2>5. Car(j) # NONE
    BY <1>1, <2>2, TelemetryBoardAssumption
  <2> QED
    BY <2>2, <2>3, <2>4, <2>5
<1>7. \A i, j \in DOMAIN s : s[i].driver.car = s[j].driver.car => i = j
  <2> SUFFICES ASSUME NEW i \in DOMAIN s, NEW j \in DOMAIN s,
                      s[i].driver.car = s[j].driver.car
               PROVE  i = j
    OBVIOUS
  <2>1. Car(p[i]) = Car(p[j])
    BY <1>2, <1>3
  <2>2. p[i] = p[j]
    BY <1>4, <1>6, <2>1
  <2> QED
    BY <1>4, <2>2
<1>8. ASSUME NEW c \in DOMAIN b.map
      PROVE  /\ m[c] \in DOMAIN s /\ s[m[c]].driver.car = c
             /\ s[m[c]].driver = b.places[b.map[c]].driver
  <2>1. b.map[c] \in DOMAIN s /\ Car(b.map[c]) \in {c, NONE}
    BY <1>2 DEF Linked
  <2>2. Car(b.map[c]) = c
    BY <1>1, <1>6, <2>1, TelemetryBoardAssumption
  <2>3. PICK i \in DOMAIN s : p[i] = b.map[c]
    BY <1>4, <2>1
  <2>4. s[i].driver.car = c
    BY <1>2, <1>3, <2>2, <2>3
  <2>5. c \in CarsOf(s)
    BY <2>4 DEF CarsOf
  <2>6. m[c] = CHOOSE k \in DOMAIN s : s[k].driver.car = c
    BY <2>5 DEF Reassociated
  <2>7. m[c] \in DOMAIN s /\ s[m[c]].driver.car = c
    BY <2>4, <2>6
  <2> QED
    BY <1>2, <1>3, <1>7, <2>3, <2>4, <2>7
<1>9. DOMAIN m = DOMAIN b.map
  BY DEF Reassociated
<1>10. m \in CarMaps
  <2>1. m \in [DOMAIN b.map -> Nat]
    <3>1. m = [c \in DOMAIN b.map |-> m[c]]
      BY DEF Reassociated
    <3>2. \A i \in DOMAIN s : i \in Nat
      BY <1>2
    <3> HIDE DEF m
    <3> QED
      BY <1>8, <3>1, <3>2
  <2> HIDE DEF m
  <2> QED
    BY <1>1, <2>1 DEF CarMaps
<1> DEFINE n == [places |-> w, map |-> m, aborted |-> FALSE]
<1> HIDE DEF w, m
<1>11. n \in Boards /\ n.places = w /\ n.map = m
  BY <1>5, <1>10 DEF Boards
<1> HIDE DEF n
<1>12. Identified(n)
  BY <1>5, <1>8, <1>9, <1>11 DEF Identified
<1>13. Linked(n)
  <2>1. ASSUME NEW c \in DOMAIN m
        PROVE  m[c] \in DOMAIN w /\ w[m[c]].driver.car = c
    BY <1>5, <1>8, <1>9
  <2>2. ASSUME NEW i \in DOMAIN w
        PROVE  \E c \in DOMAIN m : m[c] = i
    <3>1. w[i].driver.car = Car(p[i]) /\ Car(p[i]) \in DOMAIN m
      BY <1>2, <1>3, <1>4, <1>5, <1>6, <1>9
    <3>2. PICK c \in DOMAIN m : c = w[i].driver.car
      BY <3>1
    <3>3. s[m[c]].driver.car = s[i].driver.car
      BY <1>5, <1>8, <1>9, <3>2
    <3> QED
      BY <1>5, <1>7, <1>8, <1>9, <3>3
  <2> QED
    BY <1>1, <1>9, <1>11, <2>1, <2>2 DEF Linked
<1>14. \A c \in DOMAIN b.map : n.places[n.map[c]].driver = b.places[b.map[c]].driver
  BY <1>5, <1>8, <1>11
<1> QED
  BY <1>9, <1>11, <1>12, <1>13, <1>14 DEF n, w, m

\* What a drawing does to the board, when the map knows every car.
DrawnFrom(s, n) ==
    /\ s \in Sorted(places) /\ CarsOf(s) \subseteq DOMAIN map
    /\ n = [places |-> WithGaps(s), map |-> Reassociated(map, s), aborted |-> FALSE]
    /\ places' = n.places /\ map' = n.map
    /\ aborted' = (~NDEBUG /\ ZeroCompared(s))

\* And when it does not.
Lost(s) ==
    /\ s \in Sorted(places) /\ ~(CarsOf(s) \subseteq DOMAIN map)
    /\ places' = s /\ map' = map /\ aborted' = TRUE

LEMMA DrawCases ==
  ASSUME BoardInv, Draw
  PROVE  /\ ~aborted /\ turn' = "inform" /\ said' = Silence
         /\ Board \in Boards /\ Linked(Board) /\ Board.map = map /\ Board.places = places
         /\ \E s : Lost(s) \/ \E n : DrawnFrom(s, n)
<1>1. PICK s \in Sorted(places) :
         IF CarsOf(s) \subseteq DOMAIN map
           THEN /\ places' = WithGaps(s)
                /\ map' = Reassociated(map, s)
                /\ aborted' = (~NDEBUG /\ ZeroCompared(s))
           ELSE /\ aborted' = TRUE
                /\ places' = s
                /\ UNCHANGED map
  BY DEF Draw
<1>2. /\ ~aborted /\ turn' = "inform" /\ said' = Silence
      /\ Board \in Boards /\ Linked(Board)
      /\ Board.places = places /\ Board.map = map
  BY DEF Draw, BoardInv, Board
<1>3. CASE CarsOf(s) \subseteq DOMAIN map
  <2>1. PICK n : n = [places |-> WithGaps(s), map |-> Reassociated(map, s), aborted |-> FALSE]
    OBVIOUS
  <2>2. DrawnFrom(s, n)
    BY <1>1, <1>3, <2>1, Zenon DEF DrawnFrom
  <2> QED
    BY <1>2, <2>2
<1>4. CASE ~(CarsOf(s) \subseteq DOMAIN map)
  BY <1>1, <1>2, <1>4 DEF Lost
<1> QED
  BY <1>3, <1>4

\* A car that the map does not know has no number.
LEMMA LostIsUnheard ==
  ASSUME BoardInv, Linked(Board), NEW s, Lost(s)
  PROVE  \E i \in DOMAIN s : s[i].driver.car = NONE
<1>1. places \in Seq(BoardPlace) /\ Board.places = places /\ Board.map = map
  BY DEF BoardInv, Boards, Board
<1>2. PICK p \in Bijection(DOMAIN places, DOMAIN places) :
        DOMAIN s = DOMAIN places /\ \A i \in DOMAIN places : s[i].driver = places[p[i]].driver
  BY <1>1, SortedEffect DEF Lost
<1>3. PICK i \in DOMAIN s : s[i].driver.car \notin DOMAIN map
  BY DEF Lost, CarsOf
<1>4. p[i] \in DOMAIN places /\ s[i].driver = places[p[i]].driver
  BY <1>2 DEF Bijection, Injection
<1>5. PICK c \in DOMAIN map : map[c] = p[i]
  BY <1>1, <1>4 DEF Linked
<1>6. s[i].driver.car \in {c, NONE}
  BY <1>1, <1>4, <1>5 DEF Linked
<1> QED
  BY <1>3, <1>6

\* An assertion on times fails for a checkpoint passed at time zero.
LEMMA ZeroTimed ==
  ASSUME NEW s \in Seq(BoardPlace), ZeroCompared(s)
  PROVE  \E i \in DOMAIN s : \E k \in DOMAIN s[i].driver.times : s[i].driver.times[k].time = 0
<1>1. PICK i \in 2 .. Len(s) : \E j \in {1, i - 1} : ~PositiveTimes(s[i].driver, s[j].driver)
  BY DEF ZeroCompared
<1>2. PICK j \in {1, i - 1} : ~PositiveTimes(s[i].driver, s[j].driver)
  BY <1>1
<1>3. /\ DOMAIN s = 1 .. Len(s) /\ i \in DOMAIN s /\ j \in DOMAIN s
      /\ s[i] \in BoardPlace /\ s[j] \in BoardPlace
  OBVIOUS
<1>4. PICK d \in BoardRecord, e \in BoardRecord : d = s[i].driver /\ e = s[j].driver
  BY <1>3 DEF BoardPlace, BoardDriver
<1>5. d.last \in Places /\ d.times[d.last].time # NONE /\ e.times[d.last].time # NONE
  BY <1>2, <1>4 DEF PositiveTimes, BothTimed, BoardRecord
<1>6. /\ d.times \in [Places -> TimedCheckpoint] /\ e.times \in [Places -> TimedCheckpoint]
      /\ Times \subseteq Nat
  BY TelemetryBoardAssumption DEF BoardRecord
<1>7. d.times[d.last].time \in Nat /\ e.times[d.last].time \in Nat
  BY <1>5, <1>6 DEF TimedCheckpoint
<1>8. d.times[d.last].time = 0 \/ e.times[d.last].time = 0
  BY <1>2, <1>4, <1>7 DEF PositiveTimes
<1> QED
  BY <1>3, <1>4, <1>5, <1>6, <1>8

\* A drawing.
LEMMA DrawKeeps == BoardInv /\ Draw => BoardInv'
<1> SUFFICES ASSUME BoardInv, Draw
             PROVE  BoardInv'
  OBVIOUS
<1>1. PICK s : Lost(s) \/ \E n : DrawnFrom(s, n)
  BY DrawCases
<1>2. /\ ~aborted /\ turn' = "inform" /\ said' = Silence
      /\ Board \in Boards /\ Linked(Board) /\ Board.map = map /\ Board.places = places
  BY DrawCases
<1>3. places \in Seq(BoardPlace) /\ map \in CarMaps
  BY <1>2 DEF Boards
<1>4. s \in Sorted(places) /\ s \in Seq(BoardPlace)
  BY <1>1, <1>3, SortedEffect DEF Lost, DrawnFrom
<1>7. ASSUME NEW n, DrawnFrom(s, n)
      PROVE  BoardInv'
  <2>1. /\ CarsOf(s) \subseteq DOMAIN map
        /\ n = [places |-> WithGaps(s), map |-> Reassociated(map, s), aborted |-> FALSE]
        /\ places' = n.places /\ map' = n.map
    BY <1>7 DEF DrawnFrom
  <2>2. n \in Boards /\ Linked(n) /\ Identified(n)
    BY <1>2, <1>4, <2>1, ReassociatedEffect
  <2>3. aborted' = (~NDEBUG /\ ZeroCompared(s))
    BY <1>7 DEF DrawnFrom
  <2>4. aborted' \in BOOLEAN
    BY <2>3, Zenon
  <2>5. aborted' => ZeroCompared(s)
    BY <2>3, Zenon
  <2>6. /\ DOMAIN places' = DOMAIN s
        /\ \A i \in DOMAIN s : places'[i].driver = s[i].driver
    <3>1. n.places = WithGaps(s)
      BY <2>1
    <3> QED
      BY <1>4, <2>1, <3>1, WithGapsEffect
  <2>7. aborted' => \E i \in DOMAIN places' : \E k \in DOMAIN places'[i].driver.times :
                                                 places'[i].driver.times[k].time = 0
    BY <1>4, <2>5, <2>6, ZeroTimed
  <2>8. AbortsHaveCause'
    BY <1>2, <2>7 DEF AbortsHaveCause
  <2> QED
    BY <1>2, <2>1, <2>2, <2>4, <2>8, BoardNextInv
<1>8. ASSUME Lost(s)
      PROVE  BoardInv'
  <2>0. places' = s /\ map' = map /\ aborted' = TRUE
    BY <1>8 DEF Lost
  <2>1. PICK i \in DOMAIN s : s[i].driver.car = NONE
    BY <1>2, <1>8, LostIsUnheard
  <2>2. NDEBUG \/ ResultsFirst
    <3> SUFFICES ASSUME Identified(Board)
                 PROVE  FALSE
      BY DEF BoardInv
    <3>1. PICK p \in Bijection(DOMAIN places, DOMAIN places) :
            /\ DOMAIN s = DOMAIN places
            /\ \A j \in DOMAIN places : s[j].driver = places[p[j]].driver
      BY <1>3, <1>4, SortedEffect
    <3>2. p[i] \in DOMAIN places /\ places[p[i]].driver.car = NONE
      BY <2>1, <3>1 DEF Bijection, Injection
    <3>3. PICK c \in DOMAIN map : map[c] = p[i]
      BY <1>2, <3>2 DEF Linked
    <3>4. c = NONE /\ c \in Cars
      BY <1>2, <3>2, <3>3 DEF Identified, Linked
    <3> QED
      BY <3>4, TelemetryBoardAssumption
  <2>3. PICK n : n = [places |-> s, map |-> map, aborted |-> FALSE]
    OBVIOUS
  <2>4. n \in Boards /\ n.places = s /\ n.map = map
    BY <1>3, <1>4, <2>3 DEF Boards
  <2>5. AbortsHaveCause'
    BY <1>2, <2>0, <2>1 DEF AbortsHaveCause, Heard
  <2> QED
    BY <1>2, <2>0, <2>2, <2>4, <2>5, BoardNextInv
<1> QED
  BY <1>1, <1>7, <1>8

\* No frame, or a stuttering step.
LEMMA BoardStutter ==
  ASSUME BoardInv, UNCHANGED <<places, map, aborted, said>>,
         turn' = turn \/ (~aborted /\ turn' = "draw")
  PROVE  BoardInv'
<1>1. Board' = Board
  BY DEF Board
<1>2. AbortsHaveCause'
  BY DEF BoardInv, AbortsHaveCause, Heard
<1>3. turn' = "inform" => said' = Silence
  BY DEF BoardInv
<1>4. Board.places = places /\ Board.map = map /\ Board \in Boards
  BY DEF Board, BoardInv
<1> QED
  BY <1>2, <1>3, <1>4, BoardNextInv DEF BoardInv

\* The invariant of the board.
LEMMA BoardAlways == BoardSpec => []BoardInv
<1>1. BoardInit => BoardInv
  BY BoardStarts
<1>2. BoardInv /\ [BoardNext]_boardVars => BoardInv'
  <2> SUFFICES ASSUME BoardInv, [BoardNext]_boardVars
               PROVE  BoardInv'
    OBVIOUS
  <2>1. CASE Inform
    BY <2>1, InformKeeps
  <2>2. CASE NoFrame
    BY <2>2, BoardStutter DEF NoFrame
  <2>3. CASE Draw
    BY <2>3, DrawKeeps
  <2>4. CASE UNCHANGED boardVars
    BY <2>4, BoardStutter DEF boardVars
  <2> QED
    BY <2>1, <2>2, <2>3, <2>4 DEF BoardNext
<1> QED
  BY <1>1, <1>2, PTL DEF BoardSpec

\* What the map being linked says of it.
LEMMA LinkedMatches == BoardInv /\ Linked(Board) => MapMatches
<1> SUFFICES ASSUME BoardInv, Linked(Board)
             PROVE  MapMatches
  OBVIOUS
<1>1. /\ Board.places = places /\ Board.map = map
      /\ places \in Seq(BoardPlace) /\ map \in CarMaps
  BY DEF Board, BoardInv, Boards
<1>2. DOMAIN places = 1 .. Len(places) /\ Len(places) \in Nat
  BY <1>1
<1>3. Cardinality(DOMAIN map) = Len(places)
  <2> DEFINE g == [i \in 1 .. Len(places) |-> CHOOSE c \in DOMAIN map : map[c] = i]
  <2>1. ASSUME NEW i \in 1 .. Len(places)
        PROVE  g[i] \in DOMAIN map /\ map[g[i]] = i
    BY <1>1, <1>2 DEF Linked
  <2>2. ASSUME NEW c \in DOMAIN map
        PROVE  map[c] \in 1 .. Len(places) /\ g[map[c]] = c
    <3>1. map[c] \in 1 .. Len(places)
      BY <1>1, <1>2 DEF Linked
    <3>2. g[map[c]] \in DOMAIN map /\ map[g[map[c]]] = map[c]
      BY <2>1, <3>1
    <3> HIDE DEF g
    <3> QED
      BY <1>1, <3>1, <3>2 DEF Linked
  <2>3. g \in [1 .. Len(places) -> DOMAIN map]
    BY <2>1
  <2> HIDE DEF g
  <2>4. g \in Bijection(1 .. Len(places), DOMAIN map)
    BY <2>1, <2>2, <2>3 DEF Bijection, Injection, Surjection, IsInjective
  <2>5. IsFiniteSet(1 .. Len(places)) /\ Cardinality(1 .. Len(places)) = Len(places)
    <3>1. PICK n \in Nat : n = Len(places)
      BY <1>2
    <3>2. /\ IsFiniteSet(1 .. n)
          /\ Cardinality(1 .. n) = IF 1 > n THEN 0 ELSE n - 1 + 1
      BY FS_Interval
    <3>3. Cardinality(1 .. n) = n
      BY <3>2
    <3> QED
      BY <3>1, <3>2, <3>3
  <2> QED
    BY <2>4, <2>5, FS_Bijection DEF ExistsBijection
<1>4. ASSUME NEW i \in DOMAIN places, Heard(i)
      PROVE  places[i].driver.car \in DOMAIN map /\ map[places[i].driver.car] = i
  <2>1. PICK c \in DOMAIN map : map[c] = i /\ places[i].driver.car \in {c, NONE}
    BY <1>1 DEF Linked
  <2> QED
    BY <1>4, <2>1 DEF Heard
<1> QED
  BY <1>3, <1>4 DEF MapMatches

\* check_and_populate, emplace_back, std::sort and reassociate_drivers keep the
\* map and the vector each other's inverse, for any number of cars, in either build
\* and whatever order the feed names them in.
THEOREM MapAlwaysMatches == BoardSpec => []MapMatches
<1>1. BoardInv => MapMatches
  BY LinkedMatches DEF BoardInv, MapMatches
<1> QED
  BY <1>1, BoardAlways, PTL

\* With assertions compiled in, the program ends only for a driver off the track, for
\* one that has sent no telemetry, and for a checkpoint passed at time zero, for any
\* number of cars and whatever a frame brings.
THEOREM AbortsAreExplained == BoardSpec => []AbortsHaveCause
<1>1. BoardInv => AbortsHaveCause
  BY DEF BoardInv
<1> QED
  BY <1>1, BoardAlways, PTL

\* Nothing is thrown and no assertion fails: with the assertions compiled in, whose
\* operands add the drivers, with telemetry the first thing heard of a car, every
\* distance on the track and a positive time of day in every message.
THEOREM NothingAborts ==
  ASSUME ~NDEBUG, ~ResultsFirst, OnTrack, 0 \notin Times
  PROVE  BoardSpec => []NeverAborts
<1>1. BoardInv => NeverAborts
  <2> SUFFICES ASSUME BoardInv, aborted
               PROVE  FALSE
    BY DEF NeverAborts
  <2>1. /\ Board.places = places /\ Board.map = map
        /\ Linked(Board) /\ Identified(Board) /\ AbortsHaveCause
        /\ places \in Seq(BoardPlace)
    BY DEF BoardInv, Board, Boards
  <2>2. ASSUME NEW i \in DOMAIN places
        PROVE  places[i].driver \in BoardDriver
    <3>1. places[i] \in BoardPlace
      BY <2>1
    <3> QED
      BY <3>1 DEF BoardPlace
  <2>3. \A i \in DOMAIN places : ~OffTrack(places[i].driver)
    BY <2>2, NobodyOffTrack
  <2>4. ASSUME NEW i \in DOMAIN places
        PROVE  Heard(i)
    <3>1. PICK c \in DOMAIN map : map[c] = i /\ c \in Cars
      BY <2>1 DEF Linked
    <3>2. places[i].driver.car = c
      BY <2>1, <3>1 DEF Identified
    <3> QED
      BY <3>1, <3>2, TelemetryBoardAssumption DEF Heard
  <2>5. ASSUME NEW i \in DOMAIN places, NEW k \in DOMAIN places[i].driver.times
        PROVE  places[i].driver.times[k].time # 0
    <3>1. places[i].driver.times \in [Places -> TimedCheckpoint]
      BY <2>2 DEF BoardDriver, BoardRecord
    <3>2. places[i].driver.times[k].time \in Times \cup {NONE}
      BY <3>1 DEF TimedCheckpoint
    <3> QED
      BY <3>2, Positive
  <2> QED
    BY <2>1, <2>3, <2>4, <2>5 DEF AbortsHaveCause
<1> QED
  BY <1>1, BoardAlways, PTL

\* What CheckpointCurrent says of a step.
Reaches ==
    ~aborted' /\ DOMAIN map' = DOMAIN map =>
        \A c \in DOMAIN map : Lags(c)' => Lags(c) /\ c \notin Score!Heard(said')

\* A step that leaves the drivers and says nothing.
LEMMA ReachesAnyway ==
  ASSUME said' = Silence,
         \A c \in DOMAIN map : Lags(c)' => Lags(c)
  PROVE  Reaches
<1>1. Score!Heard(Silence) = {}
  BY DEF Score!Heard, Silence
<1> QED
  BY <1>1 DEF Reaches

\* For any number of cars and of telemetry messages a frame, a frame that adds no car
\* takes everyone it has telemetry of to the checkpoint of the distance, and nobody
\* falls behind in the others' frames or in a drawing.
THEOREM CheckpointIsCurrent == BoardSpec => CheckpointCurrent
<1>1. BoardInv /\ [BoardNext]_boardVars => [Reaches]_boardVars
  <2> SUFFICES ASSUME BoardInv, BoardNext
               PROVE  Reaches
    OBVIOUS
  <2>1. CASE Inform
    <3>1. CASE UNCHANGED <<places, map, aborted, said>>
      <4>1. said' = Silence
        BY <2>1, <3>1, InformCases
      <4>2. \A c \in DOMAIN map : Lags(c)' => Lags(c)
        BY <3>1 DEF Lags
      <4> QED
        BY <4>1, <4>2, ReachesAnyway
    <3>2. ASSUME NEW f \in Frames, NEW a, InformedBy(f, a)
          PROVE  Reaches
      <4>1. /\ a = Informed(Board, f) /\ places' = a.places /\ map' = a.map
            /\ aborted' = a.aborted /\ said' = OfCars(f)
        BY <3>2 DEF InformedBy
      <4>2. Board \in Boards /\ Linked(Board) /\ Board.map = map /\ ~Board.aborted
            /\ Board.places = places
        BY <2>1, InformCases
      <4>3. ~a.aborted /\ DOMAIN a.map = DOMAIN map =>
              \A c \in DOMAIN map : LagsOn(a, c) => LagsOn(Board, c)
                                                    /\ c \notin Score!Heard(OfCars(f))
        BY <4>1, <4>2, InformedEffect
      <4>4. \A c \in DOMAIN map : (Lags(c)' <=> LagsOn(a, c)) /\ (Lags(c) <=> LagsOn(Board, c))
        BY <4>1, <4>2 DEF Lags, LagsOn
      <4> QED
        BY <4>1, <4>3, <4>4 DEF Reaches
    <3> QED
      BY <2>1, <3>1, <3>2, InformCases
  <2>2. CASE NoFrame
    <3>1. said' = Silence
      BY <2>2 DEF NoFrame, BoardInv
    <3>2. \A c \in DOMAIN map : Lags(c)' => Lags(c)
      BY <2>2 DEF NoFrame, Lags
    <3> QED
      BY <3>1, <3>2, ReachesAnyway
  <2>3. CASE Draw
    <3>1. PICK s : Lost(s) \/ \E n : DrawnFrom(s, n)
      BY <2>3, DrawCases
    <3>2. CASE Lost(s)
      BY <3>2 DEF Lost, Reaches
    <3>3. ASSUME NEW n, DrawnFrom(s, n)
          PROVE  Reaches
      <4>1. /\ s \in Sorted(places) /\ CarsOf(s) \subseteq DOMAIN map
            /\ n = [places |-> WithGaps(s), map |-> Reassociated(map, s), aborted |-> FALSE]
            /\ places' = n.places /\ map' = n.map
        BY <3>3 DEF DrawnFrom
      <4>2. /\ Board \in Boards /\ Linked(Board) /\ Board.map = map
            /\ Board.places = places /\ said' = Silence
        BY <2>3, DrawCases
      <4>3. \A c \in DOMAIN map : places'[map'[c]].driver = places[map[c]].driver
        BY <4>1, <4>2, ReassociatedEffect
      <4>4. \A c \in DOMAIN map : Lags(c)' => Lags(c)
        BY <4>3 DEF Lags
      <4> QED
        BY <4>2, <4>4, ReachesAnyway
    <3> QED
      BY <3>1, <3>2, <3>3
  <2> QED
    BY <2>1, <2>2, <2>3 DEF BoardNext
<1> QED
  BY <1>1, BoardAlways, PTL DEF BoardSpec, CheckpointCurrent, Reaches

-------------------------------------------------------------------------------
(* The refinement.                                                         *)

ScoreRows == IF aborted THEN << >> ELSE Shown

\* What Scoreboard keeps.
scoreVars == <<ScoreRows, said, aborted>>

\* The part of a frame that is about cars is a frame of Scoreboard.
LEMMA FrameOfScoreboard ==
  ASSUME NEW f \in Frames, DOMAIN map \subseteq Cars
  PROVE  OfCars(f) \in Score!Frames
<1>1. /\ f.telems \in Telems
      /\ f.result \in [car : Cars, rank : Ranks, laps : Nat] \cup {NONE}
      /\ f.lap \in Cars \cup {NONE}
  BY FrameType
<1>2. /\ f.telems \in Seq([car : Cars, dist : Dists, time : Times, pit : Pits])
      /\ \A i, j \in DOMAIN f.telems : f.telems[i].car = f.telems[j].car => i = j
  <2>1. f.telems \in Seq(Messages)
    BY <1>1, TelemetryBoardAssumption DEF Telems, BoundedSeq, SeqOf
  <2>2. Messages = [car : Cars, dist : Dists, time : Times, pit : Pits]
    BY DEF Messages
  <2>3. \A i, j \in DOMAIN f.telems : f.telems[i].car = f.telems[j].car => i = j
    BY <1>1 DEF Telems
  <2> QED
    BY <2>1, <2>2, <2>3
<1>3. PICK s, r, l : s = f.telems /\ r = f.result /\ l = f.lap
  OBVIOUS
<1>4. OfCars(f) = [telems |-> s, result |-> r, lap |-> l]
  BY <1>3 DEF OfCars
<1> QED
  BY <1>1, <1>2, <1>3, <1>4 DEF Score!Frames

\* A frame that says nothing.
LEMMA SilenceIsSaid == Silence \in Score!Frames /\ Score!Silence = Silence
BY DEF Silence, Score!Frames, Score!Silence

\* A frame is one of Scoreboard, or its end, or nothing that Scoreboard sees.
LEMMA InformScores ==
  ASSUME ~NDEBUG, BoardInv, Inform
  PROVE  Score!Next \/ UNCHANGED scoreVars
<1>1. /\ ~aborted /\ Board \in Boards /\ Linked(Board) /\ Board.map = map
      /\ Board.places = places /\ ~Board.aborted /\ DOMAIN map \subseteq Cars
  BY InformCases DEF Linked
<1>2. CASE UNCHANGED <<places, map, aborted, said>>
  BY <1>2 DEF scoreVars, ScoreRows, Shown
<1>3. ASSUME NEW f \in Frames, NEW a, InformedBy(f, a)
      PROVE  Score!Next
  <2>1. /\ a = Informed(Board, f) /\ places' = a.places /\ map' = a.map
        /\ aborted' = a.aborted /\ said' = OfCars(f)
    BY <1>3 DEF InformedBy
  <2>2. /\ a \in Boards
        /\ DOMAIN a.map = DOMAIN map \cup Score!Named(OfCars(f))
        /\ \A c : RowBefore(a, c) = RowAfter(RowBefore(Board, c), c, OfCars(f))
    BY <1>1, <2>1, InformedEffect
  <2>3. OfCars(f) \in Score!Frames
    BY <1>1, FrameOfScoreboard
  <2>4. aborted' \in BOOLEAN
    BY <2>1, <2>2 DEF Boards
  <2>5. CASE aborted'
    <3>1. ScoreRows' = << >> /\ said' \in Score!Frames
      BY <2>1, <2>3, <2>5 DEF ScoreRows
    <3>2. aborted' = TRUE
      BY <2>4, <2>5
    <3> QED
      BY <1>1, <3>1, <3>2, Zenon DEF Score!Next, Score!End, ScoreRows
  <2>6. CASE ~aborted'
    <3>1. PICK o : o = said'
      OBVIOUS
    <3>2. PICK rows : rows = ScoreRows'
      OBVIOUS
    <3>3. rows = [c \in DOMAIN a.map |-> RowBefore(a, c)]
      BY <2>1, <2>6, <3>2 DEF ScoreRows, Shown, RowBefore, Row
    <3>4. DOMAIN ScoreRows = DOMAIN map /\ ScoreRows = Shown
      BY <1>1 DEF ScoreRows, Shown
    <3>5. \A c : Score!RowOf(c) = RowBefore(Board, c)
      BY <1>1, <3>4 DEF Score!RowOf, ScoreRows, Shown, RowBefore, Row
    <3>6. rows = [c \in DOMAIN ScoreRows \cup Score!Named(o) |->
                    Score!WithResult(Score!WithTelemetry(Score!RowOf(c), c, o), c, o)]
      BY <2>1, <2>2, <3>1, <3>3, <3>4, <3>5 DEF RowAfter
    <3>7. ScoreRows' = [c \in DOMAIN ScoreRows \cup Score!Named(said') |->
                          Score!WithResult(Score!WithTelemetry(Score!RowOf(c), c, said'), c, said')]
      BY <3>1, <3>2, <3>6
    <3>8. said' \in Score!Frames /\ aborted' = aborted
      BY <1>1, <2>1, <2>3, <2>4, <2>6 DEF BoardInv
    <3>9. Score!Frame
      BY <3>7, <3>8, Zenon DEF Score!Frame, ScoreRows
    <3> QED
      BY <1>1, <3>9 DEF Score!Next
  <2> QED
    BY <2>5, <2>6
<1> QED
  BY <1>2, <1>3, InformCases

\* A drawing moves the drivers, and leaves every car its row.
LEMMA DrawScores ==
  ASSUME BoardInv, Draw
  PROVE  Score!Next
<1>1. /\ ~aborted /\ said' = Silence /\ Board \in Boards /\ Linked(Board)
      /\ Board.map = map /\ Board.places = places
  BY DrawCases
<1>2. PICK s : Lost(s) \/ \E n : DrawnFrom(s, n)
  BY DrawCases
<1>3. CASE aborted'
  <2>1. ScoreRows' = << >> /\ said' \in Score!Frames
    BY <1>1, <1>3, SilenceIsSaid DEF ScoreRows
  <2>2. aborted' = TRUE
    <3>1. BoardInv'
      BY DrawKeeps
    <3> QED
      BY <1>3, <3>1 DEF BoardInv
  <2> QED
    BY <1>1, <2>1, <2>2, Zenon DEF Score!Next, Score!End, ScoreRows
<1>4. CASE ~aborted'
  <2>1. PICK n : DrawnFrom(s, n)
    BY <1>2, <1>4 DEF Lost
  <2>2. /\ s \in Sorted(places) /\ CarsOf(s) \subseteq DOMAIN map
        /\ n = [places |-> WithGaps(s), map |-> Reassociated(map, s), aborted |-> FALSE]
        /\ places' = n.places /\ map' = n.map
    BY <2>1 DEF DrawnFrom
  <2>3. /\ DOMAIN n.map = DOMAIN map
        /\ \A c \in DOMAIN map : n.places[n.map[c]].driver = places[map[c]].driver
    BY <1>1, <2>2, ReassociatedEffect
  <2>4. Shown' = [c \in DOMAIN n.map |-> RowOf(n.places[n.map[c]].driver)]
    BY <2>2 DEF Shown
  <2>5. Shown' = Shown
    BY <2>3, <2>4 DEF Shown
  <2>6. aborted' = aborted
    <3>1. BoardInv'
      BY DrawKeeps
    <3> QED
      BY <1>1, <1>4, <3>1 DEF BoardInv
  <2>7. ScoreRows' = ScoreRows /\ said' = Score!Silence
    BY <1>1, <1>4, <2>5, SilenceIsSaid DEF ScoreRows
  <2>8. Score!Drawing
    BY <2>6, <2>7, Zenon DEF Score!Drawing, ScoreRows
  <2> QED
    BY <1>1, <2>8 DEF Score!Next
<1> QED
  BY <1>3, <1>4

\* Every step of the board is a step of Scoreboard or leaves all rows as they are:
\* each car's row follows from the row before and from what the frame says of that
\* car, for any number of cars, whatever the vector, the sort and the map do
\* meanwhile.  The assertions, whose operands add the drivers, have to be compiled in.
THEOREM ImplementsScoreboard ==
  ASSUME ~NDEBUG
  PROVE  BoardSpec => ScoreboardSpec
<1>1. BoardInit => Score!Init
  <2> SUFFICES ASSUME BoardInit
               PROVE  Score!Init
    OBVIOUS
  <2>1. map = << >> /\ DOMAIN << >> = {} /\ aborted = FALSE /\ said = Silence
    BY DEF BoardInit
  <2>2. ScoreRows = << >>
    BY <2>1 DEF ScoreRows, Shown
  <2> QED
    BY <2>1, <2>2, SilenceIsSaid DEF Score!Init, ScoreRows
<1>2. BoardInv /\ [BoardNext]_boardVars => [Score!Next]_scoreVars
  <2> SUFFICES ASSUME BoardInv, [BoardNext]_boardVars
               PROVE  Score!Next \/ UNCHANGED scoreVars
    OBVIOUS
  <2>1. CASE Inform
    BY <2>1, InformScores
  <2>2. CASE NoFrame
    BY <2>2 DEF NoFrame, scoreVars, ScoreRows, Shown
  <2>3. CASE Draw
    BY <2>3, DrawScores
  <2>4. CASE UNCHANGED boardVars
    BY <2>4 DEF boardVars, scoreVars, ScoreRows, Shown
  <2> QED
    BY <2>1, <2>2, <2>3, <2>4 DEF BoardNext
<1>3. BoardInv /\ [BoardNext]_boardVars => [Score!Next]_(Score!vars)
  BY <1>2 DEF Score!vars, scoreVars, ScoreRows
<1> QED
  BY <1>1, <1>3, BoardAlways, PTL DEF BoardSpec, ScoreboardSpec, Score!Spec

===============================================================================
