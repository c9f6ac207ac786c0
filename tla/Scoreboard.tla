------------------------------ MODULE Scoreboard ------------------------------
(***************************************************************************)
(* What Telemetry::TelemetryBoard promises of the cars: one row for each   *)
(* car a frame has named, which holds what the frames have said of that    *)
(* car and of no other.  A frame is seen by everyone, so that each row is  *)
(* known from the one before it and from the frame.  There are no places,  *)
(* no sorting and no map: a drawing changes no row.                        *)
(***************************************************************************)
EXTENDS Naturals, Sequences

CONSTANTS
    Cars,
    Dists, Times, Pits,     \* what a car's telemetry may say
    Ranks,                  \* what its result may say
    ResetDist,              \* up to here a car's distance does not decrease
    STALE_TELEM_THRESH,
    MaxRank,                \* the rank of a car without a result
    NONE                    \* a field not set

VARIABLES
    rows,                   \* by car
    said,                   \* the frame that has yet to be drawn
    ended                   \* the program has ended

vars == <<rows, said, ended>>

Blank == [dist |-> NONE, time |-> 0, pit |-> NONE,
          rank |-> MaxRank, laps |-> NONE, stale |-> STALE_TELEM_THRESH + 1]

RowOf(c) == IF c \in DOMAIN rows THEN rows[c] ELSE Blank

Number(v) == IF v = NONE THEN 0 ELSE v

\* What a frame may say: at most one message of a car's telemetry.
Frames ==
    {f \in [telems : Seq([car : Cars, dist : Dists, time : Times, pit : Pits]),
            result : [car : Cars, rank : Ranks, laps : Nat] \cup {NONE},
            lap    : Cars \cup {NONE}] :
        \A i, j \in DOMAIN f.telems : f.telems[i].car = f.telems[j].car => i = j}

Silence == [telems |-> << >>, result |-> NONE, lap |-> NONE]

\* The cars it has telemetry of, and all cars it is about.
Heard(f) == {f.telems[i].car : i \in DOMAIN f.telems}

Named(f) ==
    Heard(f) \cup (IF f.result = NONE THEN {} ELSE {f.result.car})
             \cup (IF f.lap = NONE THEN {} ELSE {f.lap})

\* Row r of a car that sent telemetry m.
Told(r, m) ==
    [r EXCEPT !.dist = IF r.dist # NONE /\ Number(m.dist) < r.dist /\ r.dist <= ResetDist
                         THEN @ ELSE m.dist,
              !.time = m.time, !.pit = m.pit, !.stale = 0]

\* Row r of a car that was silent while others sent theirs.
Older(r) == [r EXCEPT !.stale = IF @ > STALE_TELEM_THRESH THEN @ ELSE @ + 1]

\* Row r of car c once the telemetry of frame f is in.
WithTelemetry(r, c, f) ==
    IF c \in Heard(f)
      THEN Told(r, f.telems[CHOOSE i \in DOMAIN f.telems : f.telems[i].car = c])
    ELSE IF f.telems = << >> THEN r ELSE Older(r)

\* And once its result is.
WithResult(r, c, f) ==
    IF f.result # NONE /\ f.result.car = c
      THEN [r EXCEPT !.rank = f.result.rank, !.laps = f.result.laps] ELSE r

Init == rows = << >> /\ said = Silence /\ ended = FALSE

\* A frame: each row follows what is said of its own car.
Frame ==
    /\ said' \in Frames
    /\ rows' = [c \in DOMAIN rows \cup Named(said') |->
                   WithResult(WithTelemetry(RowOf(c), c, said'), c, said')]
    /\ UNCHANGED ended

\* The drawing that follows it.
Drawing == said' = Silence /\ UNCHANGED <<rows, ended>>

\* The end of the program, in one or the other.
End == ended' = TRUE /\ rows' = << >> /\ said' \in Frames

Next == ~ended /\ (Frame \/ Drawing \/ End)

Spec == Init /\ [][Next]_vars

===============================================================================
