------------------------------ MODULE DelayLine ------------------------------
(***************************************************************************)
(* What Telemetry::TelemetryQueue promises while its delay is left alone:  *)
(* a bounded first-in first-out line that hands out its oldest frame only  *)
(* while at least Hold frames are waiting.  Frames are numbered 0, 1, ...  *)
(* in the order in which they are accepted.                                *)
(***************************************************************************)
EXTENDS Naturals, Sequences

CONSTANTS
    Bound,      \* how many frames may wait at once, positive
    Hold        \* how many must be waiting before the oldest may leave,
                \* at most Bound

VARIABLES
    accepted,   \* number of frames accepted so far
    released    \* the frames handed out, in order

Waiting == accepted - Len(released)

Init ==
    /\ accepted = 0
    /\ released = << >>

Accept ==
    /\ Waiting < Bound
    /\ accepted' = accepted + 1
    /\ UNCHANGED released

Release ==
    /\ Waiting > 0
    /\ Waiting >= Hold
    /\ released' = Append(released, Len(released))
    /\ UNCHANGED accepted

Next == Accept \/ Release

Spec == Init /\ [][Next]_<<accepted, released>>

==============================================================================
