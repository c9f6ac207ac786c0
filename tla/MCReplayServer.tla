---------------------------- MODULE MCReplayServer ----------------------------
(* Instances of ReplayServer for TLC.                                          *)
EXTENDS ReplayServer

CONSTANTS c1, c2

TwoClients == {c1, c2}

\* A timed recording with a property that has no value and a line without ',',
\* an untimed one, and a timed one that breaks off.
ThreeRecordings ==
    { << Header("TIMED"), Header(NONE), Timed(0), Plain, Timed(1) >>,
      << Plain, Plain >>,
      << Header("TIMED"), Broken >> }

===============================================================================
