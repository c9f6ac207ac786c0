------------------------------ MODULE ClientProofs ------------------------------
(***************************************************************************)
(* What holds of the program client_main.cpp builds: of the client's life, *)
(* for every set of keys, every delay and whether or not the server        *)
(* closes, and of what main decides before it, for every line of words.    *)
(***************************************************************************)
EXTENDS Client, CommandLine, NumberFacts, FiniteSetTheorems, TLAPS

\* A thread that has gone past the second brace of Shutdown has left a reason,
\* and only such a thread counts the latch down.
ReasonInv ==
    /\ caller \in [Callers -> {"idle", "clear", "reason", "lock", "count",
                               "unlock"}]
    /\ \A c \in Callers :
         caller[c] \in {"lock", "count", "unlock"} => reason # NONE
    /\ ReasonGiven

\* No thread runs before it is started, what main has joined stays ended, and a
\* thread that has ended is in no call.
QuietInv ==
    /\ caller \in [Callers -> {"idle", "clear", "reason", "lock", "count",
                               "unlock"}]
    /\ input # "quit" => caller["input"] = "idle"
    /\ socket # "closing" => caller["socket"] = "idle"
    /\ main \in {"start", "spawn_output", "spawn_input"} => input = "none"
    /\ main = "start" => session = "none"
    /\ session \in {"none", "start"} => socket = "off"
    /\ main \in {"join_output", "end_session", "join_session", "exit"}
         => input = "done"
    /\ main \in {"end_session", "join_session", "exit"} => output = "done"
    /\ main = "exit" => session = "done"
    /\ session = "done" => socket = "off"

-------------------------------------------------------------------------------
\* One step of Shutdown keeps a reason for all that may count.
LEMMA ReasonShutdown ==
  ASSUME ReasonInv, NEW c \in Callers, ShutdownFirst(c) \/ ShutdownGoesOn(c)
  PROVE  ReasonInv'
<1> USE AppContextAssumption DEF ReasonInv, ReasonGiven
<1>1. CASE ShutdownFirst(c)
  BY <1>1 DEF ShutdownFirst
<1>2. CASE ShutdownClear(c)
  BY <1>2 DEF ShutdownClear
<1>3. CASE ShutdownReason(c)
  BY <1>3 DEF ShutdownReason
<1>4. CASE ShutdownTryLock(c)
  BY <1>4 DEF ShutdownTryLock
<1>5. CASE ShutdownCount(c)
  BY <1>5 DEF ShutdownCount
<1>6. CASE ShutdownUnlock(c)
  BY <1>6 DEF ShutdownUnlock
<1> QED
  BY <1>1, <1>2, <1>3, <1>4, <1>5, <1>6 DEF ShutdownGoesOn

\* A step that leaves the application context alone keeps ReasonInv.
LEMMA ReasonUnchanged == ReasonInv /\ UNCHANGED appVars => ReasonInv'
BY DEF ReasonInv, ReasonGiven, appVars

LEMMA ReasonInit == ClientInit => ReasonInv
BY DEF ClientInit, AppInit, ReasonInv, ReasonGiven

LEMMA ReasonNext == ReasonInv /\ [ClientNext]_clientVars => ReasonInv'
<1> SUFFICES ASSUME ReasonInv, [ClientNext]_clientVars
             PROVE  ReasonInv'
  OBVIOUS
<1>0. "input" \in Callers /\ "socket" \in Callers
  BY ClientAssumption
<1>1. CASE Main
  BY <1>1, ReasonUnchanged
     DEF Main, MainStart, MainSpawnOutput, MainSpawnInput, MainAwait,
         MainStopInput, MainStopOutput, MainJoinInput, MainJoinOutput,
         MainEndSession, MainJoinSession
<1>2. CASE Output
  BY <1>2, ReasonUnchanged DEF Output, OutputTest, OutputDraw, OutputStop
<1>3. CASE Input
  BY <1>0, <1>3, ReasonUnchanged, ReasonShutdown
     DEF Input, InputTest, InputNothing, InputIncrease, InputDecrease,
         InputQuit, InputShutdown, ShutdownLate
<1>4. CASE Session
  BY <1>4, ReasonUnchanged DEF Session, SessionStart, SessionWait, SessionStop
<1>5. CASE Socket
  BY <1>0, <1>5, ReasonUnchanged, ReasonShutdown
     DEF Socket, SocketOpen, SocketClose, SocketShutdown, ShutdownLate
<1>6. CASE Exited \/ UNCHANGED clientVars
  BY <1>6, ReasonUnchanged DEF Exited, clientVars
<1> QED
  BY <1>1, <1>2, <1>3, <1>4, <1>5, <1>6 DEF ClientNext

\* However the two callers of Shutdown race, main is never released before a
\* reason is there to report (app_context.hpp:64-66).
THEOREM ReasonIsGiven == ClientSpec => []ReasonGiven
<1>1. ReasonInv => ReasonGiven
  BY DEF ReasonInv
<1> QED
  BY <1>1, ReasonInit, ReasonNext, PTL DEF ClientSpec

-------------------------------------------------------------------------------
\* A step of Shutdown changes the caller's control point only.
LEMMA ShutdownMovesCaller ==
  ASSUME QuietInv, NEW c \in Callers, ShutdownFirst(c) \/ ShutdownGoesOn(c)
  PROVE  /\ caller' \in [Callers -> {"idle", "clear", "reason", "lock", "count",
                                     "unlock"}]
         /\ \A d \in Callers : d # c => caller'[d] = caller[d]
BY DEF QuietInv, ShutdownFirst, ShutdownGoesOn, ShutdownClear, ShutdownReason,
       ShutdownTryLock, ShutdownCount, ShutdownUnlock

LEMMA QuietInit == ClientInit => QuietInv
BY ClientAssumption DEF ClientInit, AppInit, QuietInv

LEMMA QuietNext == QuietInv /\ [ClientNext]_clientVars => QuietInv'
<1> SUFFICES ASSUME QuietInv, [ClientNext]_clientVars
             PROVE  QuietInv'
  OBVIOUS
<1>0. "input" \in Callers /\ "socket" \in Callers
  BY ClientAssumption
<1>1. CASE Main
  BY <1>1
     DEF QuietInv, Main, MainStart, MainSpawnOutput, MainSpawnInput, MainAwait,
         MainStopInput, MainStopOutput, MainJoinInput, MainJoinOutput,
         MainEndSession, MainJoinSession, appVars, workers, network
<1>2. CASE Output
  BY <1>2 DEF QuietInv, Output, OutputTest, OutputDraw, OutputStop, appVars, network
<1>3. CASE Input
  <2>1. CASE InputTest \/ InputNothing \/ InputIncrease \/ InputDecrease
    BY <2>1 DEF QuietInv, InputTest, InputNothing, InputIncrease, InputDecrease,
                appVars, network
  <2>2. CASE InputQuit
    <3>1. CASE ShutdownLate("input")
      BY <2>2, <3>1
         DEF QuietInv, InputQuit, ShutdownLate, ShutdownFirst, appVars, network
    <3>2. CASE ShutdownFirst("input") /\ input' = "quit"
      BY <1>0, <2>2, <3>2, ShutdownMovesCaller DEF QuietInv, InputQuit, network
    <3> QED
      BY <2>2, <3>1, <3>2 DEF InputQuit
  <2>3. CASE InputShutdown
    BY <1>0, <2>3, ShutdownMovesCaller DEF QuietInv, InputShutdown, network
  <2> QED
    BY <1>3, <2>1, <2>2, <2>3 DEF Input
<1>4. CASE Session
  BY <1>4 DEF QuietInv, Session, SessionStart, SessionWait, SessionStop, appVars, workers
<1>5. CASE Socket
  <2>1. CASE SocketOpen
    BY <2>1 DEF QuietInv, SocketOpen, appVars, workers
  <2>2. CASE SocketClose
    <3>1. CASE ShutdownLate("socket") /\ socket' = "connecting"
      BY <2>2, <3>1 DEF QuietInv, SocketClose, ShutdownLate, appVars, workers
    <3>2. CASE ShutdownFirst("socket") /\ socket' = "closing"
      BY <1>0, <2>2, <3>2, ShutdownMovesCaller DEF QuietInv, SocketClose, workers
    <3> QED
      BY <2>2, <3>1, <3>2 DEF SocketClose
  <2>3. CASE SocketShutdown
    BY <1>0, <2>3, ShutdownMovesCaller DEF QuietInv, SocketShutdown, workers
  <2> QED
    BY <1>5, <2>1, <2>2, <2>3 DEF Socket
<1>6. CASE Exited \/ UNCHANGED clientVars
  BY <1>6 DEF QuietInv, Exited, clientVars, appVars, workers, network
<1> QED
  BY <1>1, <1>2, <1>3, <1>4, <1>5, <1>6 DEF ClientNext

\* When main returns every other thread has ended and no call of Shutdown is in
\* progress: the singletons are destroyed with nobody left to use them.
THEOREM ExitIsQuiet == ClientSpec => []QuietAtExit
<1>1. QuietInv => QuietAtExit
  BY ClientAssumption DEF QuietInv, QuietAtExit
<1> QED
  BY <1>1, QuietInit, QuietNext, PTL DEF ClientSpec

-------------------------------------------------------------------------------
(* The delay.                                                              *)

\* The counter of the keys never wraps below zero, and the queue has it up to the
\* maximum.
DelayInv == delay \in Nat /\ DelayCounted

LEMMA DelayInit == ClientInit => DelayInv
BY ClientAssumption DEF ClientInit, DelayInv, DelayCounted

\* One press more or less keeps them together, refused or not.
LEMMA DelayNext == DelayInv /\ [ClientNext]_clientVars => DelayInv'
<1> SUFFICES ASSUME DelayInv, [ClientNext]_clientVars
             PROVE  DelayInv'
  OBVIOUS
<1>0. /\ delay \in Nat /\ MAX_DELAY_S \in Nat
      /\ configured = IF delay <= MAX_DELAY_S THEN delay ELSE MAX_DELAY_S
  BY ClientAssumption DEF DelayInv, DelayCounted
<1>1. CASE Increase
  BY <1>0, <1>1 DEF Increase, DelayInv, DelayCounted
<1>2. CASE Decrease
  <2>1. CASE delay = 0
    BY <1>0, <1>2, <2>1 DEF Decrease, DelayInv, DelayCounted
  <2>2. CASE delay # 0
    BY <1>0, <1>2, <2>2 DEF Decrease, DelayInv, DelayCounted
  <2> QED
    BY <2>1, <2>2
<1>3. CASE UNCHANGED delays
  BY <1>3 DEF delays, DelayInv, DelayCounted
<1>4. \/ Increase \/ Decrease \/ UNCHANGED delays
  <2>1. CASE Main \/ Output
    BY <2>1
       DEF Main, MainStart, MainSpawnOutput, MainSpawnInput, MainAwait, MainStopInput,
           MainStopOutput, MainJoinInput, MainJoinOutput, MainEndSession,
           MainJoinSession, Output, OutputTest, OutputDraw, OutputStop
  <2>2. CASE Input
    BY <2>2 DEF Input, InputTest, InputNothing, InputIncrease, InputDecrease, InputQuit,
                InputShutdown
  <2>3. CASE Session \/ Socket
    BY <2>3 DEF Session, SessionStart, SessionWait, SessionStop, Socket, SocketOpen,
                SocketClose, SocketShutdown
  <2>4. CASE Exited \/ UNCHANGED clientVars
    BY <2>4 DEF Exited, clientVars
  <2> QED
    BY <2>1, <2>2, <2>3, <2>4 DEF ClientNext
<1> QED
  BY <1>1, <1>2, <1>3, <1>4

\* However often the keys are pressed beyond the maximum, where the queue refuses,
\* and below zero: the delay that counts is the counter's, cut off at the maximum.
THEOREM DelayIsCounted == ClientSpec => []DelayCounted
<1>1. DelayInv => DelayCounted
  BY DEF DelayInv
<1> QED
  BY <1>1, DelayInit, DelayNext, PTL DEF ClientSpec

-------------------------------------------------------------------------------
(* The latch.                                                              *)

\* A thread inside Shutdown that may still count the latch down.
Counting(c) == caller[c] \in {"clear", "reason", "lock", "count"}
Pending(c) == IF Counting(c) THEN 1 ELSE 0

\* Until the flag is cleared nobody has got past the clearing; from then on each
\* thread counts at most once, and the mutex is held by one that is about to
\* count or has counted.
CountInv ==
    /\ can_shut_down \in BOOLEAN /\ latch \in Int
    /\ caller \in [Callers -> {"idle", "clear", "reason", "lock", "count",
                               "unlock"}]
    /\ can_shut_down =>
         /\ latch = 1 /\ reason = NONE
         /\ \A c \in Callers : caller[c] \in {"idle", "clear"}
    /\ ~can_shut_down =>
         /\ latch >= Pending("input") + Pending("socket") - 1
         /\ latch <= 1
         /\ latch = 1 => \E c \in Callers : caller[c] \in {"reason", "lock", "count"}
    /\ shutdown_mtx # NONE =>
         /\ shutdown_mtx \in Callers
         /\ caller[shutdown_mtx] \in {"count", "unlock"}
    /\ \A c \in Callers : caller[c] = "unlock" => latch <= 0

\* The latch is counted once by each thread that shuts down, and a shutdown that
\* has begun is never lost: when nobody is inside Shutdown any more, it has been
\* counted.
ShutdownCounted ==
    /\ latch \in -1 .. 1
    /\ ~can_shut_down /\ (\A c \in Callers : caller[c] = "idle") => latch <= 0

\* One step of Shutdown.
LEMMA CountShutdown ==
  ASSUME CountInv, NEW c \in Callers, ShutdownFirst(c) \/ ShutdownGoesOn(c)
  PROVE  CountInv'
<1> USE AppContextAssumption, ClientAssumption DEF CountInv, Pending, Counting
<1>1. CASE ShutdownFirst(c)
  BY <1>1 DEF ShutdownFirst
<1>2. CASE ShutdownClear(c)
  <2>1. CASE can_shut_down
    <3>1. /\ caller' = [caller EXCEPT ![c] = "reason"] /\ caller'[c] = "reason"
          /\ can_shut_down' = FALSE /\ UNCHANGED <<reason, shutdown_mtx, latch>>
          /\ latch = 1
      BY <1>2, <2>1 DEF ShutdownClear
    <3>2. \A d \in Callers : caller'[d] \in {"idle", "clear", "reason"}
      BY <2>1, <3>1
    <3>3. shutdown_mtx = NONE
      BY <2>1
    <3>4. /\ caller' \in [Callers -> {"idle", "clear", "reason", "lock", "count",
                                     "unlock"}]
          /\ \A d \in Callers : caller'[d] # "unlock"
          /\ \E d \in Callers : caller'[d] \in {"reason", "lock", "count"}
      BY <3>1, <3>2
    <3>5. latch' >= Pending("input")' + Pending("socket")' - 1
      BY <3>1
    <3>6. /\ ~can_shut_down' /\ can_shut_down' \in BOOLEAN
          /\ latch' = 1 /\ shutdown_mtx' = NONE
      BY <3>1, <3>3
    <3> QED
      BY <3>4, <3>5, <3>6
  <2>2. CASE ~can_shut_down
    BY <1>2, <2>2 DEF ShutdownClear
  <2> QED
    BY <2>1, <2>2
<1>3. CASE ShutdownReason(c)
  BY <1>3 DEF ShutdownReason
<1>4. CASE ShutdownTryLock(c)
  <2>1. CASE shutdown_mtx = NONE
    BY <1>4, <2>1 DEF ShutdownTryLock
  <2>2. CASE shutdown_mtx # NONE
    BY <1>4, <2>2 DEF ShutdownTryLock
  <2> QED
    BY <2>1, <2>2
<1>5. CASE ShutdownCount(c)
  BY <1>5 DEF ShutdownCount
<1>6. CASE ShutdownUnlock(c)
  BY <1>6 DEF ShutdownUnlock
<1> QED
  BY <1>1, <1>2, <1>3, <1>4, <1>5, <1>6 DEF ShutdownGoesOn

\* A step of the client is a step inside Shutdown, by a thread that has a cause to
\* call it, or leaves the application context alone.
LEMMA CallersOnly ==
  ASSUME [ClientNext]_clientVars
  PROVE  \/ UNCHANGED appVars
         \/ /\ "quit" \in Keys
            /\ ShutdownFirst("input")
         \/ /\ ServerCloses
            /\ ShutdownFirst("socket")
         \/ \E c \in Callers : ShutdownGoesOn(c)
<1>0. "input" \in Callers /\ "socket" \in Callers
  BY ClientAssumption
<1>1. CASE Main \/ Output \/ Session
  BY <1>1
     DEF Main, MainStart, MainSpawnOutput, MainSpawnInput, MainAwait,
         MainStopInput, MainStopOutput, MainJoinInput, MainJoinOutput,
         MainEndSession, MainJoinSession, Output, OutputTest, OutputDraw, OutputStop,
         Session, SessionStart, SessionWait, SessionStop
<1>2. CASE Input
  BY <1>0, <1>2
     DEF Input, InputTest, InputNothing, InputIncrease, InputDecrease, InputQuit,
         InputShutdown, ShutdownLate
<1>3. CASE Socket
  BY <1>0, <1>3 DEF Socket, SocketOpen, SocketClose, SocketShutdown, ShutdownLate
<1>4. CASE Exited \/ UNCHANGED clientVars
  BY <1>4 DEF Exited, clientVars
<1> QED
  BY <1>1, <1>2, <1>3, <1>4 DEF ClientNext

\* Before anybody shuts down.
LEMMA CountInit == ClientInit => CountInv
BY DEF ClientInit, AppInit, CountInv

\* Every step of the client.
LEMMA CountNext == CountInv /\ [ClientNext]_clientVars => CountInv'
<1> SUFFICES ASSUME CountInv, [ClientNext]_clientVars
             PROVE  CountInv'
  OBVIOUS
<1>1. CASE UNCHANGED appVars
  BY <1>1 DEF appVars, CountInv, Pending, Counting
<1> QED
  BY <1>1, CallersOnly, CountShutdown, ClientAssumption

\* Whoever shuts down, and however their calls interleave: the latch is counted
\* at least once, and not more than once by each of the two threads.
THEOREM ShutdownIsCounted == ClientSpec => []ShutdownCounted
<1>1. CountInv => ShutdownCounted
  BY ClientAssumption DEF CountInv, Pending, Counting, ShutdownCounted
<1> QED
  BY <1>1, CountInit, CountNext, PTL DEF ClientSpec

\* A client that only one of the two can shut down.
OneCause == ~ServerCloses \/ "quit" \notin Keys

\* A thread that has no cause to shut down never calls Shutdown, and while the
\* other one is on its way to the reason there is none.
OnlyOneCalls ==
    /\ "quit" \notin Keys => caller["input"] = "idle"
    /\ ~ServerCloses => caller["socket"] = "idle"
    /\ \A c \in Callers : caller[c] = "clear" => can_shut_down
    /\ \A c \in Callers : caller[c] \in {"clear", "reason"} => reason = NONE
    /\ latch >= Pending("input") + Pending("socket")

\* No step of the client brings in the other thread.
LEMMA OnlyOneNext ==
  ASSUME OneCause, CountInv, OnlyOneCalls, [ClientNext]_clientVars
  PROVE  OnlyOneCalls' /\ (reason # NONE => reason' = reason)
<1> USE ClientAssumption DEF OneCause, CountInv, OnlyOneCalls, Pending, Counting
<1>1. CASE UNCHANGED appVars
  BY <1>1 DEF appVars
<1>2. CASE "quit" \in Keys /\ ShutdownFirst("input")
  BY <1>2 DEF ShutdownFirst
<1>3. CASE ServerCloses /\ ShutdownFirst("socket")
  BY <1>3 DEF ShutdownFirst
<1>4. ASSUME NEW c \in Callers, ShutdownGoesOn(c)
      PROVE  OnlyOneCalls' /\ (reason # NONE => reason' = reason)
  <2>1. CASE ShutdownClear(c)
    BY <2>1 DEF ShutdownClear
  <2>2. CASE ShutdownReason(c)
    BY <2>2 DEF ShutdownReason
  <2>3. CASE ShutdownTryLock(c)
    BY <2>3 DEF ShutdownTryLock
  <2>4. CASE ShutdownCount(c)
    BY <2>4 DEF ShutdownCount
  <2>5. CASE ShutdownUnlock(c)
    BY <2>5 DEF ShutdownUnlock
  <2> QED
    BY <1>4, <2>1, <2>2, <2>3, <2>4, <2>5 DEF ShutdownGoesOn
<1> QED
  BY <1>1, <1>2, <1>3, <1>4, CallersOnly

\* A client that only the user, or only the server, can shut down counts its
\* latch once, as the latch requires, and reports the reason that was given
\* first: what goes wrong in Shutdown takes two callers.
THEOREM OneCauseShutsDownOnce ==
  ASSUME OneCause PROVE ClientSpec => [](latch \in {0, 1}) /\ ReasonStable
<1>1. ClientInit => OnlyOneCalls
  BY ClientAssumption DEF ClientInit, AppInit, OnlyOneCalls, Pending, Counting
<1>2. CountInv /\ OnlyOneCalls /\ [ClientNext]_clientVars => OnlyOneCalls'
  BY OnlyOneNext
<1>3. CountInv /\ OnlyOneCalls => latch \in {0, 1}
  BY ClientAssumption DEF CountInv, OnlyOneCalls, Pending, Counting
<1>4. CountInv /\ OnlyOneCalls /\ [ClientNext]_clientVars
        => [reason # NONE => reason' = reason]_appVars
  BY OnlyOneNext
<1> QED
  BY <1>1, <1>2, <1>3, <1>4, CountInit, CountNext, PTL DEF ClientSpec, ReasonStable

-------------------------------------------------------------------------------
(* Before the client: main and its command line.                           *)

(* The table of elements.                                                  *)

\* The place of an option in the table, which has the one argument second.
Place(i) == IF i = 1 THEN 1 ELSE i + 1

\* What is in the table.
LEMMA ElementFacts ==
  /\ Elements \in Seq({Elements[i] : i \in 1 .. 9}) /\ Len(Elements) = 9
  /\ \A i \in 1 .. 9 : Elements[i].element = "Arg" <=> i = 2
  /\ \A i \in 1 .. 9 : Elements[i].element = "Flag" <=> i \in {1, 4}
  /\ \A i \in 1 .. 9 : Elements[i].element \in {"Arg", "Option", "Flag"}
  /\ \A i \in 1 .. 9 : i # 2 => Elements[i].long # NULLOPT
  /\ Elements[1].name = "help" /\ Elements[2].name = "mode"
  /\ Elements[3].name = "source" /\ Elements[4].name = "serve_replay"
  /\ Elements[9].name = "log_level"
  /\ \A i, j \in 1 .. 9 : Elements[i].name = Elements[j].name => i = j
<1>1. /\ Elements[1].element = "Flag" /\ Elements[1].name = "help"
      /\ Elements[1].long = "help"
  BY DEF Elements, Flag, Option
<1>2. /\ Elements[2].element = "Arg" /\ Elements[2].name = "mode"
  BY DEF Elements
<1>3. /\ Elements[3].element = "Option" /\ Elements[3].name = "source"
      /\ Elements[3].long = "source"
  BY DEF Elements, Option
<1>4. /\ Elements[4].element = "Flag" /\ Elements[4].name = "serve_replay"
      /\ Elements[4].long = "serve-replay"
  BY DEF Elements, Flag, Option
<1>5. /\ Elements[5].element = "Option" /\ Elements[5].name = "hostname"
      /\ Elements[5].long = "hostname"
  BY DEF Elements, Option
<1>6. /\ Elements[6].element = "Option" /\ Elements[6].name = "port"
      /\ Elements[6].long = "port"
  BY DEF Elements, Option
<1>7. /\ Elements[7].element = "Option" /\ Elements[7].name = "url"
      /\ Elements[7].long = "url"
  BY DEF Elements, Option
<1>8. /\ Elements[8].element = "Option" /\ Elements[8].name = "log_output"
      /\ Elements[8].long = "log-out"
  BY DEF Elements, Option
<1>9. /\ Elements[9].element = "Option" /\ Elements[9].name = "log_level"
      /\ Elements[9].long = "log-level"
  BY DEF Elements, Option
<1>10. Elements \in Seq({Elements[i] : i \in 1 .. 9}) /\ Len(Elements) = 9
  <2>1. Len(Elements) = 9 /\ Elements = [i \in 1 .. 9 |-> Elements[i]]
    BY DEF Elements
  <2> QED
    BY <2>1
<1>11. \A i \in 1 .. 9 : i \in {1, 2, 3, 4, 5, 6, 7, 8, 9}
  OBVIOUS
<1>12. \A i \in 1 .. 9 : Elements[i].element = "Arg" <=> i = 2
  BY <1>1, <1>2, <1>3, <1>4, <1>5, <1>6, <1>7, <1>8, <1>9, <1>11
<1>13. \A i \in 1 .. 9 : Elements[i].element = "Flag" <=> i \in {1, 4}
  BY <1>1, <1>2, <1>3, <1>4, <1>5, <1>6, <1>7, <1>8, <1>9, <1>11
<1>14. \A i \in 1 .. 9 : Elements[i].element \in {"Arg", "Option", "Flag"}
  BY <1>1, <1>2, <1>3, <1>4, <1>5, <1>6, <1>7, <1>8, <1>9, <1>11
<1>15. \A i \in 1 .. 9 : i # 2 => Elements[i].long # NULLOPT
  BY <1>10, <1>12, NulloptAssumption
<1>16. ASSUME NEW i \in 1 .. 9, NEW j \in 1 .. 9, Elements[i].name = Elements[j].name
       PROVE  i = j
  <2> DEFINE e == [k \in 1 .. 9 |-> Elements[k].name]
  <2>1. \A k \in 1 .. 9 : e[k] = Elements[k].name
    OBVIOUS
  <2>2. e[i] = e[j]
    BY <1>16
  <2> HIDE DEF e
  <2>3. /\ e[1] = "help" /\ e[2] = "mode" /\ e[3] = "source" /\ e[4] = "serve_replay"
        /\ e[5] = "hostname" /\ e[6] = "port" /\ e[7] = "url" /\ e[8] = "log_output"
        /\ e[9] = "log_level"
    BY <2>1, <1>1, <1>2, <1>3, <1>4, <1>5, <1>6, <1>7, <1>8, <1>9
  <2> QED
    BY <2>2, <2>3, <1>11
<1> QED
  BY <1>1, <1>2, <1>3, <1>4, <1>9, <1>10, <1>12, <1>13, <1>14, <1>15, <1>16

-------------------------------------------------------------------------------
(* Which words are values.                                                 *)

\* Marked as the definition marks them, up to a place.
Marking(f, takers, n) ==
    f = [i \in 0 .. n |-> i > 1 /\ i - 1 \in takers /\ ~f[i - 1]]

\* There is such a marking: it is extended place by place.
LEMMA MarkingExists ==
  ASSUME NEW takers, NEW n \in Nat
  PROVE  \E f : Marking(f, takers, n)
<1> DEFINE Bad == {k \in 0 .. n : ~ \E f : Marking(f, takers, k)}
<1> SUFFICES ASSUME Bad # {}
             PROVE  FALSE
  OBVIOUS
<1>1. PICK k \in Bad : \A j \in Bad : k <= j
  <2>1. Bad \in SUBSET Nat
    OBVIOUS
  <2> HIDE DEF Bad
  <2> QED
    BY <2>1, LeastExists
<1>2. k \in 0 .. n /\ ~ \E f : Marking(f, takers, k)
  OBVIOUS
<1>3. CASE k = 0
  <2> DEFINE f == [i \in 0 .. 0 |-> FALSE]
  <2>1. \A i \in 0 .. 0 : ~(i > 1) /\ f[i] = FALSE
    OBVIOUS
  <2>2. \A i \in 0 .. 0 : f[i] = (i > 1 /\ i - 1 \in takers /\ ~f[i - 1])
    BY <2>1
  <2>3. f = [i \in 0 .. 0 |-> f[i]]
    OBVIOUS
  <2> HIDE DEF f
  <2>4. [i \in 0 .. 0 |-> f[i]] = [i \in 0 .. 0 |-> i > 1 /\ i - 1 \in takers /\ ~f[i - 1]]
    BY <2>2, Zenon
  <2>5. Marking(f, takers, 0)
    BY <2>3, <2>4 DEF Marking
  <2> QED
    BY <1>2, <1>3, <2>5
<1>4. CASE k # 0
  <2>1. k - 1 \in 0 .. n /\ k - 1 \notin Bad
    <3>1. k - 1 \in 0 .. n /\ ~(k <= k - 1)
      BY <1>2, <1>4
    <3> HIDE DEF Bad
    <3> QED
      BY <1>1, <3>1
  <2>2. PICK f : Marking(f, takers, k - 1)
    BY <2>1
  <2> DEFINE g == [i \in 0 .. k |->
                     IF i = k THEN k > 1 /\ k - 1 \in takers /\ ~f[k - 1] ELSE f[i]]
  <2>3. ASSUME NEW i \in 0 .. k
        PROVE  g[i] = (i > 1 /\ i - 1 \in takers /\ ~g[i - 1])
    <3>1. CASE i = k
      <4>1. k - 1 \in 0 .. k /\ k - 1 # k
        BY <1>2, <1>4
      <4>2. g[k - 1] = f[k - 1]
        BY <4>1
      <4>3. g[i] = (k > 1 /\ k - 1 \in takers /\ ~f[k - 1])
        BY <3>1
      <4> QED
        BY <3>1, <4>2, <4>3
    <3>2. CASE i # k
      <4>1. i \in 0 .. k - 1 /\ i # k
        BY <1>2, <3>2
      <4>2. g[i] = f[i]
        BY <4>1
      <4>3. f[i] = (i > 1 /\ i - 1 \in takers /\ ~f[i - 1])
        BY <2>2, <4>1 DEF Marking
      <4>4. i > 1 => g[i - 1] = f[i - 1]
        <5>1. i > 1 => i - 1 \in 0 .. k /\ i - 1 # k
          BY <1>2, <4>1
        <5> QED
          BY <5>1
      <4> HIDE DEF g
      <4> QED
        BY <4>2, <4>3, <4>4
    <3> QED
      BY <3>1, <3>2
  <2>4. Marking(g, takers, k)
    BY <2>3 DEF Marking
  <2> QED
    BY <1>2, <2>4
<1> QED
  BY <1>3, <1>4

\* A word is a value if the word before it takes one and is not a value itself.
LEMMA ValuesNext ==
  ASSUME NEW takers, NEW n \in Nat
  PROVE  /\ Values(takers, n) \subseteq 1 .. n
         /\ \A i \in 1 .. n :
              i \in Values(takers, n)
                <=> i > 1 /\ i - 1 \in takers /\ i - 1 \notin Values(takers, n)
<1>1. PICK f : /\ Marking(f, takers, n)
               /\ Values(takers, n) = {i \in 1 .. n : f[i]}
  <2> DEFINE c == CHOOSE f : Marking(f, takers, n)
  <2>1. Marking(c, takers, n)
    BY MarkingExists
  <2>2. Values(takers, n) = {i \in 1 .. n : c[i]}
    BY DEF Values, Marking
  <2> QED
    BY <2>1, <2>2
<1>2. ASSUME NEW i \in 1 .. n
      PROVE  f[i] = (i > 1 /\ i - 1 \in takers /\ ~f[i - 1])
  <2>1. i \in 0 .. n
    OBVIOUS
  <2> QED
    BY <1>1, <2>1 DEF Marking
<1>3. ASSUME NEW i \in 1 .. n, i > 1
      PROVE  i - 1 \in 1 .. n
  BY <1>3
<1> QED
  BY <1>1, <1>2, <1>3

\* The greatest of some places.
LEMMA MaxIn ==
  ASSUME NEW n \in Nat, NEW S \in SUBSET (1 .. n), S # {}
  PROVE  Max(S) \in S /\ \A y \in S : y <= Max(S)
<1> DEFINE T == {n - x : x \in S}
<1>1. PICK t \in T : \A u \in T : t <= u
  <2>1. \A x \in S : x \in 1 .. n /\ n - x \in Nat
    OBVIOUS
  <2>2. T \in SUBSET Nat /\ T # {}
    BY <2>1
  <2> HIDE DEF T
  <2> QED
    BY <2>2, LeastExists
<1>2. PICK x \in S : t = n - x
  OBVIOUS
<1>3. ASSUME NEW y \in S
      PROVE  x >= y
  <2>1. n - y \in T /\ n - x <= n - y
    BY <1>1, <1>2
  <2> QED
    BY <2>1
<1>4. Max(S) \in S /\ \A y \in S : Max(S) >= y
  BY <1>3 DEF Max
<1> QED
  BY <1>4

-------------------------------------------------------------------------------
(* What a word names, and where the words are.                             *)

\* What the parser has of the table, while it is built and after.
TableInv ==
    /\ opts \in Seq({Elements[i] : i \in 1 .. 9})
    /\ args \in Seq({Elements[i] : i \in 1 .. 9})
    /\ \/ Len(args) = 0 /\ Len(opts) \in 0 .. 1
       \/ Len(args) = 1 /\ args[1] = Elements[2] /\ Len(opts) \in 1 .. 8
    /\ \A i \in 1 .. Len(opts) : opts[i] = Elements[Place(i)]
    /\ pc # "build" =>
         /\ Len(opts) = 8 /\ Len(args) = 1
         /\ DOMAIN lookup = {"long", "short"}
         /\ \A s \in {"long", "short"} : \A n \in DOMAIN lookup[s] :
              \E i \in 1 .. 9 : i # 2 /\ lookup[s][n] = Elements[i]

\* A word's switches are options and flags of the table.
LEMMA SwitchedFacts ==
  ASSUME TableInv, pc # "build", NEW w \in Words, w.kind # "plain", Known(w)
  PROVE  /\ IsFiniteSet(OptionsAt(w))
         /\ \A k \in DOMAIN Named(w) :
              \E i \in 1 .. 9 : i # 2 /\ Switched(w)[k] = Elements[i]
         /\ "mode" \notin OptionsOf(w)
         /\ OptionsAt(w) = {} <=> OptionsOf(w) = {}
<1>1. w.kind \in {"long", "short"} /\ IsFiniteSet(DOMAIN Named(w))
  <2>1. CASE w.kind = "long"
    <3>1. DOMAIN Named(w) = {1}
      BY <2>1 DEF Named
    <3> QED
      BY <2>1, <3>1, FS_Singleton
  <2>2. CASE w.kind # "long"
    BY <2>2, WordsAssumption DEF Named
  <2> QED
    BY <2>1, <2>2
<1>2. ASSUME NEW k \in DOMAIN Named(w)
      PROVE  \E i \in 1 .. 9 : i # 2 /\ Switched(w)[k] = Elements[i]
  <2>1. Named(w)[k] \in DOMAIN lookup[w.kind]
    BY DEF Known
  <2>2. Switched(w)[k] = lookup[w.kind][Named(w)[k]]
    BY DEF Switched
  <2> QED
    BY <1>1, <2>1, <2>2 DEF TableInv
<1>3. IsFiniteSet(OptionsAt(w))
  <2>1. OptionsAt(w) \subseteq DOMAIN Named(w)
    BY DEF OptionsAt
  <2> QED
    BY <1>1, <2>1, FS_Subset
<1>4. "mode" \notin OptionsOf(w)
  BY <1>2, ElementFacts DEF OptionsOf, OptionsAt
<1>5. OptionsAt(w) = {} <=> OptionsOf(w) = {}
  BY DEF OptionsOf
<1> QED
  BY <1>2, <1>3, <1>4, <1>5

\* They stay the same as long as the table and the words do.
LEMMA SwitchedSteady ==
  ASSUME UNCHANGED lookup
  PROVE  \A w : /\ Known(w)' <=> Known(w)
                /\ OptionsAt(w)' = OptionsAt(w)
                /\ OptionsOf(w)' = OptionsOf(w)
                /\ FlagsOf(w)' = FlagsOf(w)
                /\ Takes(w)' <=> Takes(w)
<1> TAKE w
<1>1. Known(w)' <=> Known(w)
  BY DEF Known
<1>2. Switched(w)' = Switched(w)
  BY DEF Switched
<1>3. OptionsAt(w)' = OptionsAt(w)
  BY <1>2 DEF OptionsAt
<1>4. OptionsOf(w)' = OptionsOf(w) /\ FlagsOf(w)' = FlagsOf(w)
  BY <1>2, <1>3 DEF OptionsOf, FlagsOf
<1>5. Takes(w)' <=> Takes(w)
  BY <1>1, <1>3 DEF Takes
<1> QED
  BY <1>1, <1>3, <1>4, <1>5

\* And so do the places of the words.
LEMMA PlacesSteady ==
  ASSUME UNCHANGED <<lookup, argv>>
  PROVE  /\ Read' = Read /\ Switches' = Switches /\ Positional' = Positional
         /\ Readable' <=> Readable
<1>1. {i \in DOMAIN argv : Takes(argv[i])}' = {i \in DOMAIN argv : Takes(argv[i])}
  BY SwitchedSteady
<1>2. Read' = Read
  BY <1>1 DEF Read
<1>3. Switches' = Switches /\ Positional' = Positional
  BY <1>2 DEF Switches, Positional
<1>4. Readable' <=> Readable
  BY <1>2, <1>3, SwitchedSteady DEF Readable
<1> QED
  BY <1>2, <1>3, <1>4

-------------------------------------------------------------------------------
(* What has been read.                                                     *)

\* What the words before a place mean.
AskedBefore(name, k) ==
    LET at == {i \in Switches : i < k /\ name \in OptionsOf(argv[i])}
    IN  IF at = {} THEN NULLOPT ELSE argv[Max(at) + 1]
FlagsBefore(k) == UNION {FlagsOf(argv[i]) : i \in {j \in Switches : j < k /\ Known(argv[j])}}
PlainBefore(k) == {i \in Positional : i < k}
ValuedBefore(k) == \A i \in Switches : i < k /\ Takes(argv[i]) => i < Len(argv)

\* The parser has done what they mean, and is at a word that is not a value.
ReadSoFar ==
    /\ arg_idx \in 1 .. Len(argv) + 1
    /\ arg_idx <= Len(argv) => arg_idx \in Read
    /\ \A i \in 1 .. 9 : Elements[i].element = "Option" =>
         parsed_input[Elements[i].name] = AskedBefore(Elements[i].name, arg_idx)
    /\ parsed_state = FlagsBefore(arg_idx) /\ ValuedBefore(arg_idx)
    /\ \/ arg_pos = 0 /\ PlainBefore(arg_idx) = {} /\ parsed_input["mode"] = NULLOPT
       \/ arg_pos = 1 /\ \E i : PlainBefore(arg_idx) = {i} /\ parsed_input["mode"] = argv[i]

\* What may come after the words have been read.
After == pc \in {"help", "log", "serve", "await", "mode"}
            \/ (pc = "ended" /\ outcome # "failure")

LineInv ==
    /\ TableInv
    /\ argv \in Seq(Words) /\ Len(argv) <= MaxWords
    /\ parsed_input = [n \in Names |-> parsed_input[n]]
    /\ pc \in {"build", "call", "parse", "usage", "help", "log", "serve", "await", "mode",
               "ended"}
    /\ pc # "ended" => outcome = NULLOPT
    /\ pc \in {"build", "call"} =>
         /\ arg_idx = 1 /\ arg_pos = 0 /\ parsed_state = {}
         /\ parsed_input = [n \in Names |-> NULLOPT]
    /\ (pc = "parse" \/ After) /\ Readable => ReadSoFar
    /\ After /\ Readable => arg_idx = Len(argv) + 1

\* Past the words there is nothing more to read.
LEMMA PlacesRange ==
  ASSUME argv \in Seq(Words)
  PROVE  /\ Read \subseteq 1 .. Len(argv) /\ Len(argv) \in Nat
         /\ 1 <= Len(argv) => 1 \in Read
         /\ \A i \in 1 .. Len(argv) :
              i \in Read <=> ~(i > 1 /\ Takes(argv[i - 1]) /\ i - 1 \in Read)
<1> DEFINE T == {i \in DOMAIN argv : Takes(argv[i])}
           V == Values(T, Len(argv))
<1>1. Len(argv) \in Nat /\ DOMAIN argv = 1 .. Len(argv)
  OBVIOUS
<1>2. Read = 1 .. Len(argv) \ V
  BY <1>1 DEF Read
<1>3. \A i \in 1 .. Len(argv) : i \in V <=> i > 1 /\ i - 1 \in T /\ i - 1 \notin V
  <2> HIDE DEF T
  <2> QED
    BY <1>1, ValuesNext
<1>4. \A i \in 1 .. Len(argv) : i > 1 => i - 1 \in 1 .. Len(argv)
  BY <1>1
<1> HIDE DEF V
<1> QED
  BY <1>1, <1>2, <1>3, <1>4

\* The word that is read next, and the words read before it.
LEMMA ReadNext ==
  ASSUME argv \in Seq(Words), NEW k \in Read, NEW m,
         IF Takes(argv[k]) THEN k < Len(argv) /\ m = k + 2 ELSE m = k + 1
  PROVE  /\ m \in 1 .. Len(argv) + 1
         /\ m <= Len(argv) => m \in Read
         /\ \A i \in Read : i < m <=> i < k \/ i = k
<1>1. /\ k \in 1 .. Len(argv) /\ Len(argv) \in Nat /\ Read \subseteq 1 .. Len(argv)
      /\ \A i \in 1 .. Len(argv) :
           i \in Read <=> ~(i > 1 /\ Takes(argv[i - 1]) /\ i - 1 \in Read)
  BY PlacesRange
<1>2. CASE Takes(argv[k])
  <2>1. k + 1 \in 1 .. Len(argv) /\ k + 1 - 1 = k /\ k + 1 > 1
    BY <1>1, <1>2
  <2>2. k + 1 \notin Read
    BY <1>1, <1>2, <2>1
  <2>3. m <= Len(argv) => m \in 1 .. Len(argv) /\ m - 1 = k + 1
    BY <1>1, <1>2
  <2>4. m <= Len(argv) => m \in Read
    BY <1>1, <2>2, <2>3
  <2>5. ASSUME NEW i \in Read
        PROVE  i < m <=> i < k \/ i = k
    <3>1. i # k + 1 /\ i \in Nat
      BY <1>1, <2>2
    <3> QED
      BY <1>1, <1>2, <3>1
  <2> QED
    BY <1>1, <1>2, <2>4, <2>5
<1>3. CASE ~Takes(argv[k])
  <2>1. m <= Len(argv) => m \in 1 .. Len(argv) /\ m - 1 = k
    BY <1>1, <1>3
  <2> QED
    BY <1>1, <1>3, <2>1
<1> QED
  BY <1>2, <1>3

\* What the words before a place mean stays the same with them.
LEMMA BeforeSteady ==
  ASSUME UNCHANGED <<lookup, argv>>
  PROVE  \A k : /\ \A name : AskedBefore(name, k)' = AskedBefore(name, k)
                /\ FlagsBefore(k)' = FlagsBefore(k)
                /\ PlainBefore(k)' = PlainBefore(k)
                /\ ValuedBefore(k)' <=> ValuedBefore(k)
<1> TAKE k
<1>1. Switches' = Switches /\ Positional' = Positional
  BY PlacesSteady
<1>2. \A name : AskedBefore(name, k)' = AskedBefore(name, k)
  <2> TAKE name
  <2>1. {i \in Switches : i < k /\ name \in OptionsOf(argv[i])}'
          = {i \in Switches : i < k /\ name \in OptionsOf(argv[i])}
    BY <1>1, SwitchedSteady
  <2> QED
    BY <2>1 DEF AskedBefore
<1>3. FlagsBefore(k)' = FlagsBefore(k)
  <2>1. {j \in Switches : j < k /\ Known(argv[j])}'
          = {j \in Switches : j < k /\ Known(argv[j])}
    BY <1>1, SwitchedSteady
  <2> QED
    BY <2>1, SwitchedSteady DEF FlagsBefore
<1>4. PlainBefore(k)' = PlainBefore(k)
  BY <1>1 DEF PlainBefore
<1>5. ValuedBefore(k)' <=> ValuedBefore(k)
  BY <1>1, SwitchedSteady DEF ValuedBefore
<1> QED
  BY <1>2, <1>3, <1>4, <1>5

\* A switch sets what it names.
LEMMA SwitchSets ==
  ASSUME argv \in Seq(Words), NEW k \in Switches, NEW m, Known(argv[k]),
         \A i \in Read : i < m <=> i < k \/ i = k
  PROVE  /\ \A name : AskedBefore(name, m) =
               IF name \in OptionsOf(argv[k]) THEN argv[k + 1] ELSE AskedBefore(name, k)
         /\ FlagsBefore(m) = FlagsBefore(k) \union FlagsOf(argv[k])
         /\ PlainBefore(m) = PlainBefore(k)
<1>1. /\ Len(argv) \in Nat /\ Read \subseteq 1 .. Len(argv) /\ Switches \subseteq Read
      /\ k \in Read /\ k \in 1 .. Len(argv)
  BY PlacesRange DEF Switches
<1>2. ASSUME NEW name
      PROVE  AskedBefore(name, m) =
               IF name \in OptionsOf(argv[k]) THEN argv[k + 1] ELSE AskedBefore(name, k)
  <2> DEFINE at(j) == {i \in Switches : i < j /\ name \in OptionsOf(argv[i])}
  <2>1. CASE name \in OptionsOf(argv[k])
    <3>1. k \in at(m) /\ \A i \in at(m) : i \in 1 .. Len(argv) /\ i <= k
      BY <1>1, <2>1
    <3>2. at(m) \in SUBSET (1 .. Len(argv)) /\ at(m) # {}
      BY <3>1
    <3> HIDE DEF at
    <3>3. Max(at(m)) \in at(m) /\ \A y \in at(m) : y <= Max(at(m))
      BY <1>1, <3>2, MaxIn
    <3>4. Max(at(m)) = k
      BY <3>1, <3>3
    <3>5. AskedBefore(name, m) = argv[k + 1]
      BY <3>2, <3>4 DEF AskedBefore, at
    <3> QED
      BY <2>1, <3>5
  <2>2. CASE name \notin OptionsOf(argv[k])
    <3>1. at(m) = at(k)
      BY <1>1, <2>2
    <3> QED
      BY <2>2, <3>1 DEF AskedBefore
  <2> QED
    BY <2>1, <2>2
<1>3. FlagsBefore(m) = FlagsBefore(k) \union FlagsOf(argv[k])
  <2>1. {j \in Switches : j < m /\ Known(argv[j])}
          = {j \in Switches : j < k /\ Known(argv[j])} \union {k}
    BY <1>1
  <2> QED
    BY <2>1 DEF FlagsBefore
<1>4. PlainBefore(m) = PlainBefore(k)
  BY <1>1 DEF PlainBefore, Positional, Switches
<1> QED
  BY <1>2, <1>3, <1>4

\* A plain word sets nothing but the argument.
LEMMA PlainSets ==
  ASSUME argv \in Seq(Words), NEW k \in Positional, NEW m,
         \A i \in Read : i < m <=> i < k \/ i = k
  PROVE  /\ \A name : AskedBefore(name, m) = AskedBefore(name, k)
         /\ FlagsBefore(m) = FlagsBefore(k)
         /\ PlainBefore(m) = PlainBefore(k) \union {k}
<1>1. Switches \subseteq Read /\ Positional \subseteq Read /\ k \notin Switches
  BY DEF Switches, Positional
<1>2. ASSUME NEW name
      PROVE  AskedBefore(name, m) = AskedBefore(name, k)
  <2>1. {i \in Switches : i < m /\ name \in OptionsOf(argv[i])}
          = {i \in Switches : i < k /\ name \in OptionsOf(argv[i])}
    BY <1>1
  <2> QED
    BY <2>1 DEF AskedBefore
<1>3. FlagsBefore(m) = FlagsBefore(k)
  <2>1. {j \in Switches : j < m /\ Known(argv[j])} = {j \in Switches : j < k /\ Known(argv[j])}
    BY <1>1
  <2> QED
    BY <2>1 DEF FlagsBefore
<1>4. PlainBefore(m) = PlainBefore(k) \union {k}
  BY <1>1 DEF PlainBefore
<1> QED
  BY <1>2, <1>3, <1>4

-------------------------------------------------------------------------------
(* The steps of the parser.                                                *)

\* A step that leaves the table alone leaves what is known of it.
LEMMA TableSteady ==
  ASSUME TableInv, pc # "build", pc' # "build", UNCHANGED table
  PROVE  TableInv'
BY DEF TableInv, table

\* A switch is read with its value, if it takes one.
LEMMA ReadASwitch ==
  ASSUME LineInv, ParseSwitch
  PROVE  LineInv'
<1> DEFINE k == arg_idx
           w == argv[arg_idx]
<1>1. /\ pc = "parse" /\ k <= Len(argv) /\ w.kind # "plain" /\ Known(w)
      /\ OptionsAt(w) # {} => k < Len(argv)
      /\ parsed_input' = [n \in Names |->
                            IF n \in OptionsOf(w) THEN argv[k + 1] ELSE parsed_input[n]]
      /\ parsed_state' = parsed_state \union FlagsOf(w)
      /\ arg_idx' = k + 1 + Cardinality(OptionsAt(w))
      /\ UNCHANGED <<opts, args, lookup, argv, arg_pos, pc, outcome>>
  BY DEF ParseSwitch, Parsing, table
<1>2. TableInv'
  BY <1>1, TableSteady DEF LineInv, table
<1>3. parsed_input' = [n \in Names |-> parsed_input'[n]]
  BY <1>1
<1>4. ASSUME Readable
      PROVE  ReadSoFar'
  <2>1. /\ ReadSoFar /\ argv \in Seq(Words) /\ k \in Read /\ k \in 1 .. Len(argv)
        /\ w \in Words
    BY <1>1, <1>4, PlacesRange DEF LineInv, ReadSoFar
  <2>2. k \in Switches /\ Cardinality(OptionsAt(w)) <= 1
    BY <1>1, <1>4, <2>1 DEF Switches, Readable
  <2>3. IsFiniteSet(OptionsAt(w)) /\ "mode" \notin OptionsOf(w)
    BY <1>1, <2>1, SwitchedFacts DEF LineInv
  <2>4. Takes(w) <=> OptionsAt(w) # {}
    BY <1>1 DEF Takes
  <2>5. IF Takes(w) THEN k < Len(argv) /\ arg_idx' = k + 2 ELSE arg_idx' = k + 1
    <3>1. Cardinality(OptionsAt(w)) \in Nat /\ (Cardinality(OptionsAt(w)) = 0 <=> OptionsAt(w) = {})
      BY <2>3, FS_CardinalityType, FS_EmptySet
    <3> QED
      BY <1>1, <2>1, <2>2, <2>4, <3>1
  <2> HIDE DEF k, w
  <2>6. PICK m : m = arg_idx'
    OBVIOUS
  <2>7. /\ m \in 1 .. Len(argv) + 1
        /\ m <= Len(argv) => m \in Read
        /\ \A i \in Read : i < m <=> i < k \/ i = k
    BY <2>1, <2>5, <2>6, ReadNext DEF w, k
  <2>8. /\ \A name : AskedBefore(name, m)' =
             IF name \in OptionsOf(w) THEN argv[k + 1] ELSE AskedBefore(name, k)
        /\ FlagsBefore(m)' = FlagsBefore(k) \union FlagsOf(w)
        /\ PlainBefore(m)' = PlainBefore(k)
        /\ Read' = Read
    <3>1. Known(argv[k]) /\ w = argv[k]
      BY <1>1 DEF w, k
    <3>2. /\ \A name : AskedBefore(name, m) =
                IF name \in OptionsOf(argv[k]) THEN argv[k + 1] ELSE AskedBefore(name, k)
          /\ FlagsBefore(m) = FlagsBefore(k) \union FlagsOf(argv[k])
          /\ PlainBefore(m) = PlainBefore(k)
      BY <2>1, <2>2, <2>7, <3>1, SwitchSets
    <3> QED
      BY <1>1, <3>1, <3>2, BeforeSteady, PlacesSteady
  <2>9. ASSUME NEW i \in 1 .. 9, Elements[i].element = "Option"
        PROVE  parsed_input'[Elements[i].name] = AskedBefore(Elements[i].name, m)'
    <3>1. Elements[i].name \in Names
      BY ElementFacts DEF Names
    <3>2. parsed_input[Elements[i].name] = AskedBefore(Elements[i].name, k)
      BY <2>1, <2>9 DEF ReadSoFar, k
    <3> QED
      BY <1>1, <2>8, <3>1, <3>2
  <2>10. parsed_state' = FlagsBefore(m)'
    BY <1>1, <2>1, <2>8 DEF ReadSoFar, k
  <2>11. parsed_input'["mode"] = parsed_input["mode"]
    <3>1. "mode" \in Names
      BY ElementFacts DEF Names
    <3> QED
      BY <1>1, <2>3, <3>1
  <2>12. \/ /\ arg_pos' = 0 /\ PlainBefore(m)' = {} /\ parsed_input'["mode"] = NULLOPT
         \/ /\ arg_pos' = 1
            /\ \E i : PlainBefore(m)' = {i} /\ parsed_input'["mode"] = argv'[i]
    BY <1>1, <2>1, <2>8, <2>11 DEF ReadSoFar, k
  <2>13. ValuedBefore(m)'
    <3>1. ValuedBefore(m)
      <4>1. ValuedBefore(k)
        BY <2>1 DEF ReadSoFar, k
      <4>2. w = argv[k]
        BY DEF w, k
      <4> QED
        BY <2>5, <2>7, <4>1, <4>2 DEF ValuedBefore, Switches
    <3> QED
      BY <1>1, <3>1, BeforeSteady
  <2> QED
    BY <1>1, <2>6, <2>7, <2>8, <2>9, <2>10, <2>12, <2>13 DEF ReadSoFar
<1>5. Readable' <=> Readable
  BY <1>1, PlacesSteady
<1>6. ~After' /\ pc' = "parse"
  BY <1>1 DEF After, LineInv
<1> QED
  BY <1>1, <1>2, <1>3, <1>4, <1>5, <1>6 DEF LineInv

\* Plain text is the one argument.
LEMMA ReadAnArg ==
  ASSUME LineInv, ParseArg
  PROVE  LineInv'
<1> DEFINE k == arg_idx
<1>1. /\ pc = "parse" /\ k <= Len(argv) /\ argv[k].kind = "plain" /\ arg_pos < Len(args)
      /\ parsed_input' = [parsed_input EXCEPT ![args[arg_pos + 1].name] = argv[k]]
      /\ arg_pos' = arg_pos + 1 /\ arg_idx' = k + 1
      /\ UNCHANGED <<opts, args, lookup, argv, parsed_state, pc, outcome>>
  BY DEF ParseArg, Parsing, table
<1>2. TableInv'
  BY <1>1, TableSteady DEF LineInv, table
<1>3. parsed_input' = [n \in Names |-> parsed_input'[n]]
  BY <1>1 DEF LineInv
<1>4. ASSUME Readable
      PROVE  ReadSoFar'
  <2>1. /\ ReadSoFar /\ argv \in Seq(Words) /\ k \in Read /\ k \in 1 .. Len(argv)
        /\ Len(args) = 1 /\ args[1].name = "mode"
    BY <1>1, <1>4, PlacesRange, ElementFacts DEF LineInv, ReadSoFar, TableInv
  <2>2. k \in Positional /\ ~Takes(argv[k])
    BY <1>1, <2>1 DEF Positional, Takes
  <2>3. arg_pos = 0 /\ PlainBefore(k) = {} /\ args[arg_pos + 1].name = "mode"
    BY <1>1, <2>1 DEF ReadSoFar
  <2> HIDE DEF k
  <2>4. PICK m : m = arg_idx'
    OBVIOUS
  <2>5. /\ m \in 1 .. Len(argv) + 1
        /\ m <= Len(argv) => m \in Read
        /\ \A i \in Read : i < m <=> i < k \/ i = k
    BY <1>1, <2>1, <2>2, <2>4, ReadNext
  <2>6. /\ \A name : AskedBefore(name, m)' = AskedBefore(name, k)
        /\ FlagsBefore(m)' = FlagsBefore(k)
        /\ PlainBefore(m)' = {k}
        /\ Read' = Read
    <3>1. /\ \A name : AskedBefore(name, m) = AskedBefore(name, k)
          /\ FlagsBefore(m) = FlagsBefore(k)
          /\ PlainBefore(m) = PlainBefore(k) \union {k}
      BY <2>1, <2>2, <2>5, PlainSets
    <3> QED
      BY <1>1, <2>3, <3>1, BeforeSteady, PlacesSteady
  <2>7. "mode" \in Names
    BY ElementFacts DEF Names
  <2>8. parsed_input'["mode"] = argv[k]
    BY <1>1, <2>3, <2>7 DEF LineInv
  <2>9. ASSUME NEW i \in 1 .. 9, Elements[i].element = "Option"
        PROVE  parsed_input'[Elements[i].name] = AskedBefore(Elements[i].name, m)'
    <3>1. Elements[i].name \in Names /\ Elements[i].name # "mode"
      BY <2>9, ElementFacts DEF Names
    <3>2. parsed_input[Elements[i].name] = AskedBefore(Elements[i].name, k)
      BY <2>1, <2>9 DEF ReadSoFar, k
    <3>3. parsed_input'[Elements[i].name] = parsed_input[Elements[i].name]
      BY <1>1, <2>3, <3>1 DEF LineInv
    <3> QED
      BY <2>6, <3>2, <3>3
  <2>10. parsed_state' = FlagsBefore(m)' /\ arg_pos' = 1
    BY <1>1, <2>1, <2>3, <2>6 DEF ReadSoFar, k
  <2>11. ValuedBefore(m)'
    <3>1. ValuedBefore(k)
      BY <2>1 DEF ReadSoFar, k
    <3>2. ValuedBefore(m)
      BY <2>2, <2>5, <3>1 DEF ValuedBefore, Switches
    <3> QED
      BY <1>1, <3>2, BeforeSteady
  <2> QED
    BY <1>1, <2>4, <2>5, <2>6, <2>8, <2>9, <2>10, <2>11 DEF ReadSoFar
<1>5. Readable' <=> Readable
  BY <1>1, PlacesSteady
<1>6. ~After' /\ pc' = "parse"
  BY <1>1 DEF After, LineInv
<1> QED
  BY <1>1, <1>2, <1>3, <1>4, <1>5, <1>6 DEF LineInv

\* The parser is built element by element.
LEMMA BuildNext ==
  ASSUME LineInv, AddElement
  PROVE  LineInv'
<1> DEFINE n == Len(opts) + Len(args)
           e == Elements[n + 1]
<1>1. /\ pc = "build" /\ n < Len(Elements)
      /\ IF e.element = "Arg" THEN args' = Append(args, e) /\ UNCHANGED opts
                              ELSE opts' = Append(opts, e) /\ UNCHANGED args
      /\ UNCHANGED <<lookup, parsed, pc, outcome>>
  BY DEF AddElement
<1>2. /\ TableInv /\ Len(Elements) = 9 /\ Len(opts) \in Nat /\ Len(args) \in Nat
      /\ \A i \in 1 .. 9 : Elements[i].element = "Arg" <=> i = 2
  BY ElementFacts DEF LineInv, TableInv
<1>3. n + 1 \in 1 .. 9
  <2>1. n \in Nat /\ n < 9
    BY <1>1, <1>2
  <2> QED
    BY <2>1
<1>4. TableInv'
  <2>1. CASE n = 1
    <3>1. /\ Len(args) = 0 /\ Len(opts) = 1 /\ e = Elements[2]
          /\ args' = Append(args, e) /\ UNCHANGED opts
      BY <1>1, <1>2, <2>1 DEF TableInv
    <3>2. args' \in Seq({Elements[i] : i \in 1 .. 9}) /\ Len(args') = 1 /\ args'[1] = Elements[2]
      BY <1>2, <3>1 DEF TableInv
    <3>3. /\ opts' = opts /\ lookup' = lookup /\ pc' = "build" /\ Len(opts') = 1
          /\ DOMAIN args' = 1 .. 1
      BY <1>1, <3>1, <3>2
    <3>4. \A i \in 1 .. Len(opts') : opts'[i] = Elements[Place(i)]
      <4>1. \A i \in 1 .. Len(opts) : opts[i] = Elements[Place(i)]
        BY <1>2 DEF TableInv
      <4>2. opts' = opts
        BY <3>3
      <4> QED
        BY <4>1, <4>2
    <3>5. opts' \in Seq({Elements[i] : i \in 1 .. 9}) /\ Len(opts') \in 1 .. 8
      BY <1>2, <3>3 DEF TableInv
    <3> HIDE DEF n, e
    <3> QED
      BY <3>2, <3>3, <3>4, <3>5 DEF TableInv
  <2>2. CASE n # 1
    <3>1. opts' = Append(opts, e) /\ UNCHANGED args
      BY <1>1, <1>2, <1>3, <2>2
    <3>2. Place(Len(opts) + 1) = n + 1
      <4>1. CASE Len(opts) = 0
        <5>1. Len(args) = 0
          BY <1>2, <2>2, <4>1 DEF TableInv
        <5> QED
          BY <4>1, <5>1 DEF Place
      <4>2. CASE Len(opts) # 0
        <5>1. Len(args) = 1
          BY <1>2, <2>2, <4>2 DEF TableInv
        <5> QED
          BY <1>2, <4>2, <5>1 DEF Place
      <4> QED
        BY <4>1, <4>2
    <3> HIDE DEF n
    <3>3. /\ opts' \in Seq({Elements[i] : i \in 1 .. 9}) /\ Len(opts') = Len(opts) + 1
          /\ \A i \in 1 .. Len(opts') : opts'[i] = Elements[Place(i)]
      BY <1>2, <1>3, <3>1, <3>2 DEF TableInv
    <3>4. \/ Len(args) = 0 /\ Len(opts') \in 0 .. 1
          \/ Len(args) = 1 /\ args[1] = Elements[2] /\ Len(opts') \in 1 .. 8
      <4>1. n = Len(opts) + Len(args) /\ n + 1 \in 1 .. 9 /\ n # 1
        BY <1>3, <2>2 DEF n
      <4>2. CASE Len(args) = 0
        <5>1. Len(opts) \in 0 .. 1
          BY <1>2, <4>2 DEF TableInv
        <5>2. Len(opts) = 0
          BY <4>1, <4>2, <5>1
        <5> QED
          BY <3>3, <4>2, <5>2
      <4>3. CASE Len(args) # 0
        <5>1. Len(args) = 1 /\ args[1] = Elements[2] /\ Len(opts) \in 1 .. 8
          BY <1>2, <4>3 DEF TableInv
        <5>2. Len(opts) + 1 \in 1 .. 8
          BY <4>1, <5>1
        <5> QED
          BY <3>3, <5>1, <5>2
      <4> QED
        BY <4>2, <4>3
    <3> QED
      BY <1>1, <1>2, <3>1, <3>3, <3>4 DEF TableInv
  <2> QED
    BY <2>1, <2>2
<1>5. ~After' /\ pc' = "build" /\ outcome' = NULLOPT
  BY <1>1 DEF After, LineInv
<1> QED
  BY <1>1, <1>4, <1>5 DEF LineInv, parsed

\* The lookups lead to elements of the table.
LEMMA FinalizeNext ==
  ASSUME LineInv, Finalize
  PROVE  LineInv'
<1>1. /\ pc = "build" /\ Len(opts) + Len(args) = 9
      /\ lookup' = [long |-> Lookup("long"), short |-> Lookup("short")]
      /\ pc' = "call" /\ UNCHANGED <<opts, args, parsed, outcome>>
  BY ElementFacts DEF Finalize, Goto
<1>2. TableInv
  BY DEF LineInv
<1>3. Len(opts) = 8 /\ Len(args) = 1
  <2>1. PICK m : m = Len(opts)
    OBVIOUS
  <2>2. PICK n : n = Len(args)
    OBVIOUS
  <2>3. m + n = 9
    BY <1>1, <2>1, <2>2
  <2>4. m \in Nat /\ ((n = 0 /\ m \in 0 .. 1) \/ n = 1)
    BY <1>2, <2>1, <2>2 DEF TableInv
  <2>5. m = 8 /\ n = 1
    BY <2>3, <2>4
  <2> QED
    BY <2>1, <2>2, <2>5
<1>4. ASSUME NEW s \in {"long", "short"}, NEW n \in DOMAIN Lookup(s)
      PROVE  \E i \in 1 .. 9 : i # 2 /\ Lookup(s)[n] = Elements[i]
  <2> DEFINE at == {i \in DOMAIN opts : opts[i][s] = n}
  <2>1. DOMAIN opts = 1 .. 8
    BY <1>2, <1>3 DEF TableInv
  <2>2. at \in SUBSET (1 .. 8) /\ at # {} /\ Lookup(s)[n] = opts[Max(at)]
    BY <2>1 DEF Lookup
  <2>3. Max(at) \in at
    <3> HIDE DEF at
    <3> QED
      BY <2>2, MaxIn
  <2>4. Max(at) \in 1 .. 8
    BY <2>2, <2>3
  <2>5. Place(Max(at)) \in 1 .. 9 /\ Place(Max(at)) # 2
    BY <2>4 DEF Place
  <2>6. Lookup(s)[n] = Elements[Place(Max(at))]
    BY <1>2, <1>3, <2>2, <2>4 DEF TableInv
  <2> HIDE DEF at
  <2> QED
    BY <2>5, <2>6
<1>5. /\ DOMAIN lookup' = {"long", "short"}
      /\ \A s \in {"long", "short"} : lookup'[s] = Lookup(s)
  BY <1>1
<1>6. TableInv'
  BY <1>1, <1>2, <1>3, <1>4, <1>5 DEF TableInv
<1>7. ~After' /\ outcome' = NULLOPT
  BY <1>1 DEF After, LineInv
<1> QED
  BY <1>1, <1>6, <1>7 DEF LineInv, parsed

\* The words come, and none of them has been read.
LEMMA CallNext ==
  ASSUME LineInv, Call
  PROVE  LineInv'
<1>1. PICK n \in 0 .. MaxWords : \E w \in [1 .. n -> Words] : argv' = w
  BY DEF Call
<1>2. /\ pc = "call" /\ pc' = "parse"
      /\ UNCHANGED <<opts, args, lookup, arg_idx, arg_pos, parsed_input, parsed_state,
                     outcome>>
  BY DEF Call, Goto, table
<1>3. argv' \in Seq(Words) /\ Len(argv') <= MaxWords /\ Len(argv') \in Nat
  <2>1. n \in Nat /\ argv' \in [1 .. n -> Words]
    BY <1>1
  <2>2. argv' \in Seq(Words) /\ Len(argv') = n
    BY <2>1
  <2> QED
    BY <1>1, <2>2, WordsAssumption
<1>4. TableInv'
  BY <1>2, TableSteady DEF LineInv, table
<1>5. ReadSoFar'
  <2>1. /\ arg_idx' = 1 /\ arg_pos' = 0 /\ parsed_state' = {}
        /\ \A m \in Names : parsed_input'[m] = NULLOPT
    BY <1>2 DEF LineInv
  <2>2. PICK T : T = {i \in DOMAIN argv : Takes(argv[i])}'
    OBVIOUS
  <2>3. Read' = (1 .. Len(argv')) \ Values(T, Len(argv'))
    BY <1>3, <2>2 DEF Read
  <2>4. \A i \in Read' : ~(i < 1)
    BY <1>3, <2>3
  <2>5. 1 <= Len(argv') => 1 \in Read'
    <3>1. 1 <= Len(argv') => 1 \in 1 .. Len(argv') /\ ~(1 > 1)
      BY <1>3
    <3>2. 1 <= Len(argv') => 1 \notin Values(T, Len(argv'))
      BY <1>3, <3>1, ValuesNext
    <3> QED
      BY <2>3, <3>1, <3>2
  <2>6. /\ \A name : AskedBefore(name, 1)' = NULLOPT
        /\ FlagsBefore(1)' = {} /\ PlainBefore(1)' = {} /\ ValuedBefore(1)'
    BY <2>4 DEF AskedBefore, FlagsBefore, PlainBefore, ValuedBefore, Switches, Positional
  <2>7. \A i \in 1 .. 9 : Elements[i].name \in Names
    BY ElementFacts DEF Names
  <2>8. \A i \in 1 .. 9 : parsed_input'[Elements[i].name] = NULLOPT
    BY <2>1, <2>7
  <2>9. parsed_input'["mode"] = NULLOPT
    BY <2>8, ElementFacts
  <2>10. 1 \in 1 .. Len(argv') + 1
    BY <1>3
  <2> QED
    BY <2>1, <2>5, <2>6, <2>8, <2>9, <2>10 DEF ReadSoFar
<1>6. ~After'
  BY <1>2 DEF After
<1> QED
  BY <1>2, <1>3, <1>4, <1>5, <1>6 DEF LineInv

\* A step after which nothing more is read.
LEMMA StopsReading ==
  ASSUME LineInv, UNCHANGED <<table, parsed>>, pc \notin {"build", "call"},
         pc' \in {"usage", "help", "log", "serve", "await", "mode", "ended"},
         pc' # "ended" => outcome' = NULLOPT,
         After' /\ Readable => (After \/ (pc = "parse" /\ arg_idx > Len(argv)))
  PROVE  LineInv'
<1>1. TableInv'
  BY TableSteady DEF LineInv
<1>2. /\ UNCHANGED <<opts, args, lookup, argv, arg_idx, arg_pos, parsed_input, parsed_state>>
      /\ Readable' <=> Readable
  BY PlacesSteady DEF table, parsed
<1>3. ASSUME After', Readable
      PROVE  ReadSoFar' /\ arg_idx = Len(argv) + 1
  <2>1. ReadSoFar /\ argv \in Seq(Words)
    BY <1>3 DEF LineInv
  <2>2. arg_idx = Len(argv) + 1
    BY <1>3, <2>1 DEF LineInv, ReadSoFar
  <2>3. /\ \A name : AskedBefore(name, arg_idx)' = AskedBefore(name, arg_idx)
        /\ FlagsBefore(arg_idx)' = FlagsBefore(arg_idx)
        /\ PlainBefore(arg_idx)' = PlainBefore(arg_idx)
        /\ ValuedBefore(arg_idx)' <=> ValuedBefore(arg_idx)
        /\ Read' = Read
    <3>1. PICK k : k = arg_idx /\ k = arg_idx'
      BY <1>2
    <3>2. /\ \A name : AskedBefore(name, k)' = AskedBefore(name, k)
          /\ FlagsBefore(k)' = FlagsBefore(k)
          /\ PlainBefore(k)' = PlainBefore(k)
          /\ ValuedBefore(k)' <=> ValuedBefore(k)
          /\ Read' = Read
      BY <1>2, BeforeSteady, PlacesSteady
    <3> QED
      BY <3>1, <3>2
  <2> QED
    BY <1>2, <2>1, <2>2, <2>3 DEF ReadSoFar
<1> QED
  BY <1>1, <1>2, <1>3 DEF LineInv

\* Until main knows what to start.
LEMMA LineNext == LineInv /\ [Next]_vars => LineInv'
<1> SUFFICES ASSUME LineInv, [Next]_vars
             PROVE  LineInv'
  OBVIOUS
<1>1. CASE UNCHANGED vars
  <2>1. UNCHANGED <<table, parsed, pc, outcome>>
    BY <1>1 DEF vars
  <2>2. TableInv' /\ (Readable' <=> Readable) /\ (After' <=> After)
    BY <2>1, PlacesSteady DEF LineInv, TableInv, After, table, parsed
  <2>3. PICK k : k = arg_idx /\ k = arg_idx'
    BY <2>1 DEF parsed
  <2>4. /\ \A name : AskedBefore(name, k)' = AskedBefore(name, k)
        /\ FlagsBefore(k)' = FlagsBefore(k)
        /\ PlainBefore(k)' = PlainBefore(k)
        /\ ValuedBefore(k)' <=> ValuedBefore(k)
        /\ Read' = Read
    BY <2>1, BeforeSteady, PlacesSteady DEF table, parsed
  <2>5. ReadSoFar => ReadSoFar'
    BY <2>1, <2>3, <2>4 DEF ReadSoFar, parsed
  <2> QED
    BY <2>1, <2>2, <2>5 DEF LineInv, parsed
<1>2. CASE AddElement \/ Finalize \/ Call \/ ParseSwitch \/ ParseArg
  BY <1>2, BuildNext, FinalizeNext, CallNext, ReadASwitch, ReadAnArg
<1>3. CASE ParseThrows
  <2>1. Readable => FALSE
    BY <1>3 DEF ParseThrows, Parsing, LineInv, ReadSoFar, Readable
  <2> QED
    BY <1>3, <2>1, StopsReading DEF ParseThrows, Parsing, Ends
<1>4. CASE ParseError
  BY <1>4, StopsReading DEF ParseError, Parsing, Goto, After, LineInv
<1>5. CASE ParseDone
  BY <1>5, StopsReading DEF ParseDone, Goto, LineInv
<1>6. CASE Usage
  <2>1. HelpWorks
    <3>1. TableInv /\ pc # "build"
      BY <1>6 DEF Usage, LineInv
    <3>2. lookup # << >>
      <4>1. "long" \in DOMAIN lookup
        BY <3>1 DEF TableInv
      <4>2. DOMAIN << >> = {}
        OBVIOUS
      <4> QED
        BY <4>1, <4>2
    <3>3. ASSUME NEW i \in DOMAIN opts
          PROVE  opts[i].long # NULLOPT
      <4>1. i \in 1 .. 8
        BY <3>1 DEF TableInv
      <4>3. opts[i] = Elements[Place(i)]
        BY <3>1, <4>1 DEF TableInv
      <4>2. Place(i) \in 1 .. 9 /\ Place(i) # 2
        BY <4>1 DEF Place
      <4> QED
        BY <4>2, <4>3, ElementFacts
    <3> QED
      BY <3>2, <3>3 DEF HelpWorks
  <2> QED
    BY <1>6, <2>1, StopsReading DEF Usage, Ends, After
<1>7. CASE Help \/ SetLog \/ ServeReplay \/ Server \/ StartSession
  BY <1>7, StopsReading DEF Help, SetLog, ServeReplay, Server, StartSession, Ends, Goto,
                            After, LineInv
<1> QED
  BY <1>1, <1>2, <1>3, <1>4, <1>5, <1>6, <1>7 DEF Next

\* Before there is a parser.
LEMMA LineInit == Init => LineInv
<1> SUFFICES ASSUME Init
             PROVE  LineInv
  OBVIOUS
<1>1. ~After
  BY DEF Init, After
<1>2. TableInv
  BY DEF Init, TableInv
<1>3. parsed_input = [n \in Names |-> parsed_input[n]]
  BY DEF Init
<1>4. argv \in Seq(Words) /\ Len(argv) = 0
  BY DEF Init
<1> QED
  BY <1>1, <1>2, <1>3, <1>4, WordsAssumption DEF Init, LineInv

\* What the words mean once all of them have been read.
LEMMA AllRead ==
  ASSUME LineInv, After, Readable
  PROVE  /\ \A i \in 1 .. 9 : Elements[i].element = "Option" =>
              parsed_input[Elements[i].name] = Asked(Elements[i].name)
         /\ parsed_state = FlagsAsked
         /\ \A i \in Switches : Takes(argv[i]) => i < Len(argv)
         /\ \/ arg_pos = 0 /\ Positional = {} /\ parsed_input["mode"] = NULLOPT
            \/ arg_pos = 1 /\ \E i : Positional = {i} /\ parsed_input["mode"] = argv[i]
<1>1. /\ ReadSoFar /\ argv \in Seq(Words) /\ arg_idx = Len(argv) + 1
  BY DEF LineInv
<1>2. \A i \in Read : i < arg_idx
  BY <1>1, PlacesRange
<1>3. /\ \A name : AskedBefore(name, arg_idx) = Asked(name)
      /\ FlagsBefore(arg_idx) = FlagsAsked
      /\ PlainBefore(arg_idx) = Positional
  <2>1. \A name : {i \in Switches : i < arg_idx /\ name \in OptionsOf(argv[i])}
                    = {i \in Switches : name \in OptionsOf(argv[i])}
    BY <1>2 DEF Switches
  <2>2. {j \in Switches : j < arg_idx /\ Known(argv[j])} = {j \in Switches : Known(argv[j])}
    BY <1>2 DEF Switches
  <2>3. {i \in Positional : i < arg_idx} = Positional
    BY <1>2 DEF Positional
  <2> QED
    BY <2>1, <2>2, <2>3 DEF AskedBefore, FlagsBefore, PlainBefore, Asked, FlagsAsked
<1>4. \A i \in Switches : Takes(argv[i]) => i < Len(argv)
  BY <1>1, <1>2 DEF ReadSoFar, ValuedBefore, Switches
<1> QED
  BY <1>1, <1>3, <1>4 DEF ReadSoFar

-------------------------------------------------------------------------------
(* What main decides.                                                      *)

\* What main has found out by the time it comes to a place.
StartInv ==
    /\ pc \in {"log", "serve", "await", "mode"} => "help" \notin parsed_state
    /\ pc \in {"serve", "await", "mode"} => Got("log_level")
    /\ pc = "await" => "serve_replay" \in parsed_state
    /\ pc = "mode" => "serve_replay" \notin parsed_state
    /\ outcome \in {"serving", "session"} =>
         /\ pc = "ended" /\ "help" \notin parsed_state /\ Got("log_level")
         /\ outcome = "serving" => "serve_replay" \in parsed_state /\ Got("source")
         /\ outcome = "session" => "serve_replay" \notin parsed_state /\ Got("mode")

\* Neither the mode nor the source has a default.
LEMMA NoDefault == Default("mode") = NULLOPT /\ Default("source") = NULLOPT
<1>1. /\ Elements[2].name = "mode" /\ Elements[2].default = NULLOPT
      /\ Elements[3].name = "source" /\ Elements[3].default = NULLOPT
  BY DEF Elements, Option
<1>2. DOMAIN Elements = 1 .. 9
  BY ElementFacts
<1>3. ASSUME NEW k \in 1 .. 9
      PROVE  Default(Elements[k].name) = Elements[k].default
  <2> DEFINE i == CHOOSE i \in DOMAIN Elements : Elements[i].name = Elements[k].name
  <2>1. i \in DOMAIN Elements /\ Elements[i].name = Elements[k].name
    BY <1>2
  <2> HIDE DEF i
  <2>2. i = k
    BY <1>2, <2>1, ElementFacts
  <2>3. Default(Elements[k].name) = Elements[i].default
    BY DEF Default, i
  <2> QED
    BY <2>2, <2>3
<1> QED
  BY <1>1, <1>3

\* What get() finds depends on what has been parsed.
LEMMA GotSteady ==
  ASSUME UNCHANGED parsed_input, NEW name
  PROVE  Got(name)' <=> Got(name)
BY DEF Got

\* main goes from one question to the next with the answers it got.
LEMMA StartNext == LineInv /\ StartInv /\ [Next]_vars => StartInv'
<1> SUFFICES ASSUME LineInv, StartInv, [Next]_vars
             PROVE  StartInv'
  OBVIOUS
<1>1. /\ pc # "ended" => outcome = NULLOPT
      /\ NULLOPT \notin {"success", "failure", "terminate", "serving", "session"}
  BY NulloptAssumption DEF LineInv
<1>2. CASE UNCHANGED vars
  <2>1. UNCHANGED <<pc, outcome, parsed_state, parsed_input>>
    BY <1>2 DEF vars, parsed
  <2>2. \A name : Got(name)' <=> Got(name)
    BY <2>1, GotSteady
  <2> QED
    BY <2>1, <2>2 DEF StartInv
<1>3. CASE \/ AddElement \/ Finalize \/ Call
           \/ ParseThrows \/ ParseSwitch \/ ParseArg \/ ParseError \/ ParseDone \/ Usage
  <2>1. pc' \in {"build", "call", "parse", "usage", "help", "ended"}
    BY <1>3 DEF AddElement, Finalize, Call, ParseThrows, ParseSwitch, ParseArg, ParseError,
                ParseDone, Usage, Parsing, Goto, Ends
  <2>2. outcome' \in {NULLOPT, "failure", "terminate"}
    BY <1>1, <1>3 DEF AddElement, Finalize, Call, ParseThrows, ParseSwitch, ParseArg,
                      ParseError, ParseDone, Usage, Parsing, Goto, Ends
  <2> QED
    BY <1>1, <2>1, <2>2 DEF StartInv
<1>4. ASSUME UNCHANGED <<table, parsed>>
      PROVE  /\ parsed_state' = parsed_state
             /\ \A name : Got(name)' <=> Got(name)
  BY <1>4, GotSteady DEF parsed
<1>5. CASE Help
  BY <1>1, <1>4, <1>5 DEF Help, StartInv, Goto, Ends
<1>6. CASE SetLog
  BY <1>1, <1>4, <1>6 DEF SetLog, StartInv, Goto, Ends
<1>7. CASE ServeReplay
  BY <1>1, <1>4, <1>7 DEF ServeReplay, StartInv, Goto
<1>8. CASE Server
  BY <1>1, <1>4, <1>8 DEF Server, StartInv, Ends
<1>9. CASE StartSession
  BY <1>1, <1>4, <1>9 DEF StartSession, StartInv, Ends
<1> QED
  BY <1>2, <1>3, <1>5, <1>6, <1>7, <1>8, <1>9 DEF Next

\* The parser and main in every behaviour.
LEMMA LineCorrect == Spec => [](LineInv /\ StartInv)
<1>1. Init => LineInv /\ StartInv
  <2>1. Init => StartInv
    BY NulloptAssumption DEF Init, StartInv
  <2> QED
    BY <2>1, LineInit
<1>2. LineInv /\ StartInv /\ [Next]_vars => LineInv' /\ StartInv'
  BY LineNext, StartNext
<1> QED
  BY <1>1, <1>2, PTL DEF Spec

\* When parse_input returns, every value, flag and argument is the one the line
\* means, whatever the words are and however many.
THEOREM ParsedAsReadAlways == Spec => []ParsedAsRead
<1>1. ASSUME LineInv
      PROVE  ParsedAsRead
  <2> SUFFICES ASSUME Parsed, Readable
               PROVE  /\ \A i \in Switches : Takes(argv[i]) => i < Len(argv)
                      /\ \A i \in DOMAIN opts : opts[i].element = "Option" =>
                           parsed_input[opts[i].name] = Asked(opts[i].name)
                      /\ parsed_state = FlagsAsked
                      /\ Cardinality(Positional) = arg_pos
                      /\ \A i \in Positional :
                           LET k == Cardinality({j \in Positional : j <= i})
                           IN  parsed_input[args[k].name] = argv[i]
    BY DEF ParsedAsRead
  <2>1. After
    BY <1>1 DEF Parsed, After, LineInv
  <2>2. /\ TableInv /\ pc # "build" /\ argv \in Seq(Words)
    BY <1>1, <2>1 DEF LineInv, After
  <2>3. Len(opts) = 8 /\ DOMAIN opts = 1 .. 8 /\ args[1] = Elements[2]
    <3>1. Len(opts) = 8 /\ args[1] = Elements[2]
      <4>1. Len(opts) = 8 /\ Len(args) = 1
        BY <2>2 DEF TableInv
      <4>2. Len(args) = 0 \/ args[1] = Elements[2]
        BY <2>2 DEF TableInv
      <4> QED
        BY <4>1, <4>2
    <3>2. DOMAIN opts = 1 .. Len(opts)
      <4>1. opts \in Seq({Elements[i] : i \in 1 .. 9})
        BY <2>2 DEF TableInv
      <4> QED
        BY <4>1
    <3> QED
      BY <3>1, <3>2
  <2>4. ASSUME NEW i \in DOMAIN opts, opts[i].element = "Option"
        PROVE  parsed_input[opts[i].name] = Asked(opts[i].name)
    <3>1. i \in 1 .. 8 /\ Place(i) \in 1 .. 9
      BY <2>3 DEF Place
    <3>2. opts[i] = Elements[Place(i)]
      BY <2>2, <2>3, <3>1 DEF TableInv
    <3> QED
      BY <1>1, <2>1, <2>4, <3>1, <3>2, AllRead
  <2>5. \/ arg_pos = 0 /\ Positional = {}
        \/ arg_pos = 1 /\ \E i : Positional = {i} /\ parsed_input["mode"] = argv[i]
    BY <1>1, <2>1, AllRead
  <2>6. Cardinality(Positional) = arg_pos
    BY <2>5, FS_EmptySet, FS_Singleton
  <2>7. ASSUME NEW i \in Positional
        PROVE  parsed_input[args[Cardinality({j \in Positional : j <= i})].name] = argv[i]
    <3>1. Positional = {i} /\ parsed_input["mode"] = argv[i]
      BY <2>5
    <3>2. i \in 1 .. Len(argv)
      BY <2>2, PlacesRange DEF Positional
    <3>3. {j \in Positional : j <= i} = {i}
      BY <3>1, <3>2
    <3>4. Cardinality({j \in Positional : j <= i}) = 1
      BY <3>3, FS_Singleton
    <3> QED
      BY <2>3, <3>1, <3>4, ElementFacts
  <2>8. /\ parsed_state = FlagsAsked
        /\ \A i \in Switches : Takes(argv[i]) => i < Len(argv)
    BY <1>1, <2>1, AllRead
  <2> QED
    BY <2>4, <2>6, <2>7, <2>8
<1> QED
  BY <1>1, LineCorrect, PTL

\* A session or a replay server is started only for a line that asks for it and
\* not for help, with values that their handlers take.
THEOREM StartsAsAskedAlways == Spec => []StartsAsAsked
<1>1. ASSUME LineInv, StartInv
      PROVE  StartsAsAsked
  <2> SUFFICES ASSUME Readable, outcome \in {"session", "serving"}
               PROVE  /\ "help" \notin FlagsAsked
                      /\ (outcome = "serving") = ("serve_replay" \in FlagsAsked)
                      /\ \/ Asked("log_level") = NULLOPT
                         \/ Accepts("log_level", Asked("log_level"))
                      /\ outcome = "session" => \E i \in Positional : Accepts("mode", argv[i])
                      /\ outcome = "serving" => Asked("source") \in Files
    BY DEF StartsAsAsked
  <2>1. /\ After /\ "help" \notin parsed_state /\ Got("log_level")
        /\ outcome = "serving" => "serve_replay" \in parsed_state /\ Got("source")
        /\ outcome = "session" => "serve_replay" \notin parsed_state /\ Got("mode")
    BY <1>1 DEF StartInv, After
  <2>2. parsed_state = FlagsAsked
    BY <1>1, <2>1, AllRead
  <2>3. /\ parsed_input["log_level"] = Asked("log_level")
        /\ parsed_input["source"] = Asked("source")
    <3>1. Elements[3].element = "Option" /\ Elements[9].element = "Option"
      BY DEF Elements, Option
    <3>2. /\ parsed_input[Elements[3].name] = Asked(Elements[3].name)
          /\ parsed_input[Elements[9].name] = Asked(Elements[9].name)
      BY <1>1, <2>1, <3>1, AllRead
    <3> QED
      BY <3>2, ElementFacts
  <2>4. Asked("log_level") = NULLOPT \/ Accepts("log_level", Asked("log_level"))
    BY <2>1, <2>3 DEF Got
  <2>5. ASSUME outcome = "session"
        PROVE  \E i \in Positional : Accepts("mode", argv[i])
    <3>1. parsed_input["mode"] # NULLOPT /\ Accepts("mode", parsed_input["mode"])
      BY <2>1, <2>5, NoDefault DEF Got
    <3>2. \E i : Positional = {i} /\ parsed_input["mode"] = argv[i]
      BY <1>1, <2>1, <3>1, AllRead
    <3> QED
      BY <3>1, <3>2
  <2>6. ASSUME outcome = "serving"
        PROVE  Asked("source") \in Files
    <3>1. Accepts("source", Asked("source"))
      BY <2>1, <2>3, <2>6, NoDefault DEF Got
    <3> QED
      BY <3>1 DEF Accepts
  <2> QED
    BY <2>1, <2>2, <2>4, <2>5, <2>6
<1> QED
  BY <1>1, LineCorrect, PTL

===============================================================================
