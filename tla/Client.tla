-------------------------------- MODULE Client --------------------------------
(***************************************************************************)
(* The life of the client (client_main.cpp) from start_session to exit:    *)
(* main, the drawing thread (workers/interface_worker.cpp), the input      *)
(* thread (workers/input_worker.cpp), the session's thread (session.cpp)   *)
(* and the socket thread of the websocket library, which meet in           *)
(* AppContext, in the stop tokens and in the terminal they share.          *)
(*                                                                         *)
(* The drawing itself and the frames are left out; the delay is the number *)
(* the keys count and the one the telemetry queue accepted.                *)
(***************************************************************************)
EXTENDS AppContext

CONSTANTS
    Keys,           \* keys the user presses: "plus", "minus", "quit", "other"
    ServerCloses,   \* whether the server closes the connection
    MAX_DELAY_S,
    MaxDelay        \* bound on the input worker's counter

ASSUME ClientAssumption ==
    /\ Callers = {"input", "socket"}
    /\ Keys \subseteq {"plus", "minus", "quit", "other"}
    /\ ServerCloses \in BOOLEAN
    /\ MAX_DELAY_S \in Nat /\ MAX_DELAY_S >= 2
    /\ MaxDelay \in Nat

VARIABLES
    main,           \* control point of main
    stop,           \* the stop token of each worker
    output,         \* control point of the drawing thread
    input,          \* control point of the input thread
    terminal,       \* "up" until nc.stop()
    session,        \* control point of the session's thread
    stop_latch,     \* _stop_latch has been counted down
    socket,         \* the websocket's connection
    delay,          \* the counter main and the input worker share
    configured      \* the delay the telemetry queue has

workers == <<stop, output, input, terminal>>
network == <<session, stop_latch, socket>>
delays  == <<delay, configured>>

clientVars == <<appVars, main, workers, network, delays>>

ClientInit ==
    /\ AppInit
    /\ main = "start"
    /\ stop = [w \in {"input", "output"} |-> FALSE]
    /\ output = "none" /\ input = "none" /\ terminal = "up"
    /\ session = "none" /\ stop_latch = FALSE /\ socket = "off"
    /\ delay = 2 /\ configured = 2

-------------------------------------------------------------------------------
(* main.                                                                   *)

MainStart ==
    /\ main = "start"
    /\ session' = "start"
    /\ main' = "spawn_output"
    /\ UNCHANGED <<appVars, workers, stop_latch, socket, delays>>

MainSpawnOutput ==
    /\ main = "spawn_output"
    /\ output' = "test"
    /\ main' = "spawn_input"
    /\ UNCHANGED <<appVars, stop, input, terminal, network, delays>>

MainSpawnInput ==
    /\ main = "spawn_input"
    /\ input' = "test"
    /\ main' = "await"
    /\ UNCHANGED <<appVars, stop, output, terminal, network, delays>>

MainAwait ==
    /\ main = "await"
    /\ Released
    /\ main' = "stop_input"
    /\ UNCHANGED <<appVars, workers, network, delays>>

MainStopInput ==
    /\ main = "stop_input"
    /\ stop' = [stop EXCEPT !["input"] = TRUE]
    /\ main' = "stop_output"
    /\ UNCHANGED <<appVars, output, input, terminal, network, delays>>

\* Mutant: the drawing thread is never told.
MainStopOutputMissing ==
    /\ main = "stop_output"
    /\ main' = "join_input"
    /\ UNCHANGED <<appVars, workers, network, delays>>

MainStopOutput ==
    /\ main = "stop_output"
    /\ stop' = [stop EXCEPT !["output"] = TRUE]
    /\ main' = "join_input"
    /\ UNCHANGED <<appVars, output, input, terminal, network, delays>>

MainJoinInput ==
    /\ main = "join_input"
    /\ input = "done"
    /\ main' = "join_output"
    /\ UNCHANGED <<appVars, workers, network, delays>>

\* Mutant: main does not wait for the drawing thread.
MainJoinOutputMissing ==
    /\ main = "join_output"
    /\ main' = "end_session"
    /\ UNCHANGED <<appVars, workers, network, delays>>

MainJoinOutput ==
    /\ main = "join_output"
    /\ output = "done"
    /\ main' = "end_session"
    /\ UNCHANGED <<appVars, workers, network, delays>>

MainEndSession ==
    /\ main = "end_session"
    /\ stop_latch' = TRUE
    /\ main' = "join_session"
    /\ UNCHANGED <<appVars, workers, session, socket, delays>>

MainJoinSession ==
    /\ main = "join_session"
    /\ session = "done"
    /\ main' = "exit"
    /\ UNCHANGED <<appVars, workers, network, delays>>

Main == MainStart \/ MainSpawnOutput \/ MainSpawnInput \/ MainAwait
          \/ MainStopInput \/ MainStopOutput \/ MainJoinInput
          \/ MainJoinOutput \/ MainEndSession \/ MainJoinSession

-------------------------------------------------------------------------------
(* InterfaceWorker: each round draws, renders and sleeps; the terminal is  *)
(* stopped when the loop ends.                                             *)

OutputTest ==
    /\ output = "test"
    /\ output' = IF stop["output"] THEN "stop" ELSE "draw"
    /\ UNCHANGED <<appVars, main, stop, input, terminal, network, delays>>

OutputDraw ==
    /\ output = "draw"
    /\ output' = "test"
    /\ UNCHANGED <<appVars, main, stop, input, terminal, network, delays>>

OutputStop ==
    /\ output = "stop"
    /\ terminal' = "stopped"
    /\ output' = "done"
    /\ UNCHANGED <<appVars, main, stop, input, network, delays>>

Output == OutputTest \/ OutputDraw \/ OutputStop

-------------------------------------------------------------------------------
(* KeyWorker.                                                              *)

InputTest ==
    /\ input = "test"
    /\ input' = IF stop["input"] THEN "done" ELSE "get"
    /\ UNCHANGED <<appVars, main, stop, output, terminal, network, delays>>

\* nc.get gives up after INPUT_TIMEOUT, and keys that have no callback do
\* nothing.
InputNothing ==
    /\ input = "get"
    /\ input' = "test"
    /\ UNCHANGED <<appVars, main, stop, output, terminal, network, delays>>

\* sess.set_delay_sec(++delay): the counter moves even when the queue refuses.
Increase ==
    /\ delay < MaxDelay
    /\ delay' = delay + 1
    /\ configured' = IF delay + 1 <= MAX_DELAY_S THEN delay + 1 ELSE configured

\* Mutant: the zero case is missing; a size_t wraps to a delay the queue
\* refuses.
DecreaseWraps ==
    /\ delay' = IF delay = 0 THEN MaxDelay ELSE delay - 1
    /\ configured' = IF delay' <= MAX_DELAY_S THEN delay' ELSE configured

\* sess.set_delay_sec(delay == 0 ? 0 : --delay)
Decrease ==
    /\ delay' = IF delay = 0 THEN 0 ELSE delay - 1
    /\ configured' = IF delay' <= MAX_DELAY_S THEN delay' ELSE configured

InputIncrease ==
    /\ input = "get" /\ "plus" \in Keys
    /\ Increase
    /\ input' = "test"
    /\ UNCHANGED <<appVars, main, stop, output, terminal, network>>

InputDecrease ==
    /\ input = "get" /\ "minus" \in Keys
    /\ Decrease
    /\ input' = "test"
    /\ UNCHANGED <<appVars, main, stop, output, terminal, network>>

InputQuit ==
    /\ input = "get" /\ "quit" \in Keys
    /\ \/ ShutdownLate("input") /\ input' = "test"
       \/ ShutdownFirst("input") /\ input' = "quit"
    /\ UNCHANGED <<main, stop, output, terminal, network, delays>>

InputShutdown ==
    /\ input = "quit"
    /\ ShutdownGoesOn("input")
    /\ input' = IF caller'["input"] = "idle" THEN "test" ELSE "quit"
    /\ UNCHANGED <<main, stop, output, terminal, network, delays>>

Input == InputTest \/ InputNothing \/ InputIncrease \/ InputDecrease
           \/ InputQuit \/ InputShutdown

-------------------------------------------------------------------------------
(* The session's thread and the socket thread it starts and stops.         *)

SessionStart ==
    /\ session = "start"
    /\ socket' = "connecting"
    /\ session' = "wait"
    /\ UNCHANGED <<appVars, main, workers, stop_latch, delays>>

SessionWait ==
    /\ session = "wait"
    /\ stop_latch
    /\ session' = "stop"
    /\ UNCHANGED <<appVars, main, workers, stop_latch, socket, delays>>

\* stop() closes the connection and joins the socket thread, so a callback it
\* is running has returned.
SessionStop ==
    /\ session = "stop"
    /\ socket # "closing"
    /\ socket' = "off"
    /\ session' = "done"
    /\ UNCHANGED <<appVars, main, workers, stop_latch, delays>>

SocketOpen ==
    /\ socket = "connecting"
    /\ socket' = "open"
    /\ UNCHANGED <<appVars, main, workers, session, stop_latch, delays>>

\* The Close callback calls Shutdown; the library then reconnects.
SocketClose ==
    /\ socket = "open" /\ ServerCloses
    /\ \/ ShutdownLate("socket") /\ socket' = "connecting"
       \/ ShutdownFirst("socket") /\ socket' = "closing"
    /\ UNCHANGED <<main, workers, session, stop_latch, delays>>

SocketShutdown ==
    /\ socket = "closing"
    /\ ShutdownGoesOn("socket")
    /\ socket' = IF caller'["socket"] = "idle" THEN "connecting" ELSE "closing"
    /\ UNCHANGED <<main, workers, session, stop_latch, delays>>

Session == SessionStart \/ SessionWait \/ SessionStop
Socket  == SocketOpen \/ SocketClose \/ SocketShutdown

-------------------------------------------------------------------------------
Exited == main = "exit" /\ UNCHANGED clientVars

ClientNext == Main \/ Output \/ Input \/ Session \/ Socket \/ Exited

ClientSpec == ClientInit /\ [][ClientNext]_clientVars

\* Every thread of the program is scheduled; nobody has to press a key and no
\* server has to close.
ClientFairSpec ==
    /\ ClientSpec
    /\ WF_clientVars(Main) /\ WF_clientVars(Output) /\ WF_clientVars(Session)
    /\ WF_clientVars(Input)
    /\ WF_clientVars(SocketShutdown)

-------------------------------------------------------------------------------
(* Properties.                                                             *)

\* Nothing of the program runs once main returns: no worker, no callback and
\* no call of Shutdown is in progress when the singletons are destroyed.
QuietAtExit ==
    main = "exit" =>
        /\ output = "done" /\ input = "done" /\ session = "done"
        /\ socket = "off"
        /\ \A c \in Callers : caller[c] = "idle"

\* "Initiate shutdown and provide a reason, releasing any shutdown threads"
\* (app_context.hpp:44): once a caller has begun to shut down, main exits.
ShutdownExits == ~can_shut_down ~> main = "exit"

\* What is left of it when the user and the server shut down at once: once a
\* caller has begun, main exits unless the latch has been counted twice.
ShutdownExitsOrOvercounts == ~can_shut_down ~> (main = "exit" \/ latch < 0)

\* "Decrease the delay by 1s, only if the delay is positive"
\* (workers/input_worker.cpp:72): the delay that counts is the queue's.
MinusDecreases ==
    [][InputDecrease => configured' = IF configured = 0 THEN 0
                                                        ELSE configured - 1]_clientVars

\* The presses beyond the maximum that the queue refuses never leave the two
\* delays apart: below the maximum they agree after every press.
DelayCounted ==
    configured = IF delay <= MAX_DELAY_S THEN delay ELSE MAX_DELAY_S

===============================================================================
