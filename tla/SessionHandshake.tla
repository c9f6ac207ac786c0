--------------------------- MODULE SessionHandshake ---------------------------
(***************************************************************************)
(* Core::Session (core/session.cpp) from start_session to end_session: the *)
(* caller, the session's thread, and the socket thread of the websocket    *)
(* library, which runs the callbacks one message at a time.  A remote      *)
(* server wants a registration before it sends telemetry; the debug server *)
(* sends it at once.                                                       *)
(*                                                                         *)
(* The server and the library are external.  The library reconnects after  *)
(* a close until it is stopped.  A message is its kind, telemetry is       *)
(* numbered; what Shutdown does is left to AppContext, and what the queue  *)
(* does with a frame to TelemetryQueue.                                    *)
(***************************************************************************)
EXTENDS Integers, FiniteSets, Sequences, SequencesExt

CONSTANTS
    Sources,        \* a subset of SessionSource
    MaxKeepAlives,  \* bounds: keep-alives of a connection,
    MaxData,        \* telemetry messages and
    MaxClosed,      \* closes of a behaviour,
    MaxInbox,       \* messages on their way
    NONE            \* the empty optional of init_res

ASSUME SessionAssumption ==
    /\ Sources \subseteq {"SERVED_REMOTE", "SERVED_DEBUG", "LOCAL_REPLAY"}
    /\ MaxKeepAlives \in Nat /\ MaxData \in Nat
    /\ MaxClosed \in Nat /\ MaxInbox \in Nat
    /\ NONE # "SOURCE_INVALID"

VARIABLES
    source,         \* _source
    main,           \* control point of the caller
    result,         \* what start_session returned
    init_res,
    thread,         \* control point of the session's thread
    callbacks,      \* which callback the socket has
    status,         \* _status
    start_latch, stop_latch,
    conn,           \* the socket
    inbox,          \* what the server has sent and no callback has seen
    greeted,        \* whether the server has received CONN_INIT
    unanswered,     \* registrations the server has yet to acknowledge
    streaming,      \* whether it has acknowledged one
    keep_alives, sent, closed,  \* what the server has done
    offered         \* history: telemetry offered to the queue

caller == <<main, result, init_res>>
socket == <<callbacks, status, start_latch>>
server == <<greeted, unanswered, streaming, keep_alives>>
counts == <<sent, closed>>

vars == <<source, caller, thread, socket, stop_latch, conn, inbox, server,
          counts, offered>>

Fresh == /\ greeted = FALSE /\ unanswered = 0 /\ streaming = FALSE
         /\ keep_alives = 0

Init ==
    /\ source \in Sources
    /\ main = "start" /\ result = NONE /\ init_res = NONE
    /\ thread = "none"
    /\ callbacks = "none" /\ status = "NOT_STARTED"
    /\ start_latch = 1 /\ stop_latch = 1
    /\ conn = "off" /\ inbox = << >>
    /\ Fresh
    /\ sent = 0 /\ closed = 0
    /\ offered = << >>

-------------------------------------------------------------------------------
(* start_session and end_session.                                          *)

StartThread ==
    /\ main = "start"
    /\ main' = "check"
    /\ thread' = "source"
    /\ UNCHANGED <<source, result, init_res, socket, stop_latch, conn, inbox,
                   server, counts, offered>>

\* init_res is read while the thread may not have come to it.
StartReturn ==
    /\ main = "check"
    /\ result' = init_res
    /\ main' = "running"
    /\ UNCHANGED <<source, init_res, thread, socket, stop_latch, conn, inbox,
                   server, counts, offered>>

\* Mutant: the thread is not told.
EndSessionUntold ==
    /\ main = "running" /\ result = NONE
    /\ main' = "join"
    /\ UNCHANGED <<source, result, init_res, thread, socket, stop_latch, conn,
                   inbox, server, counts, offered>>

EndSession ==
    /\ main = "running" /\ result = NONE
    /\ stop_latch' = stop_latch - 1
    /\ main' = "join"
    /\ UNCHANGED <<source, result, init_res, thread, socket, conn, inbox, server,
                   counts, offered>>

\* Mutant: the thread is detached.
EndJoinMissing ==
    /\ main = "join"
    /\ main' = "ended"
    /\ UNCHANGED <<source, result, init_res, thread, socket, stop_latch, conn,
                   inbox, server, counts, offered>>

\* _threads.clear() joins the thread.
EndJoin ==
    /\ main = "join"
    /\ thread = "done"
    /\ main' = "ended"
    /\ UNCHANGED <<source, result, init_res, thread, socket, stop_latch, conn,
                   inbox, server, counts, offered>>

-------------------------------------------------------------------------------
(* The session's thread.                                                   *)

\* The URL is resolved; a local replay has none.  When start_session has returned,
\* init_res is gone and the write reaches nobody.
ThreadSource ==
    /\ thread = "source"
    /\ IF source = "LOCAL_REPLAY"
         THEN init_res' = "SOURCE_INVALID" /\ thread' = "done"
         ELSE thread' = "callbacks" /\ UNCHANGED init_res
    /\ UNCHANGED <<source, main, result, socket, stop_latch, conn, inbox, server,
                   counts, offered>>

\* Mutant: every source begins with the initial callbacks.
CallbacksForEverySource(s) == IF s = "INITIATING" THEN "init" ELSE "started"

\* set_callbacks: which callback a status asks for.
CallbacksFor(s) ==
    IF s = "INITIATING" /\ source # "SERVED_DEBUG" THEN "init" ELSE "started"

\* set_callbacks(INITIATING); a debug session has started already.
ThreadCallbacks ==
    /\ thread = "callbacks"
    /\ status' = "INITIATING"
    /\ callbacks' = CallbacksFor("INITIATING")
    /\ start_latch' = IF source = "SERVED_DEBUG" THEN start_latch - 1
                                                 ELSE start_latch
    /\ thread' = "start"
    /\ UNCHANGED <<source, caller, stop_latch, conn, inbox, server, counts,
                   offered>>

ThreadStart ==
    /\ thread = "start"
    /\ conn' = "connecting"
    /\ thread' = "wait"
    /\ UNCHANGED <<source, caller, socket, stop_latch, inbox, server, counts,
                   offered>>

\* Mutant: the thread ends and leaves the socket running.
ThreadStopMissing ==
    /\ thread = "wait"
    /\ stop_latch = 0
    /\ thread' = "done"
    /\ UNCHANGED <<source, caller, socket, stop_latch, conn, inbox, server,
                   counts, offered>>

\* stop() joins the socket thread, whose callback has then returned.
ThreadStop ==
    /\ thread = "wait"
    /\ stop_latch = 0
    /\ conn' = "off" /\ inbox' = << >>
    /\ thread' = "done"
    /\ UNCHANGED <<source, caller, socket, stop_latch, server, counts, offered>>

-------------------------------------------------------------------------------
(* The callbacks.                                                          *)

\* The library connects and reconnects; on_open greets a remote server.
OnOpen ==
    /\ conn = "connecting"
    /\ conn' = "open" /\ inbox' = << >>
    /\ greeted' = (source = "SERVED_REMOTE")
    /\ unanswered' = 0 /\ streaming' = FALSE /\ keep_alives' = 0
    /\ UNCHANGED <<source, caller, thread, socket, stop_latch, counts, offered>>

Received(kinds) ==
    /\ conn = "open" /\ inbox # << >>
    /\ Head(inbox).kind \in kinds
    /\ inbox' = Tail(inbox)

\* Mutant: only a start_ack is looked for.
InitKeepAliveIgnored ==
    /\ callbacks = "init" /\ Received({"ka"})
    /\ UNCHANGED <<source, caller, thread, socket, stop_latch, conn, server,
                   counts, offered>>

\* init_on_message: every keep-alive is answered with a registration.
InitKeepAlive ==
    /\ callbacks = "init" /\ Received({"ka"})
    /\ unanswered' = unanswered + 1
    /\ UNCHANGED <<source, caller, thread, socket, stop_latch, conn, greeted,
                   streaming, keep_alives, counts, offered>>

\* Mutant: the callbacks stay.
InitStartAckStays ==
    /\ callbacks = "init" /\ Received({"start_ack"})
    /\ status' = "STARTED" /\ UNCHANGED callbacks
    /\ start_latch' = start_latch - 1
    /\ UNCHANGED <<source, caller, thread, stop_latch, conn, server, counts,
                   offered>>

InitStartAck ==
    /\ callbacks = "init" /\ Received({"start_ack"})
    /\ status' = "STARTED" /\ callbacks' = CallbacksFor("STARTED")
    /\ start_latch' = start_latch - 1
    /\ UNCHANGED <<source, caller, thread, stop_latch, conn, server, counts,
                   offered>>

\* init_on_message leaves anything else alone.
InitOther ==
    /\ callbacks = "init" /\ Received({"data", "other"})
    /\ UNCHANGED <<source, caller, thread, socket, stop_latch, conn, server,
                   counts, offered>>

\* on_message, when parse_payload finds one.
OnMessage ==
    /\ callbacks = "started" /\ Received({"data"})
    /\ offered' = Append(offered, Head(inbox).n)
    /\ UNCHANGED <<source, caller, thread, socket, stop_latch, conn, server,
                   counts>>

\* Nothing, or no payload: a warning.
OnBadMessage ==
    /\ callbacks = "started" /\ Received({"ka", "start_ack", "other"})
    /\ UNCHANGED <<source, caller, thread, socket, stop_latch, conn, server,
                   counts, offered>>

\* Either callback calls Shutdown; the library connects again.
OnClose ==
    /\ Received({"close"})
    /\ closed' = closed + 1
    /\ conn' = "connecting"
    /\ UNCHANGED <<source, caller, thread, socket, stop_latch, server, sent,
                   offered>>

-------------------------------------------------------------------------------
(* The server.                                                             *)

Sends(m) ==
    /\ conn = "open" /\ Len(inbox) < MaxInbox
    /\ inbox # << >> => Last(inbox).kind # "close"
    /\ inbox' = Append(inbox, m)

Message(kind) == [kind |-> kind, n |-> 0]

ServerKeepAlive ==
    /\ greeted /\ keep_alives < MaxKeepAlives
    /\ Sends(Message("ka"))
    /\ keep_alives' = keep_alives + 1
    /\ UNCHANGED <<source, caller, thread, socket, stop_latch, conn, greeted,
                   unanswered, streaming, counts, offered>>

\* Every registration is acknowledged.
ServerStartAck ==
    /\ unanswered > 0
    /\ Sends(Message("start_ack"))
    /\ unanswered' = unanswered - 1 /\ streaming' = TRUE
    /\ UNCHANGED <<source, caller, thread, socket, stop_latch, conn, greeted,
                   keep_alives, counts, offered>>

\* connection_ack and the like, before any telemetry.
ServerOther ==
    /\ greeted /\ keep_alives = 0 /\ inbox = << >>
    /\ Sends(Message("other"))
    /\ UNCHANGED <<source, caller, thread, socket, stop_latch, conn, server,
                   counts, offered>>

ServerData ==
    /\ streaming \/ source = "SERVED_DEBUG"
    /\ sent < MaxData
    /\ Sends([kind |-> "data", n |-> sent + 1])
    /\ sent' = sent + 1
    /\ UNCHANGED <<source, caller, thread, socket, stop_latch, conn, server,
                   closed, offered>>

ServerClose ==
    /\ closed < MaxClosed
    /\ Sends(Message("close"))
    /\ UNCHANGED <<source, caller, thread, socket, stop_latch, conn, server,
                   counts, offered>>

-------------------------------------------------------------------------------
Main   == StartThread \/ StartReturn \/ EndJoin
Thread == ThreadSource \/ ThreadCallbacks \/ ThreadStart \/ ThreadStop
Socket == OnOpen \/ InitKeepAlive \/ InitStartAck \/ InitOther \/ OnMessage
            \/ OnBadMessage \/ OnClose
Server == ServerKeepAlive \/ ServerStartAck \/ ServerOther \/ ServerData
            \/ ServerClose

\* The program is over, or the socket waits for a server with nothing to send.
Idle == /\ \/ main = "ended" \/ (main = "running" /\ result # NONE)
           \/ conn = "open" /\ inbox = << >>
        /\ UNCHANGED vars

Next == Main \/ EndSession \/ Thread \/ Socket \/ Server \/ Idle

Spec == Init /\ [][Next]_vars

\* The threads go on and the server follows its protocol; nobody is obliged to
\* end the session, to close or to send telemetry.
FairSpec ==
    /\ Spec
    /\ WF_vars(Main) /\ WF_vars(Thread) /\ WF_vars(Socket)
    /\ WF_vars(ServerKeepAlive) /\ WF_vars(ServerStartAck)

-------------------------------------------------------------------------------
(* Properties.                                                             *)

\* _start_latch is counted once, however many keep-alives the server sends before
\* it acknowledges, and however many acknowledgements that brings: counting a
\* latch below zero is undefined.
StartCountedOnce == start_latch \in 0 .. 1

InboxData == Cardinality({i \in DOMAIN inbox : inbox[i].kind = "data"})

\* Every telemetry message a callback has seen was offered to the queue, in order:
\* the callbacks have changed by the time the first one arrives, from either
\* kind of server and over reconnections.
NothingSkipped ==
    conn # "off" => offered = [i \in 1 .. sent - InboxData |-> i]

\* No callback runs once end_session has returned: main destroys the queue and
\* the board behind it.
QuietAfterEnd == main = "ended" => conn = "off" /\ thread = "done"

\* end_session returns, from wherever the session's thread and the handshake are.
EndReturns == main = "join" ~> main = "ended"

\* A connection that the server keeps open is brought to its started callbacks,
\* unless the user ends the session first.
Starts ==
    conn = "open" ~> (callbacks = "started" \/ closed > 0 \/ main = "join")

\* "Initiate the session. Returns an expected with the first error encountered, if
\* any." (session.hpp:103): a session without a server is reported as such.
ErrReported ==
    main = "running" /\ source = "LOCAL_REPLAY" => result = "SOURCE_INVALID"

\* "Received initial keep-alive" (session.cpp:245): a connection registers once.
RegisteredOnce == unanswered <= 1

\* Status::STARTED is drawn as "Connected" (session.cpp:308): telemetry comes from
\* a session that is shown as connected.
StatusShown == offered # << >> => status = "STARTED"

\* A connection opened after a close is registered again, so that telemetry comes.
Reregisters ==
    (conn = "open" /\ closed > 0 /\ source = "SERVED_REMOTE")
        ~> (streaming \/ conn # "open")

===============================================================================
