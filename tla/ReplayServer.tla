----------------------------- MODULE ReplayServer -----------------------------
(* workers/served_replay_worker.cpp: a websocket server that plays a recording *)
(* to every client from a thread of its own.  Three kinds of thread meet in    *)
(* the socket's reference count: the library's thread of the connection, the   *)
(* replay thread of its session, and whoever requests the worker's stop.       *)
(*                                                                             *)
(* The session lives in the callback and the callback in the socket, so that   *)
(* dropping the socket destroys the session, which joins the replay thread.    *)
(* The library is not part of the repository: whether it drops the callback    *)
(* itself when a connection ends, or only with the socket, is left open.       *)
EXTENDS Naturals, SequencesExt

CONSTANTS Clients,
          Recordings,    \* the recordings that may be replayed
          MaxTime,       \* bound on a replay's clock, beyond the last due time
          NONE

VARIABLES recording,     \* the lines of the file
          worker,        \* control point of operator()
          stop,          \* the worker's stop token and its callback
          conn,          \* control point of each connection's thread
          closing,       \* the connections the server has told to close
          held,          \* the owners of each socket
          replay,        \* control point of each replay thread
          told,          \* lines sent since the replay thread was told to stop
          pos, timed,    \* the stream's next line, timed_recording
          clock,         \* time since the replay thread has started
          block_point,
          sent,          \* the lines each client was sent
          aborted        \* why the program was terminated, or "no"

server == <<recording, worker, stop>>
sockets == <<conn, closing, held>>
reading == <<pos, timed, block_point>>
vars == <<server, sockets, replay, told, reading, clock, sent, aborted>>

\* The lines of a recording: "key:value", "seconds.milliseconds,payload", text
\* without ':' or ',', and text with ',' that cannot be split.
Header(value) == [kind |-> "header", value |-> value]
Timed(at) == [kind |-> "timed", at |-> at]
Plain == [kind |-> "plain"]
Broken == [kind |-> "broken"]

Lines ==
    [kind : {"header"}, value : {"TIMED", "OTHER", NONE}]
      \union [kind : {"timed"}, at : Nat] \union {Plain, Broken}

ASSUME RecordingsAssumption ==
    Recordings \subseteq Seq(Lines) /\ MaxTime \in Nat /\ NONE \notin Nat

Init ==
    /\ recording \in Recordings /\ worker = "start" /\ stop = "no"
    /\ conn = [c \in Clients |-> "none"] /\ closing = {}
    /\ held = [c \in Clients |-> {}]
    /\ replay = [c \in Clients |-> "none"] /\ told = [c \in Clients |-> NONE]
    /\ pos = [c \in Clients |-> 1] /\ timed = [c \in Clients |-> FALSE]
    /\ clock = [c \in Clients |-> 0] /\ block_point = [c \in Clients |-> 0]
    /\ sent = [c \in Clients |-> << >>] /\ aborted = "no"

Running(c) == replay[c] \notin {"none", "done"}

Abort(reason) ==
    /\ aborted' = reason
    /\ UNCHANGED <<server, sockets, replay, told, reading, clock, sent>>

\* request_stop of the session's thread, which may not have been started.
Tell(c) ==
    told' = IF Running(c) /\ told[c] = NONE THEN [told EXCEPT ![c] = 0] ELSE told

------------------------------------------------------------------------------
(* The worker and its stop callback. *)

\* listen() may fail.
Listen ==
    /\ worker = "start" /\ worker' \in {"waiting", "done"}
    /\ UNCHANGED <<recording, stop, sockets, replay, told, reading, clock, sent, aborted>>

\* wait() returns once stop() has ended.
Return ==
    /\ worker = "waiting" /\ stop = "stopped" /\ worker' = "done"
    /\ UNCHANGED <<recording, stop, sockets, replay, told, reading, clock, sent, aborted>>

\* Mutant: the connections are left open.
StopOnlyAccepting ==
    /\ stop = "no" /\ worker = "waiting" /\ stop' = "stopping"
    /\ UNCHANGED <<recording, worker, sockets, replay, told, reading, clock, sent, aborted>>

\* The callback has no session to stop, since _send_threads is never filled, and
\* stops the server, which closes the connections and then waits for their
\* threads.
Stop ==
    /\ stop = "no" /\ worker = "waiting" /\ stop' = "stopping"
    /\ closing' = closing \union {c \in Clients : conn[c] \in {"accepted", "open"}}
    /\ UNCHANGED <<recording, worker, conn, held, replay, told, reading, clock, sent, aborted>>

StopWithoutServer == stop = "no" /\ worker = "start" /\ Abort("no_server")

Stopped ==
    /\ stop = "stopping" /\ \A c \in Clients : conn[c] \in {"none", "gone"}
    /\ stop' = "stopped"
    /\ UNCHANGED <<recording, worker, sockets, replay, told, reading, clock, sent, aborted>>

------------------------------------------------------------------------------
(* A connection's thread, which owns the socket until the connection ends. *)

\* The callback of setOnConnectionCallback: a session without a thread.
Accept(c) ==
    /\ worker = "waiting" /\ stop = "no" /\ conn[c] = "none"
    /\ conn' = [conn EXCEPT ![c] = "accepted"]
    /\ held' = [held EXCEPT ![c] = {"connection"}]
    /\ UNCHANGED <<server, closing, replay, told, reading, clock, sent, aborted>>

\* Session::start.
Open(c) ==
    /\ conn[c] = "accepted"
    /\ conn' = [conn EXCEPT ![c] = "open"]
    /\ replay' = [replay EXCEPT ![c] = "props"]
    /\ UNCHANGED <<server, closing, held, told, reading, clock, sent, aborted>>

\* The client closes or breaks the connection, or answers the server's close;
\* Session::stop.  Before Open this is a handshake that failed.
Close(c) ==
    /\ conn[c] \in {"accepted", "open"}
    /\ conn' = [conn EXCEPT ![c] = "closed"]
    /\ Tell(c)
    /\ UNCHANGED <<server, closing, held, replay, reading, clock, sent, aborted>>

\* The callback is dropped and with it the session, by this thread: the thread
\* is the last of the members to go, and is told to stop and joined.  Until then
\* it goes on using the members; the destroyed pointer still holds what it held.
DropCallback(c) ==
    /\ conn[c] = "closed"
    /\ conn' = [conn EXCEPT ![c] = "joining"]
    /\ Tell(c)
    /\ UNCHANGED <<server, closing, held, replay, reading, clock, sent, aborted>>

\* The socket is dropped with the callback in it.
DropSocket(c) ==
    /\ conn[c] = "closed"
    /\ held' = [held EXCEPT ![c] = @ \ {"connection"}]
    /\ IF held[c] = {"connection"}
       THEN /\ conn' = [conn EXCEPT ![c] = "joining"]
            /\ Tell(c)
       ELSE /\ conn' = [conn EXCEPT ![c] = "gone"]
            /\ UNCHANGED told
    /\ UNCHANGED <<server, closing, replay, reading, clock, sent, aborted>>

Joined(c) ==
    /\ conn[c] = "joining" /\ ~Running(c)
    /\ conn' = [conn EXCEPT ![c] = "gone"]
    /\ held' = [held EXCEPT ![c] = @ \ {"connection"}]
    /\ UNCHANGED <<server, closing, replay, told, reading, clock, sent, aborted>>

------------------------------------------------------------------------------
(* The replay thread. *)

Goto(c, point) == replay' = [replay EXCEPT ![c] = point]

\* Mutant: the line that ends the properties is not given back.
BodyWithoutSeek(lines) ==
    LET i == SelectInSeq(lines, LAMBDA l : l.kind # "header")
    IN  IF i = 0 THEN Len(lines) + 1 ELSE i + 1

\* The first line without ':', which is given back.
Body(lines) ==
    LET i == SelectInSeq(lines, LAMBDA l : l.kind # "header")
    IN  IF i = 0 THEN Len(lines) + 1 ELSE i

\* The last property counts; one without a value is not a property.
IsTimed(lines) ==
    LET props == SelectSeq(SubSeq(lines, 1, Body(lines) - 1),
                           LAMBDA l : l.kind = "header" /\ l.value # NONE)
    IN  props # << >> /\ Last(props).value = "TIMED"

\* Reads members of the session, which may be destroyed by now: undefined.
Props(c) ==
    /\ replay[c] = "props"
    /\ \/ /\ Goto(c, "loop")
          /\ pos' = [pos EXCEPT ![c] = Body(recording)]
          /\ timed' = [timed EXCEPT ![c] = IsTimed(recording)]
          /\ UNCHANGED <<server, sockets, told, block_point, clock, sent, aborted>>
       \/ conn[c] = "joining" /\ Abort("destroyed_session")

\* The loop's condition.
Continue(c) == told[c] = NONE /\ held[c] # {}

\* Mutant: a line without ',' is split all the same.
ReadEveryLine(c) ==
    /\ replay[c] = "loop" /\ Continue(c) /\ pos[c] <= Len(recording)
    /\ LET line == recording[pos[c]]
       IN  IF timed[c] /\ line.kind # "timed"
           THEN Abort("bad_line")
           ELSE /\ Goto(c, "send")
                /\ pos' = [pos EXCEPT ![c] = @ + 1]
                /\ block_point' = [block_point EXCEPT ![c] =
                                      IF timed[c] THEN line.at ELSE @ + 1]
                /\ UNCHANGED <<server, sockets, told, timed, clock, sent, aborted>>

\* A line of a timed recording is due at its time after the start, any other one
\* unit after the one before.
ReadLine(c) ==
    /\ replay[c] = "loop" /\ Continue(c) /\ pos[c] <= Len(recording)
    /\ LET line == recording[pos[c]]
       IN  IF timed[c] /\ line.kind = "broken"
           THEN Abort("bad_line")
           ELSE /\ pos' = [pos EXCEPT ![c] = @ + 1]
                /\ IF timed[c] /\ line.kind # "timed"
                   THEN UNCHANGED <<replay, block_point>>
                   ELSE /\ Goto(c, "send")
                        /\ block_point' = [block_point EXCEPT ![c] =
                                              IF timed[c] THEN line.at ELSE @ + 1]
                /\ UNCHANGED <<server, sockets, told, timed, clock, sent, aborted>>

LoopEnds(c) ==
    /\ replay[c] = "loop" /\ (Continue(c) => pos[c] > Len(recording))
    /\ Goto(c, "end")
    /\ UNCHANGED <<server, sockets, told, reading, clock, sent, aborted>>

\* lock() gives a second owner, or nothing once the socket is destroyed.
Locked(c) == held' = [held EXCEPT ![c] = @ \union {"replay"}]

Send(c) ==
    /\ replay[c] = "send"
    /\ IF held[c] = {} THEN Abort("null_socket")
       ELSE /\ Locked(c)
            /\ sent' = [sent EXCEPT ![c] = Append(@, pos[c] - 1)]
            /\ told' = IF told[c] = NONE THEN told ELSE [told EXCEPT ![c] = @ + 1]
            /\ Goto(c, "sleep")
            /\ UNCHANGED <<server, conn, closing, reading, clock, aborted>>

End(c) ==
    /\ replay[c] = "end"
    /\ IF held[c] = {} THEN Abort("null_socket")
       ELSE /\ Locked(c)
            /\ closing' = closing \union {c}
            /\ Goto(c, "leave")
            /\ UNCHANGED <<server, conn, told, reading, clock, sent, aborted>>

\* The thread's reference goes out of scope; with the last one the session goes,
\* and joins the thread that is just destroying it.
Release(c, next) ==
    IF held[c] = {"replay"} THEN Abort("self_join")
    ELSE /\ held' = [held EXCEPT ![c] = @ \ {"replay"}]
         /\ Goto(c, next)
         /\ UNCHANGED <<server, conn, closing, told, reading, clock, sent, aborted>>

\* Mutant: the thread does not wait.
WakeAtOnce(c) == replay[c] = "sleep" /\ Release(c, "loop")

\* sleep_until, with the reference held.
Wake(c) == replay[c] = "sleep" /\ clock[c] >= block_point[c] /\ Release(c, "loop")

Leave(c) == replay[c] = "leave" /\ Release(c, "done")

Tick ==
    /\ \E c \in Clients : Running(c) /\ clock[c] < MaxTime
    /\ clock' = [c \in Clients |->
                    IF Running(c) /\ clock[c] < MaxTime THEN clock[c] + 1 ELSE clock[c]]
    /\ UNCHANGED <<server, sockets, replay, told, reading, sent, aborted>>

ReplayStep(c) ==
    Props(c) \/ ReadLine(c) \/ LoopEnds(c) \/ Send(c) \/ End(c) \/ Wake(c) \/ Leave(c)
ConnectionEnds(c) ==
    \/ c \in closing /\ Close(c)
    \/ DropCallback(c) \/ DropSocket(c) \/ Joined(c)

Next ==
    /\ aborted = "no"
    /\ \/ Listen \/ Return \/ Stop \/ StopWithoutServer \/ Stopped \/ Tick
       \/ \E c \in Clients : \/ Accept(c) \/ Open(c) \/ Close(c)
                             \/ ConnectionEnds(c) \/ ReplayStep(c)

\* A connection that was told to close ends: the library gives up waiting for the
\* client's answer.
Fairness ==
    /\ WF_vars(Stopped /\ aborted = "no") /\ WF_vars(Tick /\ aborted = "no")
    /\ \A c \in Clients : /\ WF_vars(ReplayStep(c) /\ aborted = "no")
                          /\ WF_vars(ConnectionEnds(c) /\ aborted = "no")

Spec == Init /\ [][Next]_vars /\ Fairness

------------------------------------------------------------------------------
\* What a recording asks to be sent: its lines after the properties, of a timed
\* recording only the timed ones.
Asked(lines, i) ==
    /\ \E j \in 1 .. i : lines[j].kind # "header"
    /\ IsTimed(lines) => lines[i].kind = "timed"

PayloadOf(lines) ==
    LET asked[n \in 0 .. Len(lines)] ==
          IF n = 0 THEN << >>
          ELSE IF Asked(lines, n) THEN Append(asked[n - 1], n) ELSE asked[n - 1]
    IN  asked[Len(lines)]

Payload == PayloadOf(recording)

Due(i) == IF IsTimed(recording) THEN recording[Payload[i]].at ELSE i

\* A replay that is told to stop sends at most the one line it has already read
\* (served_replay_worker.cpp:122).
OneLineAfterStop == \A c \in Clients : told[c] \in {NONE, 0, 1}

\* Every client is sent the payload lines, each once and in order, from the first
\* one on, and all of them unless the replay is told to stop
\* (served_replay_worker.cpp:93,122,128).
SentAsRecorded ==
    /\ OneLineAfterStop
    /\ \A c \in Clients :
          /\ IsPrefix(sent[c], Payload)
          /\ told[c] = NONE /\ replay[c] = "done" => sent[c] = Payload

\* No line is sent before the one ahead of it is due, whatever lines are skipped
\* in between and however long the others take (served_replay_worker.cpp:153).
Paced ==
    [][\A c \in Clients :
        sent'[c] # sent[c] /\ sent[c] # << >> => clock[c] >= Due(Len(sent[c]))]_vars

\* The program is terminated only over a line that cannot be read, a stop before
\* there is a server, or a connection that ended before its replay did.
AbortsOnlyWhenDropped ==
    \/ aborted \in {"no", "no_server"}
    \/ aborted = "bad_line" /\ Broken \in Range(recording)
    \/ \E c \in Clients : conn[c] \in {"joining", "gone"} /\ Running(c)

\* No replay runs for ever, and a stop of the running server returns, although it
\* waits for the connections' threads, these for the replay threads, and these for
\* the time of their lines.
StopReturns ==
    /\ []<>(stop # "stopping" \/ aborted # "no")
    /\ \A c \in Clients : []<>(~Running(c) \/ aborted # "no")

\* Refuted: the program survives its clients.
NeverAborts == aborted \in {"no", "bad_line", "no_server"}

\* Refuted: "Stop all sessions, blocking until each is done" (served_replay_worker.cpp:31).
StoppedMeansDone == stop = "stopped" => \A c \in Clients : ~Running(c)

\* Refuted: a line is sent no sooner than it is due.
SentWhenDue ==
    [][\A c \in Clients :
        sent'[c] # sent[c] => clock[c] >= Due(Len(sent'[c]))]_vars

==============================================================================
