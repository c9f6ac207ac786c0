# A verification project for indy-tui

indy-tui follows an IndyCar race in the terminal. A websocket delivers
telemetry frames a dozen times a second; a queue holds them back by a delay the
user sets with two keys, so that the picture matches a delayed video stream; a
drawing thread takes the frames out of the queue, updates the leaderboard and
renders it. This directory holds TLA+ models of the program, the TLC
configurations that check them on small instances, and theorems checked by
TLAPS.

All paths below are relative to `src/source/` unless they begin with `tests/` or
`Makefile`.

Contents: 1 inventory, 2 plan, 3 models, 4 runs and bounds, 5 fairness, 6 proofs,
7 what the runs found, 8 what is not modelled, 9 how to run it.

## 1. Inventory

| Component | Where | State | Operations |
|---|---|---|---|
| TelemetryQueue | `telemetry/telemetry_queue.*` | delay, rate, total frames; two atomic indices; a vector of locked slots | `enqueue`, `dequeue`, `set_delay_sec`, `set_refresh_hz`, `rebuild_delay` |
| Log queue | `tools/queue.hpp` | two atomic indices, an atomic size, two semaphores, an array | `enqueue`, `dequeue`, `try_dequeue*` |
| Logger | `tools/logger.hpp` | the log queue, `keep_logging`, the writer thread | `log`, the writer's loop, `~Log` |
| Application context | `core/app_context.hpp` | `_can_shut_down`, the shutdown latch, a mutex, the reason | `Shutdown`, `AwaitShutdown`, `GetReason` |
| Workers and main | `client_main.cpp`, `core/workers/input_worker.cpp`, `core/workers/interface_worker.cpp`, `core/input.hpp` | the delay counter, three threads, stop tokens, the key table | key callbacks, the drawing loop, startup and teardown |
| Session | `core/session.*` | socket, callbacks, status, two latches, threads | `start_session`, the socket callbacks, `end_session` |
| Driver telemetry | `telemetry/driver_telemetry.*` | a driver's messages, pit counter, checkpoint times | `take_new_*`, `frame_passed`, `refresh`, `diff_to_car`, moves |
| Telemetry board | `telemetry/telemetry_board.*` | the vector of drivers, the map from car to place, event information, columns | `inform_new_frame`, `draw_columns`, `reassociate_drivers` |
| Replay server | `core/workers/served_replay_worker.cpp`, `core/workers.hpp` | the recording's stream, one session per connection with a replay thread and a weak socket, the stop callback | open and close callbacks, replay thread, stop callback |
| Command line | `core/cli.*`, `client_main.cpp:26-206` | elements and their lookup, parsed words and flags | `add_element`, `finalize`, `parse_input`, `get`, what main starts |
| Helpers | `tools/base64.*`, `tools/strings.hpp`, `tools/appsync_resolver.*`, `net/http.cpp` | none | pure conversions and requests |
| Drawing | `core/columns.hpp`, `ui/*`, `tools/draw.hpp` | none that others read | text and layout |

**Threads and how they meet.** The websocket library's thread runs the session's
callbacks and enqueues. The input thread runs key callbacks, which reconfigure
the queue or call `Shutdown`. The drawing thread dequeues, informs the board and
draws it. `main` starts everything, waits on the latch of the application
context, and stops and joins everything in a fixed order. All of them log through
one queue that the writer thread empties. Shared state: the telemetry queue
(three threads), the application context (three), the log queue (all), the
terminal (input and drawing).

**What is hard in each, and what makes it correct.**

* *TelemetryQueue.* Capacity and delay are tested before the mutexes are taken,
  and a rebuild may come in between; indices are separate atomics; a rebuild
  copies between two moduli. Correct: nothing is delivered twice, lost, reordered
  or left behind; the delay is honoured; setters return; the ring is never stuck.
* *Log queue.* The slot is read, written and only then claimed. Correct: permits
  are conserved, the queue is a first-in first-out line, items are not lost,
  `empty()` can be relied on by the consumer.
* *Logger.* The writer reads a flag and then a size while both change. Correct:
  when `~Log` returns every line is in the file, and it does return.
* *Application context and client.* Two threads may shut down at once, before main
  waits or while it joins. Correct: main exits, a reason is there, the first
  reason stays, nothing runs after main returns.
* *Driver telemetry.* Distances drop and timestamps run away. Correct: the history
  of checkpoint times contains neither, and stays ordered around the track.
* *Telemetry board.* Drivers are moved between objects by sorting and by
  reallocation, and the map must follow; some members do not move. Correct: the
  map is the inverse of the vector, no frame is fatal, and what is shown beside a
  driver belongs to it.
* *Session.* The callbacks are replaced while one runs, the server may repeat itself or
  close at any moment, and `start_session` reads a result another thread has yet to
  write. Correct: the start latch is counted once, no telemetry is skipped, a
  connection gets to its started callbacks, `end_session` returns and leaves nothing
  running.
* *Replay server.* The replay thread tests its weak socket, reads a line and locks the
  socket again; a session lives inside the socket and joins the thread that may hold
  the socket's last reference; the stop callback was never told of any session. Correct:
  each client is sent the recording's payload in order and not ahead of time, the stop
  returns, and no client's leaving ends the program.
* *Command line.* A group of short options may name several that take a value, and the
  words of each are skipped by index; exceptions leave `main` from outside its `try`.
  Correct: what is parsed is what the line means, whatever the order of the words, and
  nothing is started on a value that its handler refuses.
* *Base64.* Bytes are packed into a signed word, and padding is counted. Correct: what
  the server encodes is what the queue decodes.

## 2. Plan

Modules in order of importance; all of them are written.

1. `TelemetryQueue`, with `DelayLine` as its abstract specification;
   `TelemetryQueueProofs`
2. `ThreadSafeQueue`, implementing the same `DelayLine` with nothing held back, and
   `Logger`, which composes it with the writer thread; `LoggerProofs` is about both
3. `AppContext`, and `Client`, which composes it with main, the workers and the
   session's threads; `ClientProofs`
4. `DriverData` (operators) and `DriverTelemetry` (one driver)
5. `TelemetryBoard` (all drivers, the map, sorting and moving), with `Scoreboard` as its
   abstract specification; `DriverProofs` is about it and `DriverTelemetry`
6. `SessionHandshake`: init and started callbacks, `ka`, `start_ack`, reconnection,
   the three sources, `init_res`; `SessionHandshakeProofs`
7. `ReplayServer`: the worker, its connections, replay threads, owners of each socket
   and the stop callback; the pacing of timed and untimed recordings; `ReplayServerProofs`
8. `Base64`: both directions as pure functions against a reference; `Base64Proofs`
9. `CommandLine`: the table of elements, the parser word by word, and what main starts;
   its proofs are the second half of `ClientProofs`, as it is the first half of
   `client_main.cpp`
10. `NumberFacts`: least elements, quotients and remainders, positions in a ring, for the
   proofs of the others

Each has a module `MC...` of instances, except the ones that are only operators, abstract
specifications or proofs.

Abstract specifications: `DelayLine` (used twice) and `Scoreboard`. A one-shot event
would be another, for `AppContext` with one cause of the end; `OneCauseShutsDownOnce` says of
the latch and the reason what it would say.

Theorems left to prove: `RegisteredOnce` and `GapIsOwn` under the conditions in which they
hold. `RingComplete` for setters that only lengthen the delay is not among them: a producer
that has seen the larger capacity overwrites a frame (`DeliveredInOrder` in section 7).

## 3. Models

**`TelemetryQueue`.** A frame is the value of `_enq_idx` when it was accepted.
Every action is one critical section or one unlocked access: `EnqueueCheck` is
the capacity test before any lock, `EnqueueShared`, `EnqueueSlot`, `EnqueueStore`
and `EnqueueCommit` follow the scoped locks; `DequeueCheck` to `DequeueMove`
likewise; a set call goes through `SetEnter`, `SetAssign`, `SetRecalculate`,
`RebuildLock`, `RebuildSkip`, `RebuildClamp` and `RebuildSwap`. A mutex is the set
of control points at which it is held, so it is taken and released exactly where
the scoped objects are. `size_t` subtraction wraps at `SizeT`. The order in which
frames are copied by a rebuild, and which of two frames that meet in one slot
survives, are in `Copied`.

**`DelayLine`.** Accept while fewer than `Bound` wait; release the oldest while at
least `Hold` wait.

**`ThreadSafeQueue`.** One action per atomic operation or semaphore call; a
semaphore is its number of permits. `_enq_idx.store(++_enq_idx % Size)` is two
actions, and `EnqueueThrows` is `at()` throwing inside a `noexcept` function.
`Blocking` adds `dequeue`, which no caller uses at present.

**`Logger`.** Every log call is some step of `enqueue` of its thread; the writer's
loop condition is two actions; `DestructorClear` waits for no thread to be inside
`log`, since the singleton outlives main's threads.

**`AppContext`.** `Shutdown` in six steps. A reason is the thread that gives it.

**`Client`.** `main`, the drawing thread, the input thread, the session's thread and
the library's thread, each with its control point. `SocketOpen`, reconnection and
the join in `stop()` are the library's and are external; they follow from how
`session.cpp` uses it. The delay is kept twice, as the counter of the keys and as
the queue's configuration, because the queue may refuse.

**`DriverData`.** `driver_telemetry.cpp` method by method, as operators on two
records: what a move carries over, and what stays with the object. Distances are
metres divided by a scale; `Preceding` keeps the conversion of a signed quotient
to `size_t`. `Comparable` is when `diff_to_car` has a value, and `PositiveTimes` what it
asserts of the two times before that; the value itself is left out. A message without a
time of day has time 0.

**`DriverTelemetry`.** One driver and the feed: `Report` moves the car by at most a
metre and may carry a runaway timestamp, `ReportDrop` carries a distance already
passed, `Result` the completed laps; any message may come from the pits. `Receive` is
`take_new_telemetry` followed by `refresh`, as the board calls them. Ages and laps are compared, never reset.

**`TelemetryBoard`.** A place is a driver and the object that holds it. `Inform` is
the whole of `inform_new_frame` as a composition of operators on the board, in the
order of the code: stale counts, telemetry, results, completed laps, refresh.
`Grown` is the reallocation of a full vector (it doubles); `Sorted` is every
permutation `std::sort` may produce; `Draw` is sort, reassociation and gaps. `NDEBUG`
removes the call that the assertions contain, and the assertions. A gap is the car it was
calculated for. An assertion that fails and an exception that meets a `noexcept` end the
program. Every message names its car, as `telemetry_board.cpp:146` asserts. Two history
variables belong to the properties: `said` is the frame that has yet to be drawn, `Silence`
when there is none, and `pit_streak` counts each car's messages from the pit.

**`Scoreboard`.** A row for each car that a frame has named, and the frame itself, which
everyone sees. `Frame` determines every row: from the row before it and from the one message
and the result that the frame has for this car (`WithTelemetry`, `WithResult`), or from its
silence. A result stored in another car's row, a message taken by another car, or two rows
exchanged by a drawing are steps of no behaviour of it. It has no places, order or map. The
mapping takes a car to the data of the driver at the place its number leads to; `End` is the
program's end, whose causes are `AbortsHaveCause`. Pit status, checkpoints and gaps, some of
which stay with the object, are not in a row.

**`SessionHandshake`.** The caller, the session's thread and the library's thread. A
message is its kind; telemetry is numbered, so that what is offered to the queue can be
compared with what was sent. `CallbacksFor` is `set_callbacks`, and every branch of
`init_on_message` and `on_message` is an action. The server is external: it sends
keep-alives once greeted, acknowledges every registration, sends telemetry to whom it
has acknowledged (a debug server to anyone), and closes when it likes. `Shutdown`, which
`OnClose` calls, is in `Client`, so here a close is followed by the library's
reconnection or by `end_session`, as the race may go.

**`ReplayServer`.** `worker` is the control point of `operator()`, `stop` that of the stop
callback, `conn` that of each connection's thread in the library, `replay` that of each
session's thread. `held` is the set of owners of a socket: the connection's thread, and
the replay thread while it keeps the pointer it has locked. Dropping the last owner
destroys the callback with the session in it, whose thread is told to stop and joined by
whoever dropped it (`DropSocket`, `Release`). The members of `Session` are destroyed in
the reverse of their order (`workers.hpp`), so the thread goes last and may use the others
after their end; reading the path then is the undefined `Props`, while the weak pointer
still reads as it was, or as empty. The library is fetched by the build and is not part
of the repository: whether it clears the callback when a connection ends, or only with
the socket, is left open, and both are actions. A stop between `make_unique` and `wait()`
is left out, and so is a second stop. In this mode nobody calls
`Shutdown`, so `main` does not get past `AwaitShutdown` to its `request_stop`
(`client_main.cpp:199`); that the worker can be stopped is what its stop callback promises. A replay's clock counts
units of an untimed recording from the start of its thread; converting a timestamp of
seconds and milliseconds is left out. Reading the properties of a recording and giving
back the line that ends them is `Body`.

**`Base64`.** Characters and bytes are numbers, and a group of four characters is a number
of 24 bits, so that shifts and masks are quotients and remainders. `EncodeLine` keeps what
a signed `char` does to the bits above it, and `EncodeByte` what the pad counter puts in
the place of a missing byte. `Standard` is the encoding the server uses. The specification
sends a payload through the server's encoder and `b64_decode`.

**`CommandLine`.** A word of `argv` is what the parser sees in it: a long option, a group
of short ones, or text. `AddElement` follows `main` through the table of elements;
`Lookup` is `finalize`; one iteration of `parse_input` is `ParseThrows`, `ParseSwitch`,
`ParseArg` or `ParseError`; `Got` is `get` with the handlers, as the set of words each
accepts. `outcome` is how `main` goes on: help, failure, `std::terminate` by an exception
that nobody catches, a session or a replay server. The reference is a reading of the line
without the loop (`Values`, `Asked`, `FlagsAsked`). `ParsedAsRead` is about lines in which
no group names two options (`Readable`); `StartsAsAsked` leaves the port out, which any
word that is a number gives.

## 4. Runs and bounds

Passing runs. Deadlock is checked except where a bound or the end of the feed stops
the model.

| Run | Instance | What it shows |
|---|---|---|
| `tq_fixed` | delay 2, rate 1, slop 1, 8 frames, 2 setters that ask for the delay there is or an illegal one, fair | no frame lost, implements `DelayLine`, a filled delay is read, every set call returns |
| `tq_setters` | 2 setters, delays 0 and 2 and an illegal one, two rates, 4 frames, symmetric | nothing delivered twice, nothing stale, indices ordered, no half of the configuration lost, a rebuild keeps every unread frame at its index |
| `lq_many` | 2 producers, 3 items each, `dequeue` and `try_dequeue` mixed, symmetric | types, permits and emptiness |
| `log_single` | 1 thread, ring of 3, 5 lines, fair | a line of `Size - 1`, everything dequeued, every line written, `~Log` returns |
| `client_both` | all keys and a close at any time, fair | a reason when woken, nothing runs at exit, counter and queue agree, main exits unless the latch is counted twice |
| `dt_laps` | 3 checkpoints of 2, time 15 | history true, ordered and free of runaways but for the last checkpoint; pit counter and ages |
| `tb_two` | 2 cars, 3 frames of up to 2 telemetry messages, a result and a lap in any order, distances up to and beyond the lap, times 0 and 1, rank 1, symmetric | the map finds every car, the program ends only for the causes named, the cars of a frame reach their checkpoints, and the board implements `Scoreboard` |
| `session` | remote and debug server, 3 keep-alives a connection, 4 telemetry messages, 2 closes, inbox of 3, fair | latch counted once, nothing skipped, nothing runs after the end, connections get started, `end_session` returns |
| `cli` | 12 words, one of each kind, lines of up to 4 | values, flags and arguments are those the line means; nothing starts on a refused value |
| `replay` | 2 clients, a timed, an untimed and a broken recording of 2 to 5 lines, time 2, a stop, fair | payload sent in order, paced, dies only of the causes named, replays end and a stop returns |

Why the bounds are enough. The rings have one to five slots. In `tq_fixed`
and `log_single` the frames or lines go round the ring more than once, so every slot is
reused and every modulus wraps; in `tq_setters` the rings of one, two and
three slots are filled and shrunk, and the safety theorems of section 6 cover
the rest. Two setters
or two producers are enough for each kind of race, since the conflicts are
pairwise. `SizeT` is small but larger than every legal index, and a power of two as
2^64 is. In `DriverTelemetry` 15 ticks are two laps of 6 metres and half of another, so
each checkpoint is reached again; three checkpoints do not divide 2^64, so that the index
before the first wraps to the wrong one; the jump is larger than the allowed difference
and the clock never is, as in the feed (2e6 against 1e6). In `TelemetryBoard` 3 frames
add both cars, move them and use them after the move: a car with a result has rank 1 and one
without the largest rank, so a result exchanges them. A lap of 3 with distances from 1 holds a
drop that is corrected and a distance beyond the last checkpoint; the drops that are not
corrected are in `dt_laps`, and in the theorems. In `session` three keep-alives
are more than the one a start needs, so that registrations and acknowledgements too many
are on their way while the callbacks change, and two closes let a second connection be
closed as well. In `cli` four words are a switch with its value before and after
another, or two groups; a word's treatment depends on the words before it only through the
index and the flags and values set. In `replay` two clients are one that leaves while the
other is served, since the sessions share nothing but the recording and the stop; the
recordings hold a property with and without a value, a line to skip between two that are
sent, one due at once and one later, and one that cannot be read. `b64_pad` has payloads of
one to four bytes, a full group and one more, from the bytes at which the tables and the
sign change; `Base64Proofs` covers every length. `MaxDelay` bounds the counter
above `MAX_DELAY_S`, where the queue already refuses. All bounds are the constants
named `Max...` and `SizeT`.

Runs that TLC refutes are listed in section 7.

## 5. Fairness

* `TelemetryQueue`: the network owes nobody a frame, so starting an enqueue has no
  fairness. A call that has begun goes on (weak), the drawing thread polls for ever
  (weak), and a mutex that is free again and again is obtained (strong): its holders
  keep it for a few instructions between sleeps of 100 ms.
* `Logger`: weak fairness of each thread inside a call, of the writer's loop and of a
  destructor that has begun; nobody is obliged to log or to end the program.
  `ThreadSafeQueue` alone has safety properties only.
* `Client`: weak fairness of main, the workers, the session's thread and a Shutdown
  in progress; no key need be pressed and no server need close.
* `SessionHandshake`: weak fairness of the caller's own steps, of the session's thread,
  of the library, and of a server that keeps alive and acknowledges; nobody is obliged to
  end the session, to close or to send telemetry.
* `ReplayServer`: weak fairness of each replay thread, of the clock, of a stop whose
  connections are gone, and of the end of a connection that is closed or has been told to
  close (the library gives up waiting for the client's answer). No client need come or
  leave and nobody need stop the worker; once the program is terminated nothing moves.
* `DriverTelemetry`, `TelemetryBoard`, `CommandLine` and `Base64` have safety properties
  only.

## 6. Proofs

TLAPS checks these for every value of the constants, from the assumptions named in
the modules. They are: positive rates, slop, lap and checkpoint lengths; `NULL`, `NONE`
and `NULLOPT` unlike every value they stand beside; finitely many producers; a log ring of
more than two slots and fewer than `size_t` can count; the two callers of `Client`;
recordings that are sequences of lines, and words of finitely many letters. What a theorem
assumes beyond these is in its row, and the paragraphs after the table say when it holds.

| Theorem | Statement | Argument |
|---|---|---|
| `TypeCorrect` | `TypeOK` | `LockInv`: types, at most one setter past the entry, readers and a rebuild exclude each other, and each thread's slot is the one its index names. Types alone are not inductive: a store to a slot after a rebuild shrank the vector must be excluded by the locks |
| `ConfigConsistentAlways` | `ConfigConsistent` | `ConfigInv`: what is out of date at each point of a set call |
| `IndicesOrderedAlways` | `IndicesOrdered` | `OrderInv`: also between a consumer's take and move, an entry is pending |
| `NoStaleFrameAlways`, `DeliveredOnceAlways` | `NoStaleFrame`, `DeliveredOnce` | `OnceInv`: frames in the ring are distinct, not delivered, and in the window of pending indices; a rebuild's copy preserves all three because two indices less than a ring apart never share a slot (`WindowSlots`) |
| `RebuildKeepsFramesAlways` | `RebuildKeepsFrames` | from `LockInv` and `OrderInv`: while the window fits the new vector, the last index that lands in a slot is the only one (`CopiedKeeps`) |
| `RingCompleteWhenFixed` | `RingComplete`, any number of setters that ask for the delay there is (`KeepsDelay`) | `FixedInv`: the window fits the ring even while a producer past the capacity test waits for a lock. With `SameSettings`, what is derived of such a request is what was there, so a rebuild skips nothing and its copy puts every frame where it was (`SwapKeeps`) |
| `ImplementsDelayLine` | `Spec => DelayLineSpec`, the same setters | `EnqueueCommit` is Accept, `DequeueMove` is Release, everything else, rebuilds included, stutters |
| `LoggerProofs`: `TypeCorrect` | `TypeOK` of `ThreadSafeQueue`, any producers | `QueueInv`: types, indices in range but for a producer between increment and store, and three sums: of permits, of the size and of what is in the ring, each over the control points of all threads. The size wraps when a consumer has decremented it before it waits, which is the one case in which the sum is -1 |
| `PermitsAreConserved`, `EmptyMeansEmpty` | `PermitsConserved`, `EmptyIsEmpty` | the same `QueueInv`: a consumer between its calls adds nothing to the sums, so a size of zero is an empty ring |
| `ImplementsLine`, `LoggerImplementsLine` | `Spec => LineSpec`, `LoggerSpec => LineSpec`, one producer | `FifoInv`: with one producer the slots between the two indices are the line, and the producer writes to none of them; `EnqueuePlace` is Accept, `DequeueTake` is Release |
| `LinesAreWritten` | `LinesWritten`, one producer | `LoggerInv`: the writer tests the size only after it has seen the flag cleared, and the flag is cleared only when every log call has returned; with `EmptyMeansEmpty` a size of zero is the last word |
| `ReasonIsGiven` | `ReasonGiven` | `ReasonInv`: a thread past the reason's scope has stored one, and only such a thread counts the latch |
| `ExitIsQuiet` | `QuietAtExit` | `QuietInv`: control points of main imply which threads have ended; an ended thread is in no call, and a session that is done has no socket |
| `DelayIsCounted` | `DelayCounted` | inductive with the type of the counter |
| `ShutdownIsCounted` | `ShutdownCounted`: the latch stays between -1 and 1, and is counted when nobody is inside `Shutdown` any more | `CountInv`: what the latch has lost and what threads on their way to it will still take add up to at most one each; the last to leave has found the mutex free or its holder about to count |
| `OneCauseShutsDownOnce` | latch 0 or 1, and `ReasonStable`, if only the user or only the server ends the program | `OnlyOneCalls`: the other thread is outside `Shutdown` for ever |
| `ParsedAsReadAlways` | `ParsedAsRead`, lines of any words | `LineInv`: the parser stands at a word that is not a value and has done what the words before it mean (`ReadSoFar`). That a word is a value depends on the word before alone (`ValuesNext`), so one iteration adds exactly its word to what is meant |
| `StartsAsAskedAlways` | `StartsAsAsked` | `StartInv`: what main has found out by each control point |
| `OwnAlways`, `PitSettles`, `AgesPerLap` | `InPitSettled`, `AgePerLap` | `OwnInv`: types, the object's count is the streak, no age exceeds the laps counted |
| `DistanceIsTrue` | `DistanceTrue`, `ResetDist < LapLength - 1` | `TrackInv`: the distance is the car's also while drops arrive |
| `TimesAreOrdered` | `TimesOrdered`, the same | `OrderInv`: counted back from the car, times fall and ages do not; a checkpoint reached is moved from the last place to the first (`OneFurther`) |
| `RunawaysRemain` | `RunawaySkippedInLap`, the same, and no fault lasts (`~Lasting`) | `AwayInv`: the predecessor is emptied at the next checkpoint, except that of the first, whose index wraps at 2^64. That the number of checkpoints divides 2^64 is not assumed, and `RunawaySkipped`, which would need it, is not proved |
| `MapAlwaysMatches` | `MapMatches`, any feed, either build | `BoardInv`: `Linked`, which says that map and vector are each other's inverse, through a fold over the frame's messages, a reallocation, any permutation and the reassociation |
| `AbortsAreExplained` | `AbortsHaveCause`, any feed | in `BoardInv`: with assertions, what a message looks up is populated before, so the fold over the frame never fails and what is left are `Refresh`, the map of a car without telemetry, and the times of `diff_to_car` |
| `NothingAborts` | `NeverAborts`, assertions compiled in, telemetry first, distances on the track, no time 0 | each of the causes of `AbortsHaveCause` is excluded by one of the hypotheses: `Identified` (no driver without a number is drawn), no distance beyond the last checkpoint, and `TimedCheckpoint` (times are those of messages) |
| `CheckpointIsCurrent` | `CheckpointCurrent`, any feed, either build, any number of messages a frame | between frames no object has telemetry to refresh, so a drawing loses nothing; without a new car nothing is moved in a frame, so a message is refreshed where it was taken (`InformedBy`) |
| `ImplementsScoreboard` | `BoardSpec => ScoreboardSpec`, assertions compiled in, any feed | the same `BoardInv`: what each operator on the board does to a car's row, through the fold over the messages (`RowAfter`), whose row at the end is that of the one message about the car; a reallocation, a refresh and a drawing leave all rows as they are, since the driver that is moved and the place in the map are the same car's |
| `StartIsCountedOnce` | `StartCountedOnce` | `LatchInv`: the latch is counted exactly when the started callbacks are in place, and nothing takes them away |
| `EndIsQuiet` | `QuietAfterEnd` | `SocketInv`: a socket is on only while the session's thread waits |
| `NothingIsSkipped` | `NothingSkipped` | `StreamInv`: what was offered and the telemetry in the inbox, read in order, are what was sent, numbered without a gap; and as long as the initial callbacks are in place, telemetry in the inbox is behind a `start_ack` that replaces them |
| `EncodesPlainText` | `b64_encode` is the standard encoding of every text without a byte above 127 | the characters that are written for a group depend on its bytes alone; what the pad counter puts into the last group reaches none of them |
| `DecodesUnlessOnePad` | `b64_decode` undoes the standard encoding unless there is exactly one pad | sixes of 24 bits put together again are the 24 bits; a character of the table is read back to its value |
| `PayloadsDecoded` | `DecodedUnlessOnePad`, payloads of any length and bytes | what `Decode` is given is what `Send` has encoded |
| `OneLineAfterStopAlways` | `OneLineAfterStop`, the first part of `SentAsRecorded` | `SocketInv` of `ReplayServerProofs`: a replay that has sent a line since it was told does not read another |
| `AbortsOnlyWhenDroppedAlways` | `AbortsOnlyWhenDropped` | the same `SocketInv`: a connection that has not ended owns its socket, so an unowned one belongs to a connection that has |
| `SentAsRecordedAlways` | `SentAsRecorded`, any clients and recordings | `ReadInv`: what was sent is what the lines before the position ask for, and whether the recording is timed was decided at the first line of its body |
| `PacedAlways` | `Paced` | `ReadInv`: past the sleep the clock has reached the time of the last line sent |

When the hypotheses hold. `ResetDist` is 97% of the lap, so a lap of thousands of
metres has places after it; the feed of the model reports every place, as the tests do, and
the theorem says how little of that is needed. `LineSpec` and `LinesWritten` are false with
two producers (`ItemsKept` in section 7). `RingCompleteWhenFixed` and `ImplementsDelayLine`
ask for setters that leave the delay as it is (any setter of the rate before there is a delay,
and a key pressed at a limit afterwards): a set call for another delay changes the line's
bound, and `rebuild_delay` keeps one frame too many of a full ring. The
checkpoints of a real track seldom divide 2^64 (a track of the tests has 51), which is why
`RunawaysRemain` does not speak of the last one. `NothingAborts` is the one theorem about the
board that restricts the feed; a result before telemetry, a distance beyond the lap, a time of
0 and a release build are in section 7 with what they break, and the run `tb_two` has the
first three. One cause of the end is a client whose user does not press the quit key or whose
server does not close.

Only model-checked: liveness everywhere (`FilledIsRead`, `SetTerminates`,
`EnqueuedIsTaken`, `DestructorReturns`, `ShutdownExitsOrOvercounts`, `Starts`, `EndReturns`,
`StopReturns`), which is out of the prover's reach. Every other property of a passing run is
stated by a theorem; `TypeOK` of `TelemetryQueue` is proved and in no run. What a recursive function computes is proved of the functions the
models use (`taken` of `TelemetryBoard`, `value` of `CommandLine`, `asked` of `ReplayServer`)
from the existence of a least counterexample, `LeastExists`, in place of an induction rule.

## 7. What the runs found

Each of these runs checks one sentence of a comment, an assertion or a test, and
TLC shows a behaviour of the code that breaks it.

| Run | What happens |
|---|---|
| `b64_pad` | with one pad character the decoder subtracts the padding twice, and the last byte of the payload is cut off (`tools/base64.cpp:47`) |
| `tb_pit` | the pit counter stays with the place when drivers are sorted, so a car shows as in the pits on another car's count |

The models contain other disagreements that no configuration of this directory
checks. Each is a property of the module named, and is refuted by a run given here,
changed as stated, or as it is (`none`), with the property added.

| Property | Run to change | Change | What happens |
|---|---|---|---|
| `RingComplete` | `tq_setters` | 1 setter, delays 0, 1 and 2, no rates, 8 frames, no symmetry | `rebuild_delay` keeps one frame too many of a full ring (`telemetry_queue.cpp:70`); the oldest kept is overwritten |
| `ShutdownExits` | `client_both` | none | two callers count the latch to -1; main never wakes (`app_context.hpp:59`) |
| `DeliveredInOrder` | `tq_setters` | 1 setter, delay 2, 8 frames, no symmetry | a producer that saw the larger capacity before the vector grew (`telemetry_queue.cpp:99`) overwrites an unread frame |
| `IndicesAsserted` | `tq_setters` | delays 1 and 2, initial delay and rate 2 | the unlocked assertion of `telemetry_queue.cpp:97` fails between two stores of a rebuild |
| `FilledIsRead` | `tq_fixed` | 1 setter, delays 1 and 2, 6 frames | after a full ring has shrunk its oldest slot is null, and the queue answers DELAY_FULL and TOO_RECENT for ever |
| `ItemsKept` | `lq_many` | none | two logging threads write the same slot; one line is lost |
| `ReasonStable` | `client_both` | none | two callers both pass the test of `app_context.hpp:48`; the second reason replaces the first |
| `MinusDecreases` | `client_both` | no close | presses of plus that were refused are still counted, and minus does nothing until they are undone |
| `NeverThrows` | `lq_many` | none | between the increment and the store of `queue.hpp:30` a second producer reads an index past the last slot; `at()` throws in a `noexcept` function |
| `RunawaySkipped` | `dt_laps` | none | 0 - 1 is converted to 2^64 - 1 before the modulo (`driver_telemetry.cpp:67`), so what comes before the first checkpoint is not the last one unless the number of checkpoints divides 2^64; a runaway time at the last one stays |
| `RunawaySkippedInLap` | `dt_laps` | `Lasting = TRUE` | a timestamp away for two checkpoints leaves a runaway time behind |
| `NeverAborts` | `tb_two` | `NDEBUG = TRUE` | no driver is ever added and the first telemetry message is fatal (`telemetry_board.cpp:173`) |
| `NeverAborts` | `tb_two` | none | a result or a lap before a car's telemetry leaves a driver without a number, and drawing fails (`telemetry_board.cpp:60`) |
| `NeverAborts` | `tb_two` | `ResultsFirst = FALSE`, `Times = {1}` | a distance beyond the lap asks for a checkpoint that the vector does not have: an assertion fails, or `at()` throws (`driver_telemetry.cpp:64-68`) |
| `NeverAborts` | `tb_two` | `ResultsFirst = FALSE`, `Dists = {0, 1, 2}` | a message without a time of day puts 0 into a checkpoint, and the first gap measured there fails an assertion (`driver_telemetry.cpp:154-155`) |
| `CheckpointShown` | `tb_two` | none | adding a car in a frame loses the new telemetry of the cars before it in that frame (`telemetry_board.cpp:153`) |
| `AgeShown` | `tb_pit` | none | the current lap stays with the place when drivers are sorted, so a swap ages the checkpoints |
| `GapIsOwn` | `tb_two` | none | a gap that cannot be calculated keeps the value of another car |
| `ErrReported` | `session` | `Sources = {"LOCAL_REPLAY"}` | `start_session` reads `init_res` before its thread has written it and reports success (`session.cpp:221`) |
| `RegisteredOnce` | `session` | none | keep-alives that come before `start_ack` are each answered with a registration |
| `StatusShown` | `session` | none | a debug session delivers telemetry and shows "Initiating connection" |
| `Reregisters` | `session` | none | after a reconnection the started callbacks leave keep-alives unanswered; `Shutdown` by the first close hides it |
| `FlagsNotSkipped` | `cli` | none | a group that names two options gives both the next word and skips two, so the switch after it is lost (`cli.cpp:203`) |
| `ErrorsReported` | `cli` | none | an empty word, a dash alone, a refused value and a missing source or mode end the program by an uncaught exception |
| `ListedModesWork` | `cli` | none | the help text lists a mode, `local-replay`, that the handler does not know (`client_main.cpp:48`) |
| `NeverAborts` | `replay` | none | a client that leaves while a line is read or sent: the socket that is locked again is null, or the replay thread drops the last reference and joins itself (`served_replay_worker.cpp:151`) |
| `StoppedMeansDone` | `replay` | none | the stop callback has no session to stop (`served_replay_worker.cpp:32`), and the server it stops may be gone while a replay runs |
| `SentWhenDue` | `replay` | none | a line is sent when it is read, and the thread sleeps until its time afterwards (`served_replay_worker.cpp:151-153`) |

`ShutdownExits` and `ReasonStable` need the quit key and a close by the server within
the few instructions of `Shutdown`; `DeliveredInOrder` needs a key press within an
enqueue, `ItemsKept` and `NeverThrows` two threads within one of the log queue's. The others happen in ordinary use.

## 8. Not modelled

Drawing, layout and columns (text); the AppSync resolver and HTTP (blocking requests
without state); the UUID, time and number helpers and the test timer;
`replay_server_main.cpp`, an older stand-alone server, and `demo_display_main.cpp`, a demo
that prints what a session delivers; both are programs of their own. Within modelled parts: the layout of the help text, the
conversion of a recording's timestamps, the websocket's frames; frames' contents outside the
board, log levels and flushing, event information, the terminal, the session's message
timestamps and drawn status. Undefined behaviour is modelled only where it bites
here: the latch below its precondition subtracts, as the library does.

## 9. Running it

    tlc -config tq_fixed.cfg MCTelemetryQueue.tla
    tlapm TelemetryQueueProofs.tla

The prefix of a configuration names its module: `tq_` MCTelemetryQueue, `lq_`
MCThreadSafeQueue, `log_` MCLogger, `client_` MCClient, `dt_` MCDriverTelemetry, `tb_`
MCTelemetryBoard; `session` is MCSessionHandshake, `b64_` MCBase64, `cli` MCCommandLine and `replay`
MCReplayServer. `PROJECT.json` lists the runs, the mutants that show each
property can fail, the lines every definition models, and the hazards.
