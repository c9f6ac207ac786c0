-------------------------------- MODULE Logger --------------------------------
(***************************************************************************)
(* Tools::Log (tools/logger.hpp): any thread formats a line and enqueues   *)
(* it; one writer thread dequeues the lines and writes them to a file until*)
(* the destructor of the singleton tells it to stop and joins it.          *)
(* ThreadSafeQueue is the queue between them.  Which lines the level lets  *)
(* through, flushing and the file's names are left out.                    *)
(***************************************************************************)
EXTENDS ThreadSafeQueue

VARIABLES
    keep_logging,   \* the atomic flag
    writer,         \* control point of the writer thread
    file,           \* the lines written
    destructor      \* progress of ~Log

loggerVars == <<queueVars, keep_logging, writer, file, destructor>>

LoggerInit ==
    /\ Init
    /\ keep_logging = TRUE
    /\ writer = "keep"
    /\ file = << >>
    /\ destructor = "idle"

-------------------------------------------------------------------------------
\* A call of log, at some point inside enqueue.  The singleton is destroyed
\* after main has returned and every other thread has been joined.
LogLine(p) ==
    /\ destructor = "idle"
    /\ Enqueue(p)
    /\ UNCHANGED <<keep_logging, writer, file, destructor>>

\* while (keep_logging.test() || !_write_queue.empty()): two reads.
WriterTestKeep ==
    /\ writer = "keep"
    /\ writer' = IF keep_logging THEN "get" ELSE "empty"
    /\ UNCHANGED <<queueVars, keep_logging, file, destructor>>

\* Mutant: the flag alone ends the loop.
WriterTestEmptySkipped ==
    /\ writer = "empty"
    /\ writer' = "rename"
    /\ UNCHANGED <<queueVars, keep_logging, file, destructor>>

WriterTestEmpty ==
    /\ writer = "empty"
    /\ writer' = IF size = 0 THEN "rename" ELSE "get"
    /\ UNCHANGED <<queueVars, keep_logging, file, destructor>>

\* Nothing came for a second: continue.
WriterTimeout ==
    /\ writer = "get"
    /\ TryDequeueTimeout
    /\ writer' = "keep"
    /\ UNCHANGED <<keep_logging, file, destructor>>

WriterGet ==
    /\ writer = "get"
    /\ \/ TryDequeue \/ TryDequeueCount
       \/ DequeueTake \/ DequeueAdvance \/ DequeueWrap
    /\ UNCHANGED <<keep_logging, writer, file, destructor>>

WriterGot ==
    /\ writer = "get"
    /\ DequeueRelease
    /\ writer' = "write"
    /\ UNCHANGED <<keep_logging, file, destructor>>

WriterWrite ==
    /\ writer = "write"
    /\ file' = Append(file, taken[Len(taken)])
    /\ writer' = "keep"
    /\ UNCHANGED <<queueVars, keep_logging, destructor>>

\* The file is closed and renamed; a failure to rename is caught.
WriterRename ==
    /\ writer = "rename"
    /\ writer' = "done"
    /\ UNCHANGED <<queueVars, keep_logging, file, destructor>>

Writer == WriterTestKeep \/ WriterTestEmpty \/ WriterTimeout \/ WriterGet
            \/ WriterGot \/ WriterWrite \/ WriterRename

\* Mutant: the flag stays set.
DestructorClearMissing ==
    /\ destructor = "idle"
    /\ Filling = {}
    /\ destructor' = "join"
    /\ UNCHANGED <<queueVars, keep_logging, writer, file>>

DestructorClear ==
    /\ destructor = "idle"
    /\ Filling = {}
    /\ keep_logging' = FALSE
    /\ destructor' = "join"
    /\ UNCHANGED <<queueVars, writer, file>>

DestructorJoin ==
    /\ destructor = "join"
    /\ writer = "done"
    /\ destructor' = "done"
    /\ UNCHANGED <<queueVars, keep_logging, writer, file>>

Terminated ==
    /\ aborted \/ destructor = "done"
    /\ UNCHANGED loggerVars

LoggerNext ==
    \/ /\ ~aborted
       /\ \/ \E p \in Producers : LogLine(p)
          \/ Writer
          \/ DestructorClear
          \/ DestructorJoin
    \/ Terminated

LoggerSpec == LoggerInit /\ [][LoggerNext]_loggerVars

\* The writer runs on, and so does a destructor that has begun; nobody is
\* obliged to log or to end the program.
LoggerFairSpec ==
    /\ LoggerSpec
    /\ WF_loggerVars(~aborted /\ Writer)
    /\ WF_loggerVars(~aborted /\ DestructorJoin)
    /\ \A p \in Producers :
           WF_loggerVars(~aborted /\ prod[p] # "idle" /\ LogLine(p))

-------------------------------------------------------------------------------
(* Properties.                                                             *)

\* When ~Log returns, the file holds every line whose log call has returned,
\* in the order in which the lines were enqueued: the test of the loop reads
\* the flag before the size, and both may change under it.
LinesWritten == destructor = "done" => file = placed

\* ~Log returns: the writer sees the flag within one timeout.
DestructorReturns == destructor = "join" ~> destructor = "done"

===============================================================================
