------------------------------ MODULE AppContext ------------------------------
(***************************************************************************)
(* App::AppContext (core/app_context.hpp): the singleton through which any *)
(* thread asks main to shut the program down.  A caller stands for a       *)
(* thread and for the one reason that thread gives.                        *)
(***************************************************************************)
EXTENDS Integers, FiniteSets

CONSTANTS
    Callers,        \* threads that call Shutdown
    NONE            \* no reason, no owner

ASSUME AppContextAssumption == NONE \notin Callers

VARIABLES
    can_shut_down,  \* _can_shut_down
    reason,         \* _reason
    shutdown_mtx,   \* the caller that holds _do_shutdown_mtx, or NONE
    latch,          \* the counter of _shutdown_latch
    caller          \* control point of each caller, inside Shutdown

appVars == <<can_shut_down, reason, shutdown_mtx, latch, caller>>

AppInit ==
    /\ can_shut_down = TRUE
    /\ reason = NONE
    /\ shutdown_mtx = NONE
    /\ latch = 1
    /\ caller = [c \in Callers |-> "idle"]

-------------------------------------------------------------------------------
(* Shutdown.  The flag is tested and cleared in two operations.            *)

ShutdownLate(c) ==
    /\ caller[c] = "idle"
    /\ ~can_shut_down
    /\ UNCHANGED appVars

ShutdownFirst(c) ==
    /\ caller[c] = "idle"
    /\ can_shut_down
    /\ caller' = [caller EXCEPT ![c] = "clear"]
    /\ UNCHANGED <<can_shut_down, reason, shutdown_mtx, latch>>

ShutdownClear(c) ==
    /\ caller[c] = "clear"
    /\ can_shut_down' = FALSE
    /\ caller' = [caller EXCEPT ![c] = "reason"]
    /\ UNCHANGED <<reason, shutdown_mtx, latch>>

\* Mutant: no reason is stored.
ShutdownReasonMissing(c) ==
    /\ caller[c] = "reason"
    /\ caller' = [caller EXCEPT ![c] = "lock"]
    /\ UNCHANGED <<can_shut_down, reason, shutdown_mtx, latch>>

\* _reason_mtx guards the one assignment.
ShutdownReason(c) ==
    /\ caller[c] = "reason"
    /\ reason' = c
    /\ caller' = [caller EXCEPT ![c] = "lock"]
    /\ UNCHANGED <<can_shut_down, shutdown_mtx, latch>>

\* try_lock: when it fails another caller is about to release the latch.
ShutdownTryLock(c) ==
    /\ caller[c] = "lock"
    /\ IF shutdown_mtx = NONE
         THEN /\ shutdown_mtx' = c
              /\ caller' = [caller EXCEPT ![c] = "count"]
         ELSE /\ caller' = [caller EXCEPT ![c] = "idle"]
              /\ UNCHANGED shutdown_mtx
    /\ UNCHANGED <<can_shut_down, reason, latch>>

\* Counting below zero breaks the latch's precondition; the library subtracts.
ShutdownCount(c) ==
    /\ caller[c] = "count"
    /\ latch' = latch - 1
    /\ caller' = [caller EXCEPT ![c] = "unlock"]
    /\ UNCHANGED <<can_shut_down, reason, shutdown_mtx>>

ShutdownUnlock(c) ==
    /\ caller[c] = "unlock"
    /\ shutdown_mtx' = NONE
    /\ caller' = [caller EXCEPT ![c] = "idle"]
    /\ UNCHANGED <<can_shut_down, reason, latch>>

\* A call that has begun goes on.
ShutdownGoesOn(c) ==
    ShutdownClear(c) \/ ShutdownReason(c) \/ ShutdownTryLock(c)
      \/ ShutdownCount(c) \/ ShutdownUnlock(c)

\* AwaitShutdown: the waiter returns once it reads a counter of exactly zero.
Released == latch = 0

-------------------------------------------------------------------------------
(* Properties.                                                             *)

\* "Only the first call to shutdown can do anything" (app_context.hpp:47): the
\* reason of the call that started the shutdown is the one that is reported.
ReasonStable == [][reason # NONE => reason' = reason]_appVars

\* "Graceful shutdown should always have a provided reason"
\* (app_context.hpp:65): the latch is never released before there is one, even
\* by callers that race.
ReasonGiven == latch # 1 => reason # NONE

===============================================================================
