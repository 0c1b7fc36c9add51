------------------------------ MODULE TaskRetry ------------------------------
(***************************************************************************)
(* The retry deadline of one leaf: TaskRetryPolicy.decide and the waiter   *)
(* (tasks/retry.py), _apply_retry_result, _wait_for_retry and              *)
(* _retry_deadline_rejection (tasks/scheduler_retry.py).                   *)
(*                                                                         *)
(* Two clocks are involved.  The deadline is measured on the wall clock    *)
(* (time.time), which may be set forwards or back at any moment and is     *)
(* kept in the checkpoint; the wait is measured on the monotonic clock of  *)
(* Event.wait.  The program may die at any step and continue from the      *)
(* checkpoint.  Delay[n] is the backoff of retry n with its jitter, which  *)
(* is a fixed function of the retry's number.                              *)
(***************************************************************************)
EXTENDS Integers

CONSTANTS
    MaxAttempts,    \* max_attempts_per_leaf
    Window,         \* max_retry_elapsed_seconds
    Delay,          \* seconds to wait before retry n
    MaxWall,        \* bound: the wall clock's last value
    MaxRuns         \* bound: executions of the leaf

ASSUME RetryAssumption ==
    /\ MaxAttempts \in 2 .. 10
    /\ Window \in Nat \ {0}
    /\ Delay \in [0 .. MaxAttempts - 2 -> Nat]
    /\ MaxWall \in Nat
    /\ MaxRuns \in Nat

VARIABLES
    task,       \* the node in memory
    file,       \* the node in the checkpoint
    wall,       \* time.time()
    at,         \* where the scheduler is with this leaf
    waiting,    \* the wait: its delay, the wall clock at its start, and the
                \* seconds of it that have passed
    runs,       \* executions so far
    reason      \* why the last retry was refused

retryVars == <<task, file, wall, at, waiting, runs, reason>>

Never == -1     \* retry_started_at is None
NoWait == [delay |-> 0, since |-> 0, spent |-> 0]

RetryInit ==
    /\ task = [status |-> "ready", retries |-> 0, started |-> Never]
    /\ file = task
    /\ wall = 0
    /\ at = "scheduler"
    /\ waiting = NoWait
    /\ runs = 0
    /\ reason = "none"

\* _save
Saved == file' = task'

\* _start_leaf: the attempt is on record before the leaf runs
Start ==
    /\ at = "scheduler"
    /\ task.status = "ready"
    /\ runs < MaxRuns
    /\ task' = [task EXCEPT !.status = "running"]
    /\ Saved
    /\ at' = "leaf"
    /\ runs' = runs + 1
    /\ UNCHANGED <<wall, waiting, reason>>

\* the leaf completes, or ends in a way no retry is asked for
Ends ==
    /\ at = "leaf"
    /\ \E status \in {"completed", "failed", "blocked"} :
        task' = [task EXCEPT !.status = status]
    /\ Saved
    /\ at' = "scheduler"
    /\ UNCHANGED <<wall, waiting, runs, reason>>

---------------------------------------------------------------------------

\* TaskRetryPolicy.decide, in its order; "ok" authorizes
Decision(authorized) ==
    LET elapsed == IF task.started = Never THEN 0 ELSE wall - task.started
    IN  IF ~ authorized THEN "not_authorized"
        ELSE IF task.retries >= MaxAttempts - 1 THEN "attempts_exhausted"
        ELSE IF elapsed < 0 THEN "clock_regressed"
        ELSE IF elapsed >= Window THEN "elapsed_exhausted"
        ELSE IF Delay[task.retries] > Window - elapsed THEN "delay_exceeds"
        ELSE "ok"

DatedAnew(t) == [t EXCEPT !.started = wall]

\* the first authorization dates the window
Dated(t) == [t EXCEPT !.started = IF @ = Never THEN wall ELSE @]

Again(t) == [t EXCEPT !.retries = @ + 1, !.status = "ready"]

\* blocked or failed, as the result was
Refused(t, why) ==
    /\ \E status \in {"failed", "blocked"} : task' = [t EXCEPT !.status = status]
    /\ reason' = why
    /\ waiting' = NoWait
    /\ at' = "scheduler"
    /\ Saved

\* a retryable result, of the leaf or of a contended lease: authorized says
\* whether code, node and idempotency key are the policy's
Asks(authorized) ==
    /\ \/ at = "leaf"
       \/ at = "scheduler" /\ task.status = "ready"
    /\ LET why == Decision(authorized) IN
        IF why # "ok" THEN Refused(task, why)
        ELSE IF Delay[task.retries] = 0
        THEN /\ task' = Again(Dated(task))
             /\ Saved
             /\ at' = "scheduler"
             /\ UNCHANGED <<waiting, reason>>
        ELSE \* _wait_for_retry, which saves before it waits
             \/ /\ task' = Dated(task)
                /\ Saved
                /\ at' = "wait"
                /\ waiting' = [delay |-> Delay[task.retries], since |-> wall, spent |-> 0]
                /\ UNCHANGED reason
             \* there is no waiter
             \/ Refused(Dated(task), "cancelled")
    /\ UNCHANGED <<wall, runs>>

\* _retry_deadline_rejection, after the wait
LateBy(elapsed) ==
    IF elapsed < 0 THEN "regressed_after_wait"
    ELSE IF elapsed > Window THEN "exhausted_after_wait"
    ELSE "ok"

WaitOver ==
    /\ at = "wait"
    /\ waiting.spent >= waiting.delay
    /\ LET why == LateBy(wall - task.started) IN
        IF why = "ok"
        THEN /\ task' = Again(task)
             /\ Saved
             /\ at' = "scheduler"
             /\ waiting' = NoWait
             /\ UNCHANGED reason
        ELSE Refused(task, why)
    /\ UNCHANGED <<wall, runs>>

\* the stop event is set, or the waiter or the clock raises
WaitCancelled ==
    /\ at = "wait"
    /\ Refused(task, "cancelled")
    /\ UNCHANGED <<wall, runs>>

---------------------------------------------------------------------------

\* a second passes on both clocks
Second ==
    /\ wall < MaxWall
    /\ wall' = wall + 1
    /\ waiting' = [waiting EXCEPT !.spent = IF @ < waiting.delay THEN @ + 1 ELSE @]
    /\ UNCHANGED <<task, file, at, runs, reason>>

\* somebody sets the wall clock
SetClock(t) ==
    /\ wall' = t
    /\ UNCHANGED <<task, file, at, waiting, runs, reason>>

\* the program dies and another one recovers the graph: a leaf found running
\* is ready again, whether it was executing or waiting for its retry
Die ==
    /\ task' = [file EXCEPT !.status = IF @ = "running" THEN "ready" ELSE @]
    /\ file' = file
    /\ at' = "scheduler"
    /\ waiting' = NoWait
    /\ UNCHANGED <<wall, runs, reason>>

RetryNext ==
    \/ Start
    \/ Ends
    \/ \E authorized \in BOOLEAN : Asks(authorized)
    \/ WaitOver
    \/ WaitCancelled
    \/ Second
    \/ \E t \in 0 .. MaxWall : SetClock(t)
    \/ Die

RetrySpec == RetryInit /\ [][RetryNext]_retryVars

---------------------------------------------------------------------------

\* Every retry that reaches the checkpoint was decided inside the window, and
\* the window is dated once, by the first authorization that reached the
\* checkpoint: no restart, no later authorization and no clock that was set
\* moves it (retry.py:213-246, scheduler_retry.py:98-99, 176-200)
DecidedInWindow ==
    /\ file'.retries > file.retries =>
        /\ file'.retries = file.retries + 1
        /\ file'.started # Never
        /\ wall - file'.started \in 0 .. Window
    /\ file.started # Never => file'.started = file.started

\* The check before the wait and the one after it agree: a retry that was
\* authorized with its delay is refused for the elapsed time only if the wall
\* clock moved by more than the delay (retry.py:230-246 against
\* scheduler_retry.py:198)
PunctualWaitHonored ==
    reason' = "exhausted_after_wait" /\ reason # reason'
        => wall > waiting.since + waiting.delay

\* Both, at every step
RetriesInTime == [][DecidedInWindow /\ PunctualWaitHonored]_retryVars

=============================================================================
