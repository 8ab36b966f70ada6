------------------------------- MODULE Timer -------------------------------
(***************************************************************************)
(* asab.Timer (src/asab/timer.py): a task that sleeps, takes itself off    *)
(* the timer, starts its successor if the timer restarts itself, and then  *)
(* awaits the handler of the application.                                  *)
(*                                                                         *)
(* Everything runs on the main loop: a step is what runs between two       *)
(* awaits.  start(), stop() and restart() may be called at any moment,     *)
(* also by a handler; how long a job sleeps does not matter here.          *)
(***************************************************************************)
EXTENDS Naturals

CONSTANTS
  Job,        \* the tasks of _job(); bound: handlers that run at a time, and one more
  NoJob,
  MaxCalls    \* bound: calls of start(), stop() and restart()

VARIABLES
  autoRestart,  \* AutoRestart
  timerTask,    \* Task
  job,          \* where each task is: a cancelled one ends when the loop comes to it
  wanted,       \* history: the last call was one to start the timer
  ticks,        \* history: the parity of the number of handlers begun
  calls

timerVars == <<autoRestart, timerTask, job, wanted, ticks, calls>>

TypeOK ==
  /\ autoRestart \in BOOLEAN
  /\ timerTask \in Job \cup {NoJob}
  /\ job \in [Job -> {"none", "asleep", "cancelled", "handling"}]
  /\ wanted \in BOOLEAN
  /\ ticks \in {0, 1}
  /\ calls \in 0..MaxCalls

Init ==
  /\ autoRestart \in BOOLEAN
  /\ timerTask = NoJob
  /\ job = [j \in Job |-> "none"]
  /\ wanted = FALSE
  /\ ticks = 0
  /\ calls = 0

-----------------------------------------------------------------------------
Called(start) == calls < MaxCalls /\ calls' = calls + 1 /\ wanted' = start

\* asyncio.ensure_future(self._job(timeout)), with Task to refer to it.
StartIn(before, j) ==
  /\ before[j] = "none"
  /\ timerTask' = j
  /\ job' = [before EXCEPT ![j] = "asleep"]

\* Task.cancel(): a sleeping job ends with CancelledError, even when its sleep is over and
\* the loop has not come to it yet.
Stopped == IF timerTask = NoJob THEN job ELSE [job EXCEPT ![timerTask] = "cancelled"]

\* Of a timer that is started, start() raises RuntimeError.
Start(j) ==
  /\ Called(TRUE)
  /\ timerTask = NoJob
  /\ StartIn(job, j)
  /\ UNCHANGED <<autoRestart, ticks>>

\* stop(), which Application.stop! calls too.
Stop ==
  /\ Called(FALSE)
  /\ timerTask' = NoJob
  /\ job' = Stopped
  /\ UNCHANGED <<autoRestart, ticks>>

\* Mutant of Restart: the timer is started again without being stopped.
RestartUnstopped(j) ==
  /\ Called(TRUE)
  /\ StartIn(job, j)
  /\ UNCHANGED <<autoRestart, ticks>>

Restart(j) ==
  /\ Called(TRUE)
  /\ StartIn(Stopped, j)
  /\ UNCHANGED <<autoRestart, ticks>>

-----------------------------------------------------------------------------
\* The sleep is over.
Wake(j) ==
  /\ job[j] = "asleep"
  /\ ticks' = 1 - ticks
  /\ IF autoRestart
       THEN \E k \in Job : StartIn([job EXCEPT ![j] = "handling"], k)
       ELSE timerTask' = NoJob /\ job' = [job EXCEPT ![j] = "handling"]
  /\ UNCHANGED <<autoRestart, wanted, calls>>

\* A handler returns or raises, and a cancelled job ends: nothing depends on how.
JobEnds(j) ==
  /\ job[j] \in {"handling", "cancelled"}
  /\ job' = [job EXCEPT ![j] = "none"]
  /\ UNCHANGED <<autoRestart, timerTask, wanted, ticks, calls>>

Next ==
  \/ \E j \in Job : Start(j) \/ Restart(j) \/ Wake(j) \/ JobEnds(j)
  \/ Stop

\* Sleeps end.  Handlers end only for the sake of the bound on them: the code starts a
\* successor however many are under way.
JobStep(j) == Wake(j) \/ JobEnds(j)
-----------------------------------------------------------------------------
(* Properties.                                                             *)

\* At most one job can still call the handler, and stop() reaches it (timer.py:56-62, 91-96).
OneArmed == \A j \in Job : (job[j] = "asleep") <=> (timerTask = j)

\* A timer that restarts itself calls its handler again and again until somebody stops it,
\* even if handlers raise or take longer than the period (timer.py:91-96).
Ticks ==
  <>[](autoRestart /\ wanted) => []<><<ticks' # ticks>>_timerVars
=============================================================================
