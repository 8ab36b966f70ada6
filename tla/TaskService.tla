----------------------------- MODULE TaskService -----------------------------
(***************************************************************************)
(* TaskService (src/asab/task.py): fire-and-forget tasks are queued by     *)
(* schedule(), started by the service's main task, collected when they are *)
(* done and reported by TaskService.task_done!.                            *)
(*                                                                         *)
(* Everything runs on one event loop: an action is what runs between two   *)
(* awaits.  A task may be cancelled by the application; the main task may  *)
(* die and is started again by the callback of its end; finalize() may     *)
(* come at any time.                                                       *)
(***************************************************************************)
EXTENDS Naturals

CONSTANTS
  Task,        \* the tasks that are ever scheduled
  NoTask,      \* stands for "no task"
  Cancelling,  \* the tasks that the application may cancel
  Finalizing   \* may the application finalize the service

ASSUME TaskAssumption == NoTask \notin Task /\ Cancelling \subseteq Task
ASSUME FinalizingAssumption == Finalizing \in BOOLEAN

VARIABLES
  new,       \* NewTasks; the main task empties it at once, so without order
  pending,   \* PendingTasks
  state,     \* of each task
  reports,   \* history: how often TaskService.task_done! was published for it
  main,      \* where the main task is: "get" and "wait" are its two awaits
  mainRef,   \* is the main task in self.Main
  fin,       \* how far finalize() is
  finLeft,   \* the tasks it has still to cancel
  finAt      \* the one it waits for

finVars == <<fin, finLeft, finAt>>
vars == <<new, pending, state, reports, main, mainRef, finVars>>

Finished == {"returned", "raised", "cancelled"}

TypeOK ==
  /\ new \subseteq Task
  /\ pending \subseteq Task
  /\ state \in [Task -> {"unborn", "new", "running"} \cup Finished]
  /\ reports \in [Task -> Nat]
  /\ main \in {"none", "begin", "get", "wait", "exited"}
  /\ mainRef \in BOOLEAN
  /\ fin \in {"no", "cancelling", "done"}
  /\ finLeft \subseteq Task
  /\ finAt \in Task \cup {NoTask}

\* initialize() has started the main task.
Init ==
  /\ new = {}
  /\ pending = {}
  /\ state = [t \in Task |-> "unborn"]
  /\ reports = [t \in Task |-> 0]
  /\ main = "begin"
  /\ mainRef = TRUE
  /\ fin = "no"
  /\ finLeft = {}
  /\ finAt = NoTask

Done == {t \in pending : state[t] \in Finished}

-----------------------------------------------------------------------------
(* The application.                                                        *)

\* schedule(), schedule_threadsafe() and run_forever() put a task into NewTasks.
Schedule(t) ==
  /\ state[t] = "unborn"
  /\ state' = [state EXCEPT ![t] = "new"]
  /\ new' = new \cup {t}
  /\ UNCHANGED <<pending, reports, main, mainRef, finVars>>

\* A task comes to its end, whether or not finalize() has asked it to.
End(t, how) ==
  /\ state[t] = "running"
  /\ state' = [state EXCEPT ![t] = how]
  /\ UNCHANGED <<new, pending, reports, main, mainRef, finVars>>

EndByItself(t) == End(t, "returned") \/ End(t, "raised")

EndCancelled(t) ==
  /\ t \in Cancelling \/ t = finAt
  /\ End(t, "cancelled")

-----------------------------------------------------------------------------
(* main(), and the callback of its end.                                    *)

\* From the top of the loop to the next await: NewTasks is emptied, the tasks in it
\* run; without any task at all the main task waits for one.
Collect(kept, s) ==
  /\ pending' = kept \cup new
  /\ state' = [t \in Task |-> IF t \in new THEN "running" ELSE s[t]]
  /\ new' = {}
  /\ main' = IF pending' = {} THEN "get" ELSE "wait"

Begin ==
  /\ main = "begin"
  /\ Collect(pending, state)
  /\ UNCHANGED <<reports, mainRef, finVars>>

\* NewTasks.get() returns.
Get ==
  /\ main = "get"
  /\ new # {}
  /\ Collect(pending, state)
  /\ UNCHANGED <<reports, mainRef, finVars>>

\* Mutant of Reap: only the first of the tasks that are done is reported.
ReapFirst ==
  /\ main = "wait"
  /\ Done # {} /\ \A t \in Done : state[t] # "cancelled"
  /\ \E t \in Done : reports' = [reports EXCEPT ![t] = @ + 1]
  /\ Collect(pending \ Done, state)
  /\ UNCHANGED <<mainRef, finVars>>

\* asyncio.wait() returns, when all are done or after a second: what is done is
\* no longer pending, and reported, and the loop goes on.
Reap ==
  /\ main = "wait"
  /\ \A t \in Done : state[t] # "cancelled"
  /\ reports' = [t \in Task |-> IF t \in Done THEN reports[t] + 1 ELSE reports[t]]
  /\ Collect(pending \ Done, state)
  /\ UNCHANGED <<mainRef, finVars>>

\* "await task" of a cancelled task raises CancelledError, which "except Exception"
\* lets pass: the main task ends with only those reported that came before it
\* in the set.
ReapCancelled ==
  /\ main = "wait"
  /\ \E t \in Done : state[t] = "cancelled"
  /\ \E before \in SUBSET {t \in Done : state[t] # "cancelled"} :
       reports' = [t \in Task |-> IF t \in before THEN reports[t] + 1 ELSE reports[t]]
  /\ pending' = pending \ Done
  /\ main' = "exited"
  /\ UNCHANGED <<new, state, mainRef, finVars>>

\* Mutant of MainTaskExited: the end of the main task is logged, and that is all.
MainTaskExitedLogs ==
  /\ main = "exited"
  /\ main' = "none"
  /\ UNCHANGED <<new, pending, state, reports, mainRef, finVars>>

\* Mutant of MainTaskExited: start() begins with an empty PendingTasks.
MainTaskExitedClears ==
  /\ main = "exited"
  /\ IF mainRef THEN main' = "begin" /\ pending' = {}
                ELSE main' = "none" /\ UNCHANGED pending
  /\ UNCHANGED <<new, state, reports, mainRef, finVars>>

\* _main_task_exited() starts another main task, unless finalize() has taken it.
MainTaskExited ==
  /\ main = "exited"
  /\ main' = IF mainRef THEN "begin" ELSE "none"
  /\ UNCHANGED <<new, pending, state, reports, mainRef, finVars>>

-----------------------------------------------------------------------------
(* finalize()                                                              *)

\* Mutant of FinalizeMain: self.Main is not cleared before the cancellation.
FinalizeMainKeepsRef ==
  /\ Finalizing
  /\ fin = "no"
  /\ main' = "exited"
  /\ fin' = "cancelling"
  /\ finLeft' = pending
  /\ UNCHANGED <<new, pending, state, reports, mainRef, finAt>>

\* The main task is cancelled at its await, and has ended, before the pending
\* tasks are looked at.
FinalizeMain ==
  /\ Finalizing
  /\ fin = "no"
  /\ mainRef' = FALSE
  /\ main' = "exited"
  /\ fin' = "cancelling"
  /\ finLeft' = pending
  /\ UNCHANGED <<new, pending, state, reports, finAt>>

FinalizeCancel ==
  /\ fin = "cancelling"
  /\ finAt = NoTask
  /\ \E t \in finLeft : finAt' = t /\ finLeft' = finLeft \ {t}
  /\ UNCHANGED <<new, pending, state, reports, main, mainRef, fin>>

\* "await task" returns or raises; a task that raised stays in PendingTasks.
FinalizeAwait ==
  /\ finAt # NoTask
  /\ state[finAt] \in Finished
  /\ pending' = IF state[finAt] = "raised" THEN pending ELSE pending \ {finAt}
  /\ finAt' = NoTask
  /\ UNCHANGED <<new, state, reports, main, mainRef, fin, finLeft>>

FinalizeDone ==
  /\ fin = "cancelling"
  /\ finAt = NoTask
  /\ finLeft = {}
  /\ fin' = "done"
  /\ UNCHANGED <<new, pending, state, reports, main, mainRef, finLeft, finAt>>

-----------------------------------------------------------------------------
Main == Begin \/ Get \/ Reap \/ ReapCancelled \/ MainTaskExited

Finalize == FinalizeMain \/ FinalizeCancel \/ FinalizeAwait \/ FinalizeDone

Next ==
  \/ \E t \in Task : Schedule(t) \/ EndByItself(t) \/ EndCancelled(t)
  \/ Main \/ Finalize

Spec == Init /\ [][Next]_vars

\* The event loop runs what is ready.  No task has to end, nothing has to be
\* cancelled or finalized.
FairSpec == Spec /\ WF_vars(Main)

-----------------------------------------------------------------------------
(* Properties.                                                             *)

\* The service holds every task that runs: none is left to itself when the main
\* task dies, is started again or is cancelled by finalize().
RunningHeld == \A t \in Task : state[t] = "running" => t \in pending

\* No task is reported twice, nor before it is done.
ReportedOnce ==
  \A t \in Task : reports[t] <= IF state[t] \in Finished THEN 1 ELSE 0

\* After finalize() no task runs: neither one it has seen, nor one that a main
\* task started since.
FinalizedIsFinal == fin = "done" => \A t \in Task : state[t] # "running"

\* While the service is not finalized every scheduled task is started, however
\* often the main task dies, and although the other tasks may run forever.
ScheduledRuns ==
  <>[](fin # "no" \/ \A t \in Task : state[t] # "new")

\* The result of every task is collected: what is done is reported in the end, unless
\* finalize() comes or some task was cancelled.
DoneReported ==
  <>[](\/ fin # "no" \/ \E s \in Task : state[s] = "cancelled"
       \/ \A t \in Task : state[t] \in Finished => reports[t] = 1)
=============================================================================
