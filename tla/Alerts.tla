------------------------------- MODULE Alerts -------------------------------
(***************************************************************************)
(* A provider of asab.AlertService (src/asab/alert.py): a queue of alerts  *)
(* and a main task that takes one after the other and posts it to OpsGenie *)
(* or PagerDuty.  A main task that fails is replaced by its callback, on a *)
(* later turn of the loop; finalize() cancels it.                          *)
(*                                                                         *)
(* Providers do not share anything: AlertService.trigger() puts an alert   *)
(* into the queue of each.  Alerts are numbered as they are triggered.     *)
(***************************************************************************)
EXTENDS Naturals, Sequences

CONSTANTS
  MaxAlerts     \* bound: alerts

VARIABLES
  triggered,    \* how many alerts were triggered
  queue,        \* Queue
  mainTask,     \* is MainTask set
  mainAt,       \* where the task is: it ends before its callback runs
  inHand,       \* the alert it has taken, 0 for none
  alertsPhase   \* of the application: "before" initialize(), "running" or "finalized"

alertVars == <<triggered, queue, mainTask, mainAt, inHand, alertsPhase>>

TypeOK ==
  /\ triggered \in 0..MaxAlerts
  /\ queue \in Seq(1..MaxAlerts)
  /\ mainTask \in BOOLEAN
  /\ mainAt \in {"none", "get", "post", "ended"}
  /\ inHand \in 0..MaxAlerts
  /\ alertsPhase \in {"before", "running", "finalized"}

Init ==
  /\ triggered = 0
  /\ queue = <<>>
  /\ mainTask = FALSE
  /\ mainAt = "none"
  /\ inHand = 0
  /\ alertsPhase = "before"

-----------------------------------------------------------------------------
\* Before initialize() too, and after finalize(), when nobody takes it any more.
Trigger ==
  /\ triggered < MaxAlerts
  /\ triggered' = triggered + 1
  /\ queue' = Append(queue, triggered')
  /\ UNCHANGED <<mainTask, mainAt, inHand, alertsPhase>>

Initialize ==
  /\ alertsPhase = "before"
  /\ alertsPhase' = "running"
  /\ mainTask' = TRUE
  /\ mainAt' = "get"
  /\ UNCHANGED <<triggered, queue, inHand>>

Get ==
  /\ mainAt = "get"
  /\ queue # <<>>
  /\ inHand' = Head(queue)
  /\ queue' = Tail(queue)
  /\ mainAt' = "post"
  /\ UNCHANGED <<triggered, mainTask, alertsPhase>>

\* The service answers, with 202 or with something else that is only logged.
Posted ==
  /\ mainAt = "post"
  /\ inHand' = 0
  /\ mainAt' = "get"
  /\ UNCHANGED <<triggered, queue, mainTask, alertsPhase>>

\* Nobody answers: the exception ends the task, and the alert in hand is lost.
PostFails ==
  /\ mainAt = "post"
  /\ inHand' = 0
  /\ mainAt' = "ended"
  /\ UNCHANGED <<triggered, queue, mainTask, alertsPhase>>

\* Mutant of MainDone: the failure is logged and the task not started again.
MainDoneLogs ==
  /\ mainAt = "ended"
  /\ mainAt' = "none"
  /\ mainTask' = FALSE
  /\ UNCHANGED <<triggered, queue, inHand, alertsPhase>>

\* _main_done(): of a provider that was finalized nothing is started again.
MainDone ==
  /\ mainAt = "ended"
  /\ mainAt' = IF mainTask THEN "get" ELSE "none"
  /\ UNCHANGED <<triggered, queue, mainTask, inHand, alertsPhase>>

\* CancelledError reaches the task before anything else does.
Finalize ==
  /\ alertsPhase = "running"
  /\ alertsPhase' = "finalized"
  /\ mainTask' = FALSE
  /\ mainAt' = "ended"
  /\ inHand' = 0
  /\ UNCHANGED <<triggered, queue>>

MainStep == Get \/ Posted \/ PostFails \/ MainDone
Next == Trigger \/ Initialize \/ MainStep \/ Finalize

-----------------------------------------------------------------------------
(* Properties.                                                             *)

\* Every alert is taken to be posted unless the application ends, whatever happened to
\* those before it (alert.py:70-86, 117-148).
Taken == <>[](queue = <<>> \/ alertsPhase = "finalized")
=============================================================================
