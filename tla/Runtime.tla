------------------------------ MODULE Runtime ------------------------------
(***************************************************************************)
(* The run-time of an application: what every Application has, whatever it *)
(* serves.  The configuration it reads, PubSub, the task service, the      *)
(* lifecycle, housekeeping, timers, alerts, metrics, and the handlers that *)
(* log to syslog and to web sockets share the main loop and no state: here *)
(* each is on its own, with the application as its environment.            *)
(*                                                                         *)
(* One part is chosen in the beginning and the others stay as they are, so *)
(* that a state is one of that part.  The task service is extended, the    *)
(* others are instances.                                                   *)
(***************************************************************************)
EXTENDS TaskService, Integers, Sequences

CONSTANTS
  Callback, MaxSubs, MaxDepth,                                         \* of PubSub
  Module, Service, NoItem, Constructed, AtExit, Code, RestartCode,
  TicksPerTen, Stopping, HookRaises,                                   \* of AppLifecycle
  Day, Hours, MaxDays,                                                 \* of Housekeeping
  Job, NoJob, MaxCalls,                                                \* of Timer
  MaxAlerts,                                                           \* of Alerts
  MaxMetrics, Key, Kind, Name, DynTags, NoTags, Expiration, MaxTime,
  MaxUpdates,                                                          \* of Metrics
  Thread, MainThread, MaxRecords, MaxSendErrors,                       \* of SyslogHandler
  Stream, Room, MaxStreamed,                                           \* of LogStream
  File, MainFile, Globs, Defaults, Node                                \* of Configuration

\* No job is none; a deque of log records has room for one at least.
ASSUME TimerAssumption == NoJob \notin Job /\ MaxCalls \in Nat
ASSUME StreamAssumption == Room \in Nat \ {0}

\* The defaults and the node of ZooKeeper are no files, nor is an item of an option both a glob
\* and the node.
ASSUME ConfigAssumption ==
  /\ Defaults \notin File \cup {Node} /\ Node \notin File \cup Globs
  /\ MainFile \in File /\ Globs \subseteq SUBSET File

\* A tick is two units, so that days and hours have an even number of them; and there are no more
\* days than ticks in a day: a service that slept for longer than that may need more than a day
\* to take the turns that it slept through.
ASSUME HouseAssumption ==
  /\ Day \in Nat \ {0} /\ Day % 2 = 0 /\ Hours \subseteq {h \in 0..(Day - 1) : h % 2 = 0}
  /\ MaxDays \in 1..(Day \div 2)

\* The classes of metrics that there are; metrics expire after a number of seconds.
ASSUME MetricAssumption ==
  /\ Kind \subseteq {"gauge", "counter", "eps", "aggregation", "histogram", "duty",
                     "dynCounter", "dynAggregation", "dynHistogram"}
  /\ Expiration \in Int

VARIABLES
  part,        \* the part that was chosen
  target, lists, current, alive, frames,
  phase, modules, services, initModules, initServices, governor, busy, left, size, hook,
  stopEvent, stopCounter, exitCode, restartAsked, tick, initialized, finalized,
  schedule, houseNow, housekeepingTime, housekeepingTimeLimit, housekeepingId, missed, published,
  awake,
  autoRestart, timerTask, job, wanted, ticks, calls,
  triggered, alerts, mainTask, mainAt, inHand, alertsPhase,
  now, listed, metrics, made, class, updates, flushes,
  syslog, writeReady, records, draining, emitter, logged, sent, printed, spoilt, sendErrors,
  buffer, streamed, webSockets, stream, senders, unsent, closing,
  includes, option, reads, included, stack, loading

Messages == INSTANCE PubSub
Application == INSTANCE AppLifecycle
House == INSTANCE Housekeeping WITH now <- houseNow
Timers == INSTANCE Timer
Alerting == INSTANCE Alerts WITH queue <- alerts
Meter == INSTANCE Metrics
Logging == INSTANCE SyslogHandler WITH queue <- records, Main <- MainThread
Streams == INSTANCE LogStream
Config == INSTANCE Configuration

messageVars == <<target, lists, current, alive, frames>>
appVars == <<phase, modules, services, initModules, initServices, governor, busy, left, size,
             hook, stopEvent, stopCounter, exitCode, restartAsked, tick, initialized, finalized>>
houseVars == <<schedule, houseNow, housekeepingTime, housekeepingTimeLimit, housekeepingId, missed,
               published, awake>>
timerVars == <<autoRestart, timerTask, job, wanted, ticks, calls>>
alertVars == <<triggered, alerts, mainTask, mainAt, inHand, alertsPhase>>
metricVars == <<now, listed, metrics, made, class, updates, flushes>>
logVars == <<syslog, writeReady, records, draining, emitter, logged, sent, printed, spoilt,
             sendErrors>>
streamVars == <<buffer, streamed, webSockets, stream, senders, unsent, closing>>
confVars == <<includes, option, reads, included, stack, loading>>
runtimeVars == <<part, vars, messageVars, appVars, houseVars, timerVars, alertVars, metricVars,
                 logVars, streamVars, confVars>>

RuntimeInit ==
  /\ part \in {"tasks", "messages", "application", "housekeeping", "timers", "alerts", "metrics",
              "logging", "streams", "configuration"}
  /\ Init /\ Messages!Init /\ Application!Init /\ Alerting!Init /\ Logging!Init
  /\ Streams!Init
  /\ House!Init /\ (part = "housekeeping" \/ (houseNow = 1 /\ schedule = CHOOSE s \in House!Schedules : TRUE))
  /\ Timers!Init /\ (part = "timers" \/ autoRestart)
  /\ Meter!Init /\ (part = "metrics" \/ class = CHOOSE k \in Kind : TRUE)
  /\ (part # "configuration" => includes = [f \in File \cup {Node} |-> <<>>]) /\ Config!Init

RuntimeNext ==
  \/ /\ part = "tasks" /\ Next
     /\ UNCHANGED <<messageVars, appVars, houseVars, timerVars, alertVars, metricVars,
                    logVars, streamVars, confVars>>
  \/ /\ part = "messages" /\ Messages!Next
     /\ UNCHANGED <<vars, appVars, houseVars, timerVars, alertVars, metricVars,
                    logVars, streamVars, confVars>>
  \/ /\ part = "application" /\ Application!Next
     /\ UNCHANGED <<vars, messageVars, houseVars, timerVars, alertVars, metricVars,
                    logVars, streamVars, confVars>>
  \/ /\ part = "housekeeping" /\ House!Next
     /\ UNCHANGED <<vars, messageVars, appVars, timerVars, alertVars, metricVars,
                    logVars, streamVars, confVars>>
  \/ /\ part = "timers" /\ Timers!Next
     /\ UNCHANGED <<vars, messageVars, appVars, houseVars, alertVars, metricVars,
                    logVars, streamVars, confVars>>
  \/ /\ part = "alerts" /\ Alerting!Next
     /\ UNCHANGED <<vars, messageVars, appVars, houseVars, timerVars, metricVars,
                    logVars, streamVars, confVars>>
  \/ /\ part = "metrics" /\ Meter!Next
     /\ UNCHANGED <<vars, messageVars, appVars, houseVars, timerVars, alertVars,
                    logVars, streamVars, confVars>>
  \/ /\ part = "logging" /\ Logging!Next
     /\ UNCHANGED <<vars, messageVars, appVars, houseVars, timerVars, alertVars,
                    metricVars, streamVars, confVars>>
  \/ /\ part = "streams" /\ Streams!Next
     /\ UNCHANGED <<vars, messageVars, appVars, houseVars, timerVars, alertVars,
                    metricVars, logVars, confVars>>
  \/ /\ part = "configuration" /\ Config!Next
     /\ UNCHANGED <<vars, messageVars, appVars, houseVars, timerVars, alertVars,
                    metricVars, logVars, streamVars>>

\* The fairness of each part, as its module has it.
TaskFairness == WF_vars(part = "tasks" /\ Main)
ApplicationFairness ==
  /\ WF_appVars(part = "application" /\ Application!Run)
  /\ WF_appVars(part = "application" /\ Application!Governor)
  /\ WF_appVars(part = "application" /\ Application!HookReturns)
TimersFairness == \A j \in Job : WF_timerVars(part = "timers" /\ Timers!JobStep(j))
AlertingFairness ==
  /\ WF_alertVars(part = "alerts" /\ Alerting!Initialize)
  /\ WF_alertVars(part = "alerts" /\ Alerting!MainStep)
LoggingFairness == WF_logVars(part = "logging" /\ Logging!LoopStep)
ConfigFairness == WF_confVars(part = "configuration" /\ Config!LoadStep)

RuntimeSpec ==
  /\ RuntimeInit /\ [][RuntimeNext /\ UNCHANGED part]_runtimeVars
  /\ TaskFairness /\ ApplicationFairness /\ TimersFairness /\ AlertingFairness
  /\ LoggingFairness /\ ConfigFairness
-----------------------------------------------------------------------------
(* Properties.  Those of TaskService are checked under their own names.    *)

\* A publication misses at most as many subscribers as references were removed from its list
\* while it walked it (pubsub.py:119-163).
MissedAreShifted == Messages!MissedAreShifted

\* Nobody is called whose unsubscribe() has returned (pubsub.py:45-80).
OnlySubscribed == Messages!OnlySubscribed

\* Services and modules are finalized in the reverse order of registration
\* (application.py:640-700).
FinalizedInReverse == Application!FinalizedInReverse

\* A stop() of run-time or exit-time ends the application.
StopEnds == part = "application" => Application!StopEnds

\* restart() ends the process, and stop() with the code of a restart replaces it.
RestartHappens == part = "application" => Application!RestartHappens

\* What is registered in init-time or run-time is initialized in the end.
RegisteredInitialized == part = "application" => Application!RegisteredInitialized

\* A timer has one job that may call its handler, stop() reaches it, and no log record
\* vanishes or overtakes another, a stream of log records misses none but for the cases its
\* module names, and each file of the configuration is read once: what is started late or
\* queued early is not lost to the interleaving with its handler, with a thread or with a loop
\* that walks a list which grows (timer.py:56-96, log.py:521-572, api/log.py:45-209,
\* config.py:182-250).
NothingSlips ==
  Timers!OneArmed /\ Logging!RecordsKept /\ Logging!SentInOrder
  /\ Streams!RecordsStreamed /\ Config!IncludedOnce

\* The loops of the run-time go on through what they call failing: a timer that restarts
\* itself ticks, every alert is taken, every log record is sent, and the reading of files that
\* include each other ends, but for the cases that the modules name (timer.py:91-96,
\* alert.py:76-86, log.py:521-537, config.py:182-220).
LoopsGoOn ==
  /\ part = "timers" => Timers!Ticks
  /\ part = "alerts" => Alerting!Taken
  /\ part = "logging" => Logging!AllSent
  /\ part = "configuration" => Config!Loaded

\* What a clock drives is done once in its interval: housekeeping is done once a day, in its
\* time, and a flush exports what was counted since the last one, of what is registered alone
\* (application.py:794-826, metrics/service.py:95-167, metrics.py:33-618).
OncePerInterval == House!OncePerDay /\ Meter!ListedOnce /\ Meter!ExportsAreRight
=============================================================================
