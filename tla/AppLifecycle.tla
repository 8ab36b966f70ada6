---------------------------- MODULE AppLifecycle ----------------------------
(***************************************************************************)
(* The lifecycle of an Application (src/asab/application.py): run() takes  *)
(* it through init-time, run-time and exit-time.  In each of them a        *)
(* governor of ASAB and a hook of the user (initialize(), main(),          *)
(* finalize()) run side by side; modules and services are registered at    *)
(* construction and at any time after it, and stop(), restart() and        *)
(* set_exit_code() are called by whoever likes.                            *)
(*                                                                         *)
(* Everything runs on one event loop: an action is what runs between two   *)
(* awaits.                                                                 *)
(***************************************************************************)
EXTENDS Naturals, Sequences, Functions

CONSTANTS
  Module, Service,
  NoItem,        \* stands for "no module and no service"
  Constructed,   \* the modules and services of the constructor
  AtExit,        \* those which may be registered in exit-time
  Code,          \* the exit codes, numbers
  RestartCode,   \* the exit code "!RESTART!"
  TicksPerTen,   \* so many ticks make a tick/10
  Stopping,      \* the phases in which stop() may be called
  HookRaises     \* may a hook of the user raise

Item == Module \cup Service

VARIABLES
  phase,      \* of the process
  modules,    \* Modules
  services,   \* Services, which keeps the order of registration
  initModules, initServices,   \* InitModulesQueue, InitServicesQueue
  governor,   \* where the governor of the phase is
  busy,       \* the module or service whose initialize() or finalize() it awaits
  left,       \* how many are left of those it finalizes
  size,       \* the size of Services that its iterator expects
  hook,       \* the hook of the user
  stopEvent, stopCounter, exitCode,
  restartAsked,   \* is _do_restart() subscribed to tick/10
  tick,           \* the cycle of the run-time governor, modulo TicksPerTen
  initialized,    \* history: for which initialize() was called
  finalized       \* history: for which finalize() was called, in this order

items == <<modules, services, initModules, initServices>>
governorVars == <<governor, busy, left, size>>
stopVars == <<stopEvent, stopCounter, exitCode, restartAsked>>
history == <<initialized, finalized>>
vars == <<phase, items, governorVars, hook, stopVars, tick, history>>

Running == {"init", "run", "exit"}
Alive == {"construct"} \cup Running
Gone == {"ended", "restarted", "died", "aborted"}

TypeOK ==
  /\ phase \in Alive \cup Gone
  /\ modules \in Seq(Module) /\ initModules \in Seq(Module)
  /\ services \in Seq(Service) /\ initServices \in Seq(Service)
  /\ governor \in {"none", "modules", "services", "wait", "exit",
                   "finServices", "finModules", "sleep", "returned"}
  /\ busy \in Item \cup {NoItem}
  /\ left \in 0..(Len(modules) + Len(services))
  /\ size \in 0..Len(services)
  /\ hook \in {"none", "runs", "returned"}
  /\ stopEvent \in BOOLEAN
  /\ stopCounter \in 0..3
  /\ exitCode \in Code \cup {RestartCode}
  /\ restartAsked \in BOOLEAN
  /\ tick \in 0..(TicksPerTen - 1)
  /\ initialized \subseteq Item
  /\ finalized \in Seq(Item)

Init ==
  /\ phase = "construct"
  /\ modules = <<>> /\ services = <<>>
  /\ initModules = <<>> /\ initServices = <<>>
  /\ governor = "none" /\ busy = NoItem /\ left = 0 /\ size = 0
  /\ hook = "none"
  /\ stopEvent = FALSE /\ stopCounter = 0 /\ exitCode = 0 /\ restartAsked = FALSE
  /\ tick = 0
  /\ initialized = {} /\ finalized = <<>>

-----------------------------------------------------------------------------
(* What anybody may call.                                                  *)

Registered(i) == i \in Range(modules) \cup Range(services)

\* When may i be registered?  The first that reads Services or Modules is run().
MayRegister(i) ==
  /\ ~Registered(i)
  /\ \/ phase = "construct" /\ i \in Constructed
     \/ phase \in {"init", "run"} /\ i \notin Constructed
     \/ phase = "exit" /\ i \in AtExit

\* add_module()
AddModule(m) ==
  /\ MayRegister(m)
  /\ modules' = Append(modules, m)
  /\ initModules' = Append(initModules, m)
  /\ UNCHANGED <<phase, services, initServices, governorVars, hook, stopVars, tick, history>>

\* _register_service()
RegisterService(s) ==
  /\ MayRegister(s)
  /\ services' = Append(services, s)
  /\ initServices' = Append(initServices, s)
  /\ UNCHANGED <<phase, modules, initModules, governorVars, hook, stopVars, tick, history>>

Greater(c, d) == c # RestartCode /\ d # RestartCode /\ c > d

\* Mutant of CodeAfter: whatever is forced wins, over a restart too.
CodeAfterForced(c, force) ==
  IF c = RestartCode \/ Greater(c, exitCode) \/ force THEN c ELSE exitCode

\* set_exit_code(): the code only grows, unless forced; a restart is for good.
CodeAfter(c, force) ==
  IF exitCode = RestartCode THEN exitCode
  ELSE IF c = RestartCode \/ Greater(c, exitCode) \/ force THEN c ELSE exitCode

SetExitCode(c, force) ==
  /\ phase \in Alive
  /\ exitCode' = CodeAfter(c, force)
  /\ exitCode' # exitCode
  /\ UNCHANGED <<phase, items, governorVars, hook, stopEvent, stopCounter, restartAsked,
                 tick, history>>

\* What stop(c) does; the third call of it aborts the process.
StopWith(c) ==
  /\ exitCode' = CodeAfter(c, FALSE)
  /\ stopEvent' = TRUE
  /\ stopCounter' = stopCounter + 1
  /\ phase' = IF stopCounter' >= 3 THEN "aborted" ELSE phase

\* stop(), called by the user or by a signal; its code is the present one when
\* none is given.
Stop(c) ==
  /\ phase \in Stopping
  /\ StopWith(c)
  /\ UNCHANGED <<items, governorVars, hook, restartAsked, tick, history>>

\* restart()
AskRestart ==
  /\ phase \in Alive
  /\ ~restartAsked
  /\ restartAsked' = TRUE
  /\ UNCHANGED <<phase, items, governorVars, hook, stopEvent, stopCounter, exitCode, tick,
                 history>>

\* A hook comes to its end; with an exception run() raises it, and its "finally"
\* restarts what has to be restarted.
DieWithException ==
  phase' = IF phase # "init" /\ exitCode = RestartCode THEN "restarted" ELSE "died"

HookReturns ==
  /\ phase \in Running
  /\ hook = "runs"
  /\ hook' = "returned"
  /\ UNCHANGED <<phase, items, governorVars, stopVars, tick, history>>

HookFails ==
  /\ HookRaises
  /\ phase \in Running
  /\ hook = "runs"
  /\ DieWithException
  /\ UNCHANGED <<items, governorVars, hook, stopVars, tick, history>>

-----------------------------------------------------------------------------
(* _ensure_initialization()                                                *)

\* The next await: of a module, of a service when there is no module, or, with both
\* queues empty, what the governor does then.
NextModule ==
  /\ initModules # <<>>
  /\ busy' = initModules[Len(initModules)]
  /\ initModules' = SubSeq(initModules, 1, Len(initModules) - 1)
  /\ initialized' = initialized \cup {busy'}
  /\ governor' = "modules"
  /\ UNCHANGED initServices

NextService ==
  /\ initServices # <<>>
  /\ busy' = initServices[Len(initServices)]
  /\ initServices' = SubSeq(initServices, 1, Len(initServices) - 1)
  /\ initialized' = initialized \cup {busy'}
  /\ governor' = "services"
  /\ UNCHANGED initModules

NothingToInitialize(goto) ==
  /\ initServices = <<>>
  /\ busy' = NoItem
  /\ governor' = goto
  /\ UNCHANGED <<initModules, initServices, initialized>>

EnsureServices(goto) == NextService \/ NothingToInitialize(goto)

EnsureInitialization(goto) ==
  NextModule \/ (initModules = <<>> /\ EnsureServices(goto))

\* Where the governor goes from _ensure_initialization().
Goto == IF phase = "init" THEN "returned" ELSE "wait"

\* initialize() of a module returns, or raises and that is logged.
ModuleInitialized ==
  /\ governor = "modules"
  /\ phase \in {"init", "run"}
  /\ EnsureInitialization(Goto)
  /\ UNCHANGED <<phase, modules, services, left, size, hook, stopVars, tick, finalized>>

\* initialize() of a service returns or raises: a module registered meanwhile has to
\* wait for the next cycle.
ServiceInitialized ==
  /\ governor = "services"
  /\ phase \in {"init", "run"}
  /\ EnsureServices(Goto)
  /\ UNCHANGED <<phase, modules, services, left, size, hook, stopVars, tick, finalized>>

-----------------------------------------------------------------------------
(* run() and the governors of init-time and run-time.                      *)

\* The governor is the first of the two to run, and up to its first await.
StartInit ==
  /\ phase = "construct"
  /\ phase' = "init"
  /\ hook' = "runs"
  /\ EnsureInitialization("returned")
  /\ UNCHANGED <<modules, services, left, size, stopVars, tick, finalized>>

\* Both have returned: the stop event is cleared, and run-time begins.
StartRun ==
  /\ phase = "init" /\ governor = "returned" /\ hook = "returned"
  /\ phase' = "run"
  /\ hook' = "runs"
  /\ stopEvent' = FALSE
  /\ EnsureInitialization("wait")
  /\ UNCHANGED <<modules, services, left, size, stopCounter, exitCode, restartAsked, tick,
                 finalized>>

\* Nobody has stopped the application for the time of a tick.
TickDue == phase = "run" /\ governor = "wait" /\ ~stopEvent

\* Is it a tick/10 to which restart() has subscribed?
RestartDue == tick' = 0 /\ restartAsked

\* Mutant of Tick: _ensure_initialization() is called once, before the cycles.
TickOnly ==
  /\ TickDue
  /\ tick' = (tick + 1) % TicksPerTen
  /\ ~RestartDue
  /\ UNCHANGED <<phase, items, governorVars, hook, stopVars, history>>

\* Mutant of Tick: it comes also when the stop event is set.
TickAnyway ==
  /\ phase = "run" /\ governor = "wait"
  /\ tick' = (tick + 1) % TicksPerTen
  /\ ~RestartDue
  /\ EnsureInitialization("wait")
  /\ UNCHANGED <<phase, modules, services, left, size, hook, stopVars, finalized>>

\* The ticks are published, and the next cycle begins.
Tick ==
  /\ TickDue
  /\ tick' = (tick + 1) % TicksPerTen
  /\ ~RestartDue
  /\ EnsureInitialization("wait")
  /\ UNCHANGED <<phase, modules, services, left, size, hook, stopVars, finalized>>

\* _do_restart() is called with the tick/10.
TickRestart ==
  /\ TickDue
  /\ tick' = (tick + 1) % TicksPerTen
  /\ RestartDue
  /\ StopWith(RestartCode)
  /\ IF phase' = "aborted"
       THEN UNCHANGED <<initModules, initServices, governor, busy, initialized>>
       ELSE EnsureInitialization("wait")
  /\ UNCHANGED <<modules, services, left, size, hook, restartAsked, finalized>>

StopWaited ==
  /\ phase = "run" /\ governor = "wait" /\ stopEvent
  /\ governor' = "returned"
  /\ UNCHANGED <<phase, items, busy, left, size, hook, stopVars, tick, history>>

\* Here the hook, finalize(), is the first to run.
StartExit ==
  /\ phase = "run" /\ governor = "returned" /\ hook = "returned"
  /\ phase' = "exit"
  /\ governor' = "exit"
  /\ hook' = "runs"
  /\ UNCHANGED <<items, busy, left, size, stopVars, tick, history>>

-----------------------------------------------------------------------------
(* _exit_time_governor()                                                   *)

\* finalize() of what is at n is called and awaited.
FinalizeAt(seq, n) ==
  /\ n > 0
  /\ busy' = seq[n]
  /\ finalized' = Append(finalized, busy')
  /\ left' = n - 1

\* Modules are iterated backwards from where their end is now.
FinalizeModules(n) ==
  \/ FinalizeAt(modules, n) /\ governor' = "finModules"
  \/ n = 0 /\ busy' = NoItem /\ left' = 0 /\ governor' = "sleep" /\ UNCHANGED finalized

FinalizeServices(n) ==
  \/ FinalizeAt(services, n) /\ governor' = "finServices"
  \/ n = 0 /\ FinalizeModules(Len(modules))

\* Mutant of ExitBegin: services are finalized from the first one.
ExitBeginForward ==
  /\ phase = "exit" /\ governor = "exit"
  /\ size' = Len(services)
  /\ IF services = <<>> THEN FinalizeModules(Len(modules))
     ELSE /\ busy' = services[1] /\ finalized' = Append(finalized, services[1])
          /\ left' = Len(services) - 1 /\ governor' = "finServices"
  /\ UNCHANGED <<phase, items, hook, stopVars, tick, initialized>>

ExitBegin ==
  /\ phase = "exit" /\ governor = "exit"
  /\ size' = Len(services)
  /\ FinalizeServices(Len(services))
  /\ UNCHANGED <<phase, items, hook, stopVars, tick, initialized>>

\* finalize() returns, or raises and that is logged.
ServiceFinalized ==
  /\ phase = "exit" /\ governor = "finServices"
  /\ Len(services) = size
  /\ FinalizeServices(left)
  /\ UNCHANGED <<phase, items, size, hook, stopVars, tick, initialized>>

\* The iterator over Services finds that one was added: its error leaves the governor.
ServicesChanged ==
  /\ phase = "exit" /\ governor = "finServices"
  /\ Len(services) # size
  /\ DieWithException
  /\ UNCHANGED <<items, governorVars, hook, stopVars, tick, history>>

ModuleFinalized ==
  /\ phase = "exit" /\ governor = "finModules"
  /\ FinalizeModules(left)
  /\ UNCHANGED <<phase, items, size, hook, stopVars, tick, initialized>>

\* At most three seconds are given to the other tasks.
Slept ==
  /\ phase = "exit" /\ governor = "sleep"
  /\ governor' = "returned"
  /\ UNCHANGED <<phase, items, busy, left, size, hook, stopVars, tick, history>>

\* run() returns, or replaces the process by a new one.
End ==
  /\ phase = "exit" /\ governor = "returned" /\ hook = "returned"
  /\ phase' = IF exitCode = RestartCode THEN "restarted" ELSE "ended"
  /\ UNCHANGED <<items, governorVars, hook, stopVars, tick, history>>

-----------------------------------------------------------------------------
Run == StartInit \/ StartRun \/ StartExit \/ End

Governor ==
  \/ ModuleInitialized \/ ServiceInitialized
  \/ Tick \/ TickRestart \/ StopWaited
  \/ ExitBegin \/ ServiceFinalized \/ ServicesChanged \/ ModuleFinalized \/ Slept

Calls ==
  \/ \E m \in Module : AddModule(m)
  \/ \E s \in Service : RegisterService(s)
  \/ \E c \in Code \cup {RestartCode}, force \in BOOLEAN : SetExitCode(c, force)
  \/ \E c \in Code \cup {RestartCode} : Stop(c)
  \/ AskRestart \/ HookReturns \/ HookFails

Next == Run \/ Governor \/ Calls

Spec == Init /\ [][Next]_vars

\* The event loop runs what is ready, and what the user has written for it comes to
\* an end: initialize(), main() and finalize() return.  Nobody has to call anything.
FairSpec == Spec /\ WF_vars(Run) /\ WF_vars(Governor) /\ WF_vars(HookReturns)

-----------------------------------------------------------------------------
(* Properties.                                                             *)

\* Was i registered before j, or as a module when j is a service?  Each is registered once.
Before(i, j) ==
  LET order == modules \o services
  IN \E p, q \in DOMAIN order : p < q /\ order[p] = i /\ order[q] = j

\* What is finalized is registered, and finalized once and in the reverse order of
\* registration, services before modules: nothing outlives what was registered before it,
\* whatever is registered meanwhile.
FinalizedInReverse ==
  /\ Range(finalized) \subseteq Range(modules) \cup Range(services)
  /\ \A j, k \in DOMAIN finalized : j < k => Before(finalized[k], finalized[j])

\* A stop() of run-time or exit-time ends the application, with all that is between it
\* and the end.
StopEnds == stopEvent /\ phase \in {"run", "exit"} ~> phase \in Gone

\* So does restart(), at the next tick/10; and a restart that was asked for with stop()
\* ends in a new process, whatever is called or raised before.
RestartHappens ==
  /\ restartAsked ~> phase \in Gone
  /\ (exitCode = RestartCode /\ stopEvent /\ phase \in {"run", "exit"})
       ~> phase \in {"restarted", "aborted"}

\* What is registered in init-time or run-time is initialized in the end, unless the
\* application stops before.
RegisteredInitialized ==
  <>[](\/ stopEvent \/ phase \in Gone
       \/ \A i \in Item : Registered(i) => i \in initialized)
=============================================================================
