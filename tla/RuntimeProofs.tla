---------------------------- MODULE RuntimeProofs ----------------------------
(***************************************************************************)
(* Proofs about Runtime: NothingSlips, FinalizedInReverse,                 *)
(* MissedAreShifted, OncePerInterval, OnlySubscribed, and what is about    *)
(* the task service, for all sets of tasks, callbacks, jobs, threads,      *)
(* streams, modules, services, files and names of metrics, any days, and   *)
(* any links between files.                                                *)
(*                                                                         *)
(* Each part has an inductive invariant of its own: TaskInv, MessageInv,   *)
(* TimerInv, LogInv, StreamInv, ConfigInv, AppInv, HouseInv and            *)
(* MetricsInv.  A step of another part is a stutter of this one            *)
(* (PartSteps).                                                            *)
(***************************************************************************)
EXTENDS Runtime, SequenceTheorems, FiniteSetTheorems, WellFoundedInduction, TLAPS

\* A step of the run-time is a step of a part, or leaves that part as it is.
LEMMA PartSteps ==
  [RuntimeNext /\ UNCHANGED part]_runtimeVars =>
     /\ [Next]_vars
     /\ [Messages!Next]_messageVars
     /\ [Timers!Next]_timerVars
     /\ [Logging!Next]_logVars
     /\ [Streams!Next]_streamVars
     /\ [Application!Next]_appVars
     /\ [Config!Next]_confVars
     /\ [House!Next]_houseVars
     /\ [Meter!Next]_metricVars
  BY DEF RuntimeNext, runtimeVars, vars, messageVars, appVars, houseVars, timerVars, alertVars,
         metricVars, logVars, streamVars, confVars

-----------------------------------------------------------------------------
(* Sequences and finite sets.                                              *)

LEMMA AppendFacts ==
  ASSUME NEW S, NEW s \in Seq(S), NEW e \in S
  PROVE  /\ Append(s, e) \in Seq(S)
         /\ Len(Append(s, e)) = Len(s) + 1
         /\ DOMAIN s = 1..Len(s) /\ Len(s) \in Nat
         /\ DOMAIN Append(s, e) = 1..(Len(s) + 1)
         /\ \A i \in 1..Len(s) : Append(s, e)[i] = s[i]
         /\ Append(s, e)[Len(s) + 1] = e
  BY LenProperties

LEMMA TailFacts ==
  ASSUME NEW S, NEW s \in Seq(S), s # <<>>
  PROVE  /\ Head(s) \in S /\ Head(s) = s[1]
         /\ Tail(s) \in Seq(S)
         /\ Len(s) \in Nat /\ Len(s) >= 1 /\ Len(Tail(s)) = Len(s) - 1
         /\ DOMAIN s = 1..Len(s) /\ DOMAIN Tail(s) = 1..(Len(s) - 1)
         /\ \A i \in 1..(Len(s) - 1) : Tail(s)[i] = s[i + 1]
<1>1. Len(s) \in Nat /\ Len(s) >= 1
  BY EmptySeq, LenProperties
<1> QED
  BY <1>1, HeadTailProperties, LenProperties

\* What is counted of an interval: a part has no more elements, nor has a part with one
\* more element more than one more.
LEMMA CountParts ==
  ASSUME NEW a \in Int, NEW b \in Int, NEW M \in SUBSET (a..b), NEW N, NEW x
  PROVE  /\ Cardinality(M) \in Nat
         /\ N \subseteq M => Cardinality(N) \in Nat /\ Cardinality(N) <= Cardinality(M)
         /\ N \subseteq M \cup {x} => Cardinality(N) \in Nat /\ Cardinality(N) <= Cardinality(M) + 1
<1>1. IsFiniteSet(M)
  BY FS_Interval, FS_Subset
<1>2. Cardinality(M) \in Nat
  BY <1>1, FS_CardinalityType
<1>3. ASSUME NEW P, IsFiniteSet(P), N \subseteq P
      PROVE  Cardinality(N) \in Nat /\ Cardinality(N) <= Cardinality(P)
  BY <1>3, FS_Subset, FS_CardinalityType
<1>4. IsFiniteSet(M \cup {x}) /\ Cardinality(M \cup {x}) \in Nat /\ Cardinality(M \cup {x}) <= Cardinality(M) + 1
  BY <1>1, <1>2, FS_AddElement
<1>5. N \subseteq M => Cardinality(N) \in Nat /\ Cardinality(N) <= Cardinality(M)
  BY <1>1, <1>3
<1>6. N \subseteq M \cup {x} => Cardinality(N) \in Nat /\ Cardinality(N) <= Cardinality(M \cup {x})
  BY <1>3, <1>4
<1> QED
  BY <1>2, <1>4, <1>5, <1>6
\* A set with no more elements than another.
LEMMA Fewer ==
  ASSUME NEW m \in Nat, NEW P \in SUBSET (1..m), NEW Q, \A x \in Q : x \in P
  PROVE  Cardinality(Q) <= Cardinality(P) /\ Cardinality(P) \in Nat /\ Cardinality(Q) \in Nat
<1>1. IsFiniteSet(1..m)
  BY FS_Interval
<1>2. IsFiniteSet(P)
  BY <1>1, FS_Subset
<1> QED
  BY <1>2, FS_Subset, FS_CardinalityType
\* A set of numbers that has 0, and with a number the next one, has all of them.
LEMMA AllNumbers ==
  ASSUME NEW S, 0 \in S, \A n \in Nat : n \in S => n + 1 \in S
  PROVE  Nat \subseteq S
<1> DEFINE R == OpToRel(<, Nat)
<1>1. IsWellFoundedOn(R, Nat)
  BY NatLessThanWellFounded
<1>2. \A x, y : <<x, y>> \in R <=> x \in Nat /\ y \in Nat /\ x < y
  BY Zenon DEF OpToRel
<1> SUFFICES ASSUME Nat \ S # {} PROVE FALSE
  OBVIOUS
<1> HIDE DEF R
<1>3. PICK x \in Nat \ S : \A y \in Nat \ S : ~(<<y, x>> \in R)
  BY <1>1, WFMin
<1>4. x # 0 /\ x - 1 \in Nat /\ x - 1 < x /\ (x - 1) + 1 = x
  BY <1>3
<1>5. x - 1 \notin Nat \ S
  BY <1>2, <1>3, <1>4
<1> QED
  BY <1>3, <1>4, <1>5

-----------------------------------------------------------------------------
(* The task service.                                                       *)

Running == {t \in Task : state[t] = "running"}

\* finalize() takes the main task first, and for good; what runs then is what it has
\* still to cancel or waits for.
FinalizeInv ==
  /\ fin # "no" => ~mainRef /\ main \in {"exited", "none"}
  /\ fin = "cancelling" => Running \subseteq finLeft \cup {finAt}
  /\ fin = "done" => Running = {}
  /\ fin # "cancelling" => finAt = NoTask

\* What is still held or queued has not been reported, and the queue holds only
\* what was never started.
ReportInv ==
  /\ \A t \in pending : reports[t] = 0
  /\ \A t \in new : state[t] = "new"

\* The inductive strengthening of RunningHeld, ReportedOnce and FinalizedIsFinal.
TaskInv == RunningHeld /\ ReportedOnce /\ FinalizeInv /\ ReportInv

LEMMA TaskInit == Init => TypeOK /\ TaskInv
  BY TaskAssumption DEF Init, TypeOK, TaskInv, RunningHeld, ReportedOnce, FinalizeInv,
     ReportInv, Running, Finished

-----------------------------------------------------------------------------
(* Type correctness.                                                       *)

LEMMA CollectType ==
  ASSUME TypeOK, NEW kept \in SUBSET Task, Collect(kept, state)
  PROVE  /\ new' \subseteq Task /\ pending' \subseteq Task
         /\ state' \in [Task -> {"unborn", "new", "running"} \cup Finished]
         /\ main' \in {"get", "wait"}
  BY DEF TypeOK, Collect

\* What is done is reported once more, or not at all.
LEMMA ReportsType ==
  ASSUME TypeOK, NEW who \in SUBSET Task,
         reports' = [t \in Task |-> IF t \in who THEN reports[t] + 1 ELSE reports[t]]
  PROVE  reports' \in [Task -> Nat]
  BY DEF TypeOK

LEMMA TypeStep == TypeOK /\ [Next]_vars => TypeOK'
<1> SUFFICES ASSUME TypeOK, [Next]_vars PROVE TypeOK'
  OBVIOUS
<1> USE DEF TypeOK, finVars
<1>1. ASSUME NEW t \in Task, Schedule(t) PROVE TypeOK'
  BY <1>1 DEF Schedule
<1>2. ASSUME NEW t \in Task, EndByItself(t) \/ EndCancelled(t) PROVE TypeOK'
  BY <1>2 DEF EndByItself, EndCancelled, End, Finished
<1>3. ASSUME Begin \/ Get PROVE TypeOK'
  BY <1>3, CollectType DEF Begin, Get
<1>4. ASSUME Reap PROVE TypeOK'
  <2>1. Done \subseteq Task /\ pending \ Done \subseteq Task
    BY DEF Done
  <2>2. reports' \in [Task -> Nat]
    BY <1>4, <2>1, ReportsType DEF Reap
  <2> QED
    BY <1>4, <2>1, <2>2, CollectType DEF Reap
<1>5. ASSUME ReapCancelled PROVE TypeOK'
  <2>1. PICK before \in SUBSET {t \in Done : state[t] # "cancelled"} :
          reports' = [t \in Task |-> IF t \in before THEN reports[t] + 1 ELSE reports[t]]
    BY <1>5 DEF ReapCancelled
  <2>2. reports' \in [Task -> Nat]
    BY <2>1, ReportsType DEF Done
  <2> QED
    BY <1>5, <2>2 DEF ReapCancelled
<1>6. ASSUME MainTaskExited PROVE TypeOK'
  BY <1>6 DEF MainTaskExited
<1>7. ASSUME Finalize PROVE TypeOK'
  BY <1>7 DEF Finalize, FinalizeMain, FinalizeCancel, FinalizeAwait, FinalizeDone
<1>8. CASE UNCHANGED vars
  BY <1>8 DEF vars
<1> QED
  BY <1>1, <1>2, <1>3, <1>4, <1>5, <1>6, <1>7, <1>8 DEF Next, Main

-----------------------------------------------------------------------------
(* The invariant.                                                          *)

\* To start what is queued, forgetting of the held tasks only what is done, keeps the
\* invariant: the one case in which tasks begin to run.
LEMMA CollectInv ==
  ASSUME TypeOK, TaskInv,
         NEW kept \in SUBSET pending, pending \ Done \subseteq kept,
         main \notin {"exited", "none"},
         NEW who \in SUBSET Done, who \cap kept = {},
         Collect(kept, state),
         reports' = [t \in Task |-> IF t \in who THEN reports[t] + 1 ELSE reports[t]],
         UNCHANGED <<mainRef, finVars>>
  PROVE  TaskInv'
<1> USE DEF TypeOK, finVars, TaskInv, Collect
<1>1. fin = "no"
  BY DEF FinalizeInv
<1>2. FinalizeInv'
  BY <1>1 DEF FinalizeInv
<1>3. RunningHeld'
  BY DEF RunningHeld, Done, Finished
<1>4. ReportedOnce'
  <2> SUFFICES ASSUME NEW t \in Task
               PROVE  reports'[t] <= IF state'[t] \in Finished THEN 1 ELSE 0
    BY DEF ReportedOnce
  <2>1. CASE t \in who
    BY <2>1 DEF ReportInv, Done, Finished
  <2>2. CASE t \notin who
    BY <2>2 DEF ReportInv, ReportedOnce, Finished
  <2> QED
    BY <2>1, <2>2
<1>5. ReportInv'
  <2>1. ASSUME NEW t \in pending' PROVE reports'[t] = 0
    BY <2>1 DEF ReportInv, ReportedOnce, Done, Finished
  <2> QED
    BY <2>1 DEF ReportInv
<1> QED
  BY <1>2, <1>3, <1>4, <1>5

\* A task begins to count as queued or as ended: nothing else changes.
LEMMA StateInv ==
  ASSUME TypeOK, TaskInv, NEW t \in Task, Schedule(t) \/ EndByItself(t) \/ EndCancelled(t)
  PROVE  TaskInv'
<1> USE DEF TypeOK, finVars, TaskInv, Schedule, EndByItself, EndCancelled, End, Finished
<1>1. RunningHeld'
  BY DEF RunningHeld
<1>2. ReportedOnce'
  BY DEF ReportedOnce
<1>3. FinalizeInv'
  BY DEF FinalizeInv, Running
<1>4. ReportInv'
  BY DEF ReportInv
<1> QED
  BY <1>1, <1>2, <1>3, <1>4

LEMMA FinalizeStep ==
  ASSUME TypeOK, TaskInv, Finalize
  PROVE  TaskInv'
<1> USE TaskAssumption DEF TypeOK, finVars, TaskInv, Finalize, FinalizeMain, FinalizeCancel,
        FinalizeAwait, FinalizeDone
<1>1. RunningHeld'
  BY DEF RunningHeld, Finished
<1>2. ReportedOnce'
  BY DEF ReportedOnce
<1>3. FinalizeInv'
  <2>1. CASE FinalizeMain
    BY <2>1 DEF FinalizeInv, Running, RunningHeld
  <2>2. CASE FinalizeCancel
    BY <2>2 DEF FinalizeInv, Running
  <2>3. CASE FinalizeAwait
    BY <2>3 DEF FinalizeInv, Running, Finished
  <2>4. CASE FinalizeDone
    <3>1. NoTask \notin Running
      BY DEF Running
    <3> QED
      BY <2>4, <3>1 DEF FinalizeInv, Running
  <2> QED
    BY <2>1, <2>2, <2>3, <2>4
<1>4. ReportInv'
  BY DEF ReportInv
<1> QED
  BY <1>1, <1>2, <1>3, <1>4

LEMMA TaskStep == TypeOK /\ TaskInv /\ [Next]_vars => TaskInv'
<1> SUFFICES ASSUME TypeOK, TaskInv, [Next]_vars PROVE TaskInv'
  OBVIOUS
<1>1. ASSUME NEW t \in Task, Schedule(t) \/ EndByItself(t) \/ EndCancelled(t) PROVE TaskInv'
  BY <1>1, StateInv
<1>2. ASSUME Begin \/ Get PROVE TaskInv'
  <2>1. reports' = [t \in Task |-> IF t \in {} THEN reports[t] + 1 ELSE reports[t]]
    BY <1>2 DEF Begin, Get, TypeOK
  <2>2. /\ Collect(pending, state) /\ UNCHANGED <<mainRef, finVars>>
        /\ main \notin {"exited", "none"}
    BY <1>2 DEF Begin, Get
  <2> DEFINE who == {}
  <2>3. /\ pending \ Done \subseteq pending /\ pending \in SUBSET pending
        /\ who \in SUBSET Done /\ who \cap pending = {}
    OBVIOUS
  <2>4. reports' = [t \in Task |-> IF t \in who THEN reports[t] + 1 ELSE reports[t]]
    BY <2>1
  <2> HIDE DEF who
  <2> QED
    BY <2>2, <2>3, <2>4, CollectInv
<1>3. ASSUME Reap PROVE TaskInv'
  <2>1. /\ Collect(pending \ Done, state) /\ UNCHANGED <<mainRef, finVars>>
        /\ main \notin {"exited", "none"}
        /\ reports' = [t \in Task |-> IF t \in Done THEN reports[t] + 1 ELSE reports[t]]
    BY <1>3 DEF Reap
  <2> QED
    BY <2>1, CollectInv
<1>4. ASSUME ReapCancelled PROVE TaskInv'
  <2> USE <1>4 DEF TypeOK, finVars, TaskInv, ReapCancelled
  <2>1. PICK before \in SUBSET {t \in Done : state[t] # "cancelled"} :
          reports' = [t \in Task |-> IF t \in before THEN reports[t] + 1 ELSE reports[t]]
    OBVIOUS
  <2>2. RunningHeld'
    BY DEF RunningHeld, Done, Finished
  <2>3. ReportedOnce'
    BY <2>1 DEF ReportedOnce, ReportInv, Done
  <2>4. FinalizeInv'
    BY DEF FinalizeInv
  <2>5. ReportInv'
    BY <2>1 DEF ReportInv
  <2> QED
    BY <2>2, <2>3, <2>4, <2>5
<1>5. ASSUME MainTaskExited PROVE TaskInv'
  BY <1>5 DEF MainTaskExited, TypeOK, finVars, TaskInv, RunningHeld, ReportedOnce, FinalizeInv,
     ReportInv, Running
<1>6. ASSUME Finalize PROVE TaskInv'
  BY <1>6, FinalizeStep
<1>7. CASE UNCHANGED vars
  BY <1>7 DEF vars, finVars, TaskInv, RunningHeld, ReportedOnce, FinalizeInv, ReportInv, Running
<1> QED
  BY <1>1, <1>2, <1>3, <1>4, <1>5, <1>6, <1>7 DEF Next, Main

------------------------------------------------------------------
-----------------------------------------------------------------------------
(* The timer.                                                              *)

TimerInv == Timers!TypeOK /\ Timers!OneArmed

LEMMA TimerStep == TimerInv /\ [Timers!Next]_timerVars => TimerInv'
<1> SUFFICES ASSUME TimerInv, [Timers!Next]_timerVars PROVE TimerInv'
  OBVIOUS
<1> USE TimerAssumption DEF TimerInv, Timers!TypeOK, Timers!OneArmed
<1>1. ASSUME NEW j \in Job, Timers!Start(j) PROVE TimerInv'
  BY <1>1 DEF Timers!Start, Timers!StartIn, Timers!Called
<1>2. ASSUME NEW j \in Job, Timers!Restart(j) PROVE TimerInv'
  BY <1>2 DEF Timers!Restart, Timers!StartIn, Timers!Called, Timers!Stopped
<1>3. ASSUME NEW j \in Job, Timers!Wake(j) PROVE TimerInv'
  BY <1>3 DEF Timers!Wake, Timers!StartIn
<1>4. ASSUME NEW j \in Job, Timers!JobEnds(j) PROVE TimerInv'
  BY <1>4 DEF Timers!JobEnds
<1>5. ASSUME Timers!Stop PROVE TimerInv'
  <2>1. /\ calls < MaxCalls /\ calls' = calls + 1 /\ wanted' \in BOOLEAN
        /\ timerTask' = NoJob /\ job' = Timers!Stopped /\ UNCHANGED <<autoRestart, ticks>>
    BY <1>5 DEF Timers!Stop, Timers!Called
  <2> QED
    BY <2>1 DEF Timers!Stopped
<1>6. CASE UNCHANGED timerVars
  BY <1>6 DEF timerVars
<1> QED
  BY <1>1, <1>2, <1>3, <1>4, <1>5, <1>6 DEF Timers!Next


-----------------------------------------------------------------------------
(* Log records, on their way to syslog.                                    *)

EmitterRecord == [thread : Thread, record : Nat, ready : BOOLEAN]

LogFlags ==
  /\ syslog \in {"unconnected", "connected", "ready", "failed"}
  /\ writeReady \in BOOLEAN /\ draining \in BOOLEAN /\ spoilt \in BOOLEAN

LogData ==
  /\ records \in Seq(Nat) /\ sent \in Seq(Nat) /\ printed \subseteq Nat
  /\ emitter \in Seq(EmitterRecord) /\ Len(emitter) <= 1
  /\ logged \in Nat /\ sendErrors \in Nat

LogType == LogFlags /\ LogData

InEmit == {emitter[i].record : i \in DOMAIN emitter}

KeptInv ==
  /\ Logging!RecordsKept
  /\ Len(records) + Len(sent) + Len(emitter) <= logged
  /\ \A i \in DOMAIN emitter : emitter[i].record = logged

OrderInv ==
  spoilt \/ 
  /\ \A i, j \in DOMAIN sent : i < j => sent[i] < sent[j]
  /\ \A i, j \in DOMAIN records : i < j => records[i] < records[j]
  /\ \A i \in DOMAIN sent, j \in DOMAIN records : sent[i] < records[j]
  /\ \A i \in DOMAIN sent : sent[i] + Len(emitter) <= logged
  /\ \A j \in DOMAIN records : records[j] + Len(emitter) <= logged
  /\ writeReady /\ ~draining => records = <<>>
  /\ \A i \in DOMAIN emitter : emitter[i].ready => writeReady

LogInv == LogType /\ KeptInv /\ OrderInv

LEMMA SetAppend ==
  ASSUME NEW S, NEW s \in Seq(S), NEW e \in S
  PROVE  Logging!Range(Append(s, e)) = Logging!Range(s) \cup {e}
  BY AppendFacts DEF Logging!Range

LEMMA SetTail ==
  ASSUME NEW S, NEW s \in Seq(S), s # <<>>
  PROVE  Logging!Range(s) = {Head(s)} \cup Logging!Range(Tail(s))
<1>1. ASSUME NEW i \in 1..Len(s) PROVE s[i] \in {Head(s)} \cup Logging!Range(Tail(s))
  <2>1. CASE i = 1
    BY <2>1, TailFacts
  <2>2. CASE i # 1
    <3>1. i - 1 \in 1..(Len(s) - 1) /\ s[i] = Tail(s)[i - 1]
      BY <2>2, TailFacts
    <3> QED
      BY <3>1, TailFacts DEF Logging!Range
  <2> QED
    BY <2>1, <2>2
<1>2. ASSUME NEW i \in 1..(Len(s) - 1) PROVE Tail(s)[i] \in Logging!Range(s)
  BY TailFacts DEF Logging!Range
<1>3. Head(s) \in Logging!Range(s)
  BY TailFacts DEF Logging!Range
<1> QED
  BY <1>1, <1>2, <1>3, TailFacts DEF Logging!Range

LEMMA LogTypeStep == LogType /\ [Logging!Next]_logVars => LogType'
<1> SUFFICES ASSUME LogFlags, LogData, [Logging!Next]_logVars PROVE LogFlags' /\ LogData'
  BY DEF LogType
<1>1. LogFlags'
  BY DEF LogFlags, Logging!Next, Logging!LoopStep, Logging!Connect, Logging!OnWrite,
     Logging!Drain, Logging!Drained, Logging!EmitBegin, Logging!EmitEnd, Logging!Sent,
     Logging!SendFails, logVars
<1> USE DEF LogData
<1>2. CASE Logging!Connect \/ Logging!OnWrite \/ Logging!Drained \/ UNCHANGED logVars
  BY <1>1, <1>2 DEF Logging!Connect, Logging!OnWrite, Logging!Drained, logVars
<1>3. ASSUME Logging!Drain PROVE LogData'
  <2>1. Head(records) \in Nat /\ Tail(records) \in Seq(Nat)
    BY <1>3, TailFacts DEF Logging!Drain
  <2>2. Append(sent, Head(records)) \in Seq(Nat)
    BY <2>1, AppendFacts
  <2>3. /\ records' = Tail(records) /\ UNCHANGED <<emitter, logged>>
        /\ sent' \in {sent, Append(sent, Head(records))}
        /\ sendErrors' \in {sendErrors, sendErrors + 1}
        /\ printed' \in {printed, printed \cup {Head(records)}}
    BY <1>3 DEF Logging!Drain, Logging!Sent, Logging!SendFails
  <2>4. records' \in Seq(Nat)
    BY <2>1, <2>3
  <2>5. sent' \in Seq(Nat)
    BY <2>2, <2>3
  <2>6. printed' \subseteq Nat
    BY <2>1, <2>3
  <2>7. emitter' \in Seq(EmitterRecord) /\ Len(emitter') <= 1
    BY <2>3
  <2>8. logged' \in Nat
    BY <2>3
  <2>9. sendErrors' \in Nat
    BY <2>3
  <2> QED
    BY <2>4, <2>5, <2>6, <2>7, <2>8, <2>9
<1>4. ASSUME NEW t \in Thread, Logging!EmitBegin(t) PROVE LogData'
  <2>1. /\ logged' = logged + 1
        /\ emitter' = <<[thread |-> t, record |-> logged', ready |-> writeReady]>>
        /\ UNCHANGED <<records, sent, printed, sendErrors>>
    BY <1>4 DEF Logging!EmitBegin
  <2>2. [thread |-> t, record |-> logged', ready |-> writeReady] \in EmitterRecord
    BY <2>1 DEF EmitterRecord, LogFlags
  <2>3. emitter' \in Seq(EmitterRecord) /\ Len(emitter') = 1
    BY <2>1, <2>2
  <2> QED
    BY <2>1, <2>3
<1>5. ASSUME Logging!EmitEnd PROVE LogData'
  <2> DEFINE r == Head(emitter).record
  <2>1. emitter # <<>> /\ Head(emitter) \in EmitterRecord
    BY <1>5, TailFacts DEF Logging!EmitEnd
  <2>2. Append(records, r) \in Seq(Nat) /\ Append(sent, r) \in Seq(Nat)
    BY <2>1, AppendFacts DEF EmitterRecord
  <2>3. /\ records' \in {records, Append(records, r)}
        /\ sent' \in {sent, Append(sent, r)}
        /\ sendErrors' \in {sendErrors, sendErrors + 1}
        /\ emitter' = <<>> /\ UNCHANGED <<logged, printed>>
    BY <1>5 DEF Logging!EmitEnd, Logging!SendFails
  <2>4. records' \in Seq(Nat)
    BY <2>2, <2>3
  <2>5. sent' \in Seq(Nat)
    BY <2>2, <2>3
  <2>6. sendErrors' \in Nat
    BY <2>3
  <2>7. emitter' \in Seq(EmitterRecord) /\ Len(emitter') <= 1
    BY <2>3
  <2> QED
    BY <2>3, <2>4, <2>5, <2>6, <2>7
<1> QED
  BY <1>1, <1>2, <1>3, <1>4, <1>5 DEF Logging!Next, Logging!LoopStep

\* What is with its thread, when there is a thread and when there is none.
LEMMA EmitterFacts ==
  ASSUME LogType
  PROVE  /\ emitter = <<>> => InEmit = {} /\ Len(emitter) = 0
         /\ emitter # <<>> => InEmit = {Head(emitter).record} /\ Len(emitter) = 1 /\ Head(emitter) = emitter[1]
                              /\ DOMAIN emitter = {1} /\ Head(emitter).record \in Nat
<1>1. CASE emitter = <<>>
  BY <1>1 DEF InEmit
<1>2. CASE emitter # <<>>
  <2>0. emitter \in Seq(EmitterRecord) /\ Len(emitter) <= 1
    BY DEF LogType, LogData
  <2>1. /\ Len(emitter) \in Nat /\ Len(emitter) >= 1 /\ Head(emitter) = emitter[1]
        /\ DOMAIN emitter = 1..Len(emitter) /\ Head(emitter) \in EmitterRecord
    BY <1>2, <2>0, TailFacts
  <2>2. Len(emitter) = 1 /\ DOMAIN emitter = {1}
    BY <2>0, <2>1
  <2> QED
    BY <1>2, <2>1, <2>2 DEF InEmit, EmitterRecord
<1> QED
  BY <1>1, <1>2

LEMMA KeptStep == LogType /\ LogType' /\ KeptInv /\ [Logging!Next]_logVars => KeptInv'
<1> SUFFICES ASSUME LogType, LogType', KeptInv, [Logging!Next]_logVars PROVE KeptInv'
  OBVIOUS
<1> DEFINE all == Logging!Range(records) \cup Logging!Range(sent) \cup printed \cup InEmit
<1>0. all = 1..logged /\ Len(records) \in Nat /\ Len(sent) \in Nat /\ Len(emitter) \in Nat
  BY LenProperties DEF KeptInv, Logging!RecordsKept, LogType, LogData, InEmit
<1>e. /\ Len(records') \in Nat /\ Len(sent') \in Nat /\ Len(emitter') \in Nat
      /\ (/\ all' = 1..logged' 
          /\ Len(records') + Len(sent') + Len(emitter') <= logged' 
          /\ \A i \in DOMAIN emitter' : emitter'[i].record = logged') => KeptInv'
  BY LenProperties DEF KeptInv, Logging!RecordsKept, LogType, LogData, InEmit
<1> HIDE DEF all
<1> USE DEF all
<1>1. CASE Logging!Connect \/ Logging!OnWrite \/ Logging!Drained \/ UNCHANGED logVars
  <2>1. UNCHANGED <<records, sent, printed, emitter, logged>>
    BY <1>1 DEF Logging!Connect, Logging!OnWrite, Logging!Drained, logVars
  <2> QED
    BY <2>1 DEF KeptInv, Logging!RecordsKept
<1>2. CASE Logging!Drain
  <2>1. /\ records # <<>> /\ records' = Tail(records) /\ UNCHANGED <<emitter, logged>>
        /\ \/ sent' = Append(sent, Head(records)) /\ UNCHANGED printed
           \/ printed' = printed \cup {Head(records)} /\ UNCHANGED sent
    BY <1>2 DEF Logging!Drain, Logging!Sent, Logging!SendFails
  <2>2. Len(records') = Len(records) - 1 /\ Logging!Range(records) = {Head(records)} \cup Logging!Range(records')
        /\ Head(records) \in Nat
    BY <2>1, TailFacts, SetTail DEF LogType, LogData
  <2>3. CASE sent' = Append(sent, Head(records)) /\ UNCHANGED printed
    <3>1. Len(sent') = Len(sent) + 1 /\ Logging!Range(sent') = Logging!Range(sent) \cup {Head(records)}
      BY <2>2, <2>3, AppendFacts, SetAppend DEF LogType, LogData
    <3>2. all' = all
      BY <2>1, <2>2, <2>3, <3>1 DEF InEmit
    <3> QED
      BY <1>0, <1>e, <2>1, <2>2, <3>1, <3>2 DEF KeptInv
  <2>4. CASE printed' = printed \cup {Head(records)} /\ UNCHANGED sent
    <3>1. all' = all
      BY <2>1, <2>2, <2>4 DEF InEmit
    <3> QED
      BY <1>0, <1>e, <2>1, <2>2, <2>4, <3>1 DEF KeptInv, LogType, LogData
  <2> QED
    BY <2>1, <2>3, <2>4
<1>3. ASSUME NEW t \in Thread, Logging!EmitBegin(t) PROVE KeptInv'
  <2>1. /\ emitter = <<>> /\ logged' = logged + 1 /\ emitter' = <<[thread |-> t, record |-> logged', ready |-> writeReady]>>
        /\ UNCHANGED <<records, sent, printed>>
    BY <1>3 DEF Logging!EmitBegin
  <2>2. InEmit = {} /\ Len(emitter) = 0 /\ InEmit' = {logged'} /\ Len(emitter') = 1
        /\ \A i \in DOMAIN emitter' : emitter'[i].record = logged'
    BY <2>1, EmitterFacts DEF InEmit
  <2>3. logged \in Nat
    BY DEF LogType, LogData
  <2>4. 1..(logged + 1) = (1..logged) \cup {logged + 1}
    BY <2>3
  <2> QED
    BY <1>0, <1>e, <2>1, <2>2, <2>3, <2>4 DEF KeptInv
<1>4. CASE Logging!EmitEnd
  <2> DEFINE r == Head(emitter).record
  <2>1. /\ emitter # <<>> /\ emitter' = <<>> /\ UNCHANGED <<logged, printed>>
        /\ \/ sent' = Append(sent, r) /\ UNCHANGED records
           \/ records' = Append(records, r) /\ UNCHANGED sent
    BY <1>4 DEF Logging!EmitEnd, Logging!SendFails
  <2>2. InEmit = {r} /\ Len(emitter) = 1 /\ InEmit' = {} /\ Len(emitter') = 0 /\ r \in Nat
        /\ \A i \in DOMAIN emitter' : emitter'[i].record = logged'
    BY <2>1, EmitterFacts DEF InEmit
  <2> HIDE DEF r
  <2>5. records \in Seq(Nat) /\ sent \in Seq(Nat)
    BY DEF LogType, LogData
  <2>3. CASE sent' = Append(sent, r) /\ UNCHANGED records
    <3>1. Len(sent') = Len(sent) + 1 /\ Logging!Range(sent') = Logging!Range(sent) \cup {r}
      <4>1. r \in Nat
        BY <2>2
      <4>2. Logging!Range(Append(sent, r)) = Logging!Range(sent) \cup {r}
        BY <4>1, <2>5, SetAppend
      <4>3. Len(Append(sent, r)) = Len(sent) + 1
        BY <4>1, <2>5, AppendFacts
      <4> QED
        BY <4>2, <4>3, <2>3
    <3>2. all' = all
      BY <2>1, <2>2, <2>3, <3>1
    <3> QED
      BY <1>0, <1>e, <2>1, <2>2, <2>3, <3>1, <3>2 DEF KeptInv, LogType, LogData
  <2>4. CASE records' = Append(records, r) /\ UNCHANGED sent
    <3>1. Len(records') = Len(records) + 1 /\ Logging!Range(records') = Logging!Range(records) \cup {r}
      BY <2>2, <2>4, <2>5, AppendFacts, SetAppend
    <3>2. all' = all
      BY <2>1, <2>2, <2>4, <3>1
    <3> QED
      BY <1>0, <1>e, <2>1, <2>2, <2>4, <3>1, <3>2 DEF KeptInv, LogType, LogData
  <2> QED
    BY <2>1, <2>3, <2>4
<1> QED
  BY <1>1, <1>2, <1>3, <1>4 DEF Logging!Next, Logging!LoopStep

LEMMA OrderStep == LogType /\ LogType' /\ KeptInv /\ OrderInv /\ [Logging!Next]_logVars => OrderInv'
<1> SUFFICES ASSUME LogFlags, LogData, LogFlags', LogData', KeptInv, OrderInv, [Logging!Next]_logVars, ~spoilt' PROVE OrderInv'
  BY DEF LogType, OrderInv
<1>0. ~spoilt
  BY DEF LogFlags, Logging!Next, Logging!LoopStep, Logging!Connect, Logging!OnWrite,
     Logging!Drain, Logging!Drained, Logging!EmitBegin, Logging!EmitEnd, Logging!Sent,
     Logging!SendFails, logVars
<1> USE <1>0 DEF OrderInv
<1>1. CASE Logging!Connect \/ Logging!Drained \/ UNCHANGED logVars
  <2>1. UNCHANGED <<records, sent, emitter, logged, writeReady>> /\ (records = <<>> \/ UNCHANGED draining)
    BY <1>1 DEF Logging!Connect, Logging!Drained, logVars
  <2> QED
    BY <2>1
<1>2. CASE Logging!OnWrite
  BY <1>2 DEF Logging!OnWrite
<1>3. CASE Logging!Drain
  <2>1. /\ draining /\ records # <<>> /\ records' = Tail(records)
        /\ UNCHANGED <<draining, emitter, logged, writeReady>>
        /\ sent' = Append(sent, Head(records))
    BY <1>3 DEF Logging!Drain, Logging!Sent, Logging!SendFails
  <2>2. /\ DOMAIN records = 1..Len(records) /\ DOMAIN records' = 1..(Len(records) - 1) /\ Len(records) \in Nat /\ Len(records) >= 1
        /\ Head(records) = records[1] /\ Head(records) \in Nat
        /\ \A i \in 1..(Len(records) - 1) : records'[i] = records[i + 1]
    BY <2>1, TailFacts DEF LogData
  <2>3. /\ DOMAIN sent = 1..Len(sent) /\ DOMAIN sent' = 1..(Len(sent) + 1) /\ Len(sent) \in Nat
        /\ \A i \in 1..Len(sent) : sent'[i] = sent[i]
        /\ sent'[Len(sent) + 1] = records[1]
    BY <2>1, <2>2, AppendFacts DEF LogData
  <2>4. \A i, j \in DOMAIN sent' : i < j => sent'[i] < sent'[j]
    BY <2>2, <2>3
  <2>5. ASSUME NEW j \in DOMAIN records'
        PROVE  /\ j + 1 \in DOMAIN records /\ records'[j] = records[j + 1]
               /\ \A i \in DOMAIN records' : i < j => records'[i] < records'[j]
               /\ \A i \in DOMAIN sent' : sent'[i] < records'[j]
    <3>1. j + 1 \in DOMAIN records /\ 1 \in DOMAIN records /\ records'[j] = records[j + 1]
      BY <2>2
    <3>2. ASSUME NEW i \in DOMAIN records', i < j PROVE records'[i] < records'[j]
      <4>1. i + 1 \in DOMAIN records /\ i + 1 < j + 1 /\ records'[i] = records[i + 1]
        BY <2>2, <3>2
      <4> QED
        BY <3>1, <4>1
    <3>3. ASSUME NEW i \in DOMAIN sent' PROVE sent'[i] < records'[j]
      BY <2>3, <3>1
    <3> QED
      BY <3>1, <3>2, <3>3
  <2> QED
    BY <2>1, <2>2, <2>3, <2>4, <2>5
<1>4. ASSUME NEW t \in Thread, Logging!EmitBegin(t) PROVE OrderInv'
  <2>1. /\ emitter = <<>> /\ logged' = logged + 1
        /\ emitter' = <<[thread |-> t, record |-> logged', ready |-> writeReady]>>
        /\ UNCHANGED <<records, sent, draining, writeReady>>
    BY <1>4 DEF Logging!EmitBegin
  <2>2. Len(emitter) = 0 /\ Len(emitter') = 1 /\ \A i \in DOMAIN emitter' : emitter'[i].ready => writeReady'
    BY <2>1
  <2>3. /\ \A i \in DOMAIN sent : sent[i] \in Nat
        /\ \A i \in DOMAIN records : records[i] \in Nat
        /\ logged \in Nat
    BY LenProperties DEF LogData
  <2> QED
    BY <2>1, <2>2, <2>3
<1>5. CASE Logging!EmitEnd
  <2> DEFINE r == Head(emitter).record
  <2>1. emitter # <<>> /\ emitter' = <<>> /\ UNCHANGED <<logged, writeReady, draining>>
    BY <1>5 DEF Logging!EmitEnd
  <2>2. Len(emitter) = 1 /\ DOMAIN emitter = {1} /\ Head(emitter) = emitter[1] /\ r \in Nat
    BY <2>1, EmitterFacts DEF LogType
  <2>3. r = logged /\ (Head(emitter).ready => writeReady) /\ Len(emitter') = 0 /\ DOMAIN emitter' = {}
    BY <2>1, <2>2 DEF KeptInv
  <2>4. \/ /\ Head(emitter).ready /\ ~draining /\ sent' = Append(sent, r) /\ UNCHANGED records
        \/ /\ ~writeReady \/ draining 
           /\ records' = Append(records, r) /\ UNCHANGED sent
    BY <1>5 DEF Logging!EmitEnd, Logging!SendFails
  <2>5. /\ DOMAIN sent = 1..Len(sent) /\ Len(sent) \in Nat
        /\ DOMAIN records = 1..Len(records) /\ Len(records) \in Nat
        /\ \A i \in DOMAIN sent : sent[i] \in Nat
        /\ \A i \in DOMAIN records : records[i] \in Nat
        /\ logged \in Nat
    BY LenProperties DEF LogData
  <2>a. /\ \A i \in DOMAIN sent : sent[i] + 1 <= logged
        /\ \A i \in DOMAIN records : records[i] + 1 <= logged
    BY <2>2
  <2> HIDE DEF r
  <2>6. CASE Head(emitter).ready /\ ~draining /\ sent' = Append(sent, r) /\ UNCHANGED records
    <3>1. /\ DOMAIN sent' = 1..(Len(sent) + 1) 
          /\ \A i \in 1..Len(sent) : sent'[i] = sent[i]
          /\ sent'[Len(sent) + 1] = r
      BY <2>2, <2>6, AppendFacts DEF LogData
    <3>2. records = <<>> /\ DOMAIN records = {}
      BY <2>3, <2>6
    <3> QED
      BY <2>1, <2>3, <2>5, <2>6, <2>a, <3>1, <3>2
  <2>7. CASE (~writeReady \/ draining) /\ records' = Append(records, r) /\ UNCHANGED sent
    <3>1. /\ DOMAIN records' = 1..(Len(records) + 1) 
          /\ \A i \in 1..Len(records) : records'[i] = records[i]
          /\ records'[Len(records) + 1] = r
      BY <2>2, <2>7, AppendFacts DEF LogData
    <3> QED
      BY <2>1, <2>3, <2>5, <2>7, <2>a, <3>1
  <2> QED
    BY <2>4, <2>6, <2>7
<1> QED
  BY <1>1, <1>2, <1>3, <1>4, <1>5 DEF Logging!Next, Logging!LoopStep

-----------------------------------------------------------------------------
(* Streams of log records.                                                 *)

StreamState == [at : {"new", "history", "joining", "live", "closed", "ended"}, next : Nat \ {0},
                got : SUBSET Nat, since : Nat, overtaken : Nat]
Sender == [record : Nat, of : SUBSET Stream, visited : SUBSET Stream]

StreamType ==
  /\ buffer \in Seq(Nat) /\ streamed \in Nat
  /\ stream \in [Stream -> StreamState]
  /\ senders \subseteq Sender
  /\ unsent \subseteq Nat

\* The record at the first place of the buffer.
First == streamed - Len(buffer) + 1

BufferInv ==
  /\ Len(buffer) <= streamed /\ Len(buffer) <= Room
  /\ \A i \in 1..Len(buffer) : buffer[i] = streamed - Len(buffer) + i

SocketInv ==
  /\ webSockets = {s \in Stream : stream[s].at \in {"live", "closed"}}
  /\ \A d \in senders : d.of = {} => d.visited = {}

\* The records that tasks have still to send to a stream.
Coming(s) ==
  {d.record : d \in {e \in senders : e.of = {} \/ s \in (e.of \cap webSockets) \ e.visited}}

HistoryLost(s) == (stream[s].since .. (First + stream[s].next - 2)) \ stream[s].got
JoinLost(s) == (stream[s].since .. streamed) \ stream[s].got
LiveLost(s) == (stream[s].since .. streamed) \ (stream[s].got \cup unsent \cup Coming(s))

Within(s) ==
  /\ stream[s].at = "new" => stream[s].next = 1
  /\ stream[s].at = "history" =>
       stream[s].next <= Len(buffer) + 1 /\ Cardinality(HistoryLost(s)) <= stream[s].overtaken
  /\ stream[s].at = "joining" => Cardinality(JoinLost(s)) <= stream[s].overtaken
  /\ stream[s].at = "live" => Cardinality(LiveLost(s)) <= stream[s].overtaken

StreamInv == StreamType /\ BufferInv /\ SocketInv /\ \A s \in Stream : Within(s)

LEMMA LostFinite ==
  ASSUME StreamType, NEW s \in Stream
  PROVE  /\ First \in Int /\ stream[s].since \in Int /\ stream[s].next \in Int /\ stream[s].next >= 1
         /\ stream[s].overtaken \in Nat
         /\ HistoryLost(s) \in SUBSET (stream[s].since .. (First + stream[s].next - 2))
         /\ JoinLost(s) \in SUBSET (stream[s].since .. streamed)
         /\ LiveLost(s) \in SUBSET (stream[s].since .. streamed)
<1>1. /\ stream[s].since \in Nat /\ stream[s].next \in Nat \ {0} /\ stream[s].overtaken \in Nat
      /\ First \in Int
  BY LenProperties DEF StreamType, StreamState, First
<1> QED
  BY <1>1 DEF HistoryLost, JoinLost, LiveLost

\* A stream that stays as it is misses no more when only the tasks go on.
LEMMA WithinKept ==
  ASSUME StreamInv, NEW s \in Stream, StreamType',
         stream'[s] = stream[s], UNCHANGED <<buffer, streamed>>,
         stream[s].at = "live" => unsent \subseteq unsent' /\ Coming(s) \subseteq Coming(s)' \cup unsent'
  PROVE  Within(s)'
<1>1. CASE stream[s].at = "live"
  <2>1. LiveLost(s)' \subseteq LiveLost(s)
    BY <1>1 DEF LiveLost
  <2>2. Cardinality(LiveLost(s)') <= Cardinality(LiveLost(s)) /\ Cardinality(LiveLost(s)) \in Nat
        /\ Cardinality(LiveLost(s)') \in Nat
    <3>1. /\ stream[s].since \in Int /\ streamed \in Int
          /\ LiveLost(s) \in SUBSET (stream[s].since .. streamed)
      BY LostFinite DEF StreamInv, StreamType
    <3> HIDE DEF LiveLost
    <3> QED
      BY <2>1, <3>1, CountParts
  <2>3. Cardinality(LiveLost(s)) <= stream[s].overtaken /\ stream[s].overtaken \in Nat
    BY <1>1, LostFinite DEF StreamInv, Within
  <2>4. Cardinality(LiveLost(s)') <= stream[s].overtaken
    BY <2>2, <2>3
  <2> QED
    BY <1>1, <2>4 DEF Within
<1>2. CASE stream[s].at # "live"
  BY <1>2 DEF StreamInv, Within, HistoryLost, JoinLost, First
<1> QED
  BY <1>1, <1>2

\* Another state of one stream, or of a sender.
LEMMA StreamUpdate ==
  ASSUME StreamType, NEW s \in Stream
  PROVE  /\ stream[s] \in StreamState
         /\ \A r \in StreamState : [stream EXCEPT ![s] = r] \in [Stream -> StreamState]
         /\ \A x \in Nat : [stream[s] EXCEPT !.at = "history", !.since = x] \in StreamState
         /\ \A x \in Nat : [stream[s] EXCEPT !.got = @ \cup {x}, !.next = @ + 1] \in StreamState
         /\ \A x \in Nat : [stream[s] EXCEPT !.got = @ \cup {x}] \in StreamState
         /\ [stream[s] EXCEPT !.at = "joining", !.next = 1] \in StreamState
         /\ [stream[s] EXCEPT !.at = "live"] \in StreamState
         /\ [stream[s] EXCEPT !.overtaken = @ + 1] \in StreamState
         /\ Streams!Blank("closed") \in StreamState /\ Streams!Blank("ended") \in StreamState
<1>1. stream[s] \in StreamState /\ \A r \in StreamState : [stream EXCEPT ![s] = r] \in [Stream -> StreamState]
  BY DEF StreamType
<1>2. \A r \in StreamState, x \in Nat : [r EXCEPT !.at = "history", !.since = x] \in StreamState
  BY DEF StreamState
<1>3. ASSUME NEW r \in StreamState, NEW x \in Nat
      PROVE  [r EXCEPT !.got = @ \cup {x}, !.next = @ + 1] \in StreamState
  <2>1. r.got \cup {x} \in SUBSET Nat /\ r.next + 1 \in Nat \ {0}
    BY DEF StreamState
  <2> QED
    BY <2>1 DEF StreamState
<1>4. \A r \in StreamState, x \in Nat : [r EXCEPT !.got = @ \cup {x}] \in StreamState
  BY DEF StreamState
<1>5. ASSUME NEW r \in StreamState PROVE [r EXCEPT !.at = "joining", !.next = 1] \in StreamState
  <2>1. 1 \in Nat \ {0}
    OBVIOUS
  <2> QED
    BY <2>1 DEF StreamState
<1>6. \A r \in StreamState : [r EXCEPT !.at = "live"] \in StreamState
  BY DEF StreamState
<1>7. \A r \in StreamState : [r EXCEPT !.overtaken = @ + 1] \in StreamState
  BY DEF StreamState
<1>8. Streams!Blank("closed") \in StreamState /\ Streams!Blank("ended") \in StreamState
  BY DEF StreamState, Streams!Blank
<1> QED
  BY <1>1, <1>2, <1>3, <1>4, <1>5, <1>6, <1>7, <1>8

LEMMA StreamTypeStep == StreamType /\ SocketInv /\ [Streams!Next]_streamVars => StreamType'
<1> SUFFICES ASSUME StreamType, SocketInv, [Streams!Next]_streamVars PROVE StreamType'
  OBVIOUS
<1> USE DEF StreamType
<1>1. CASE UNCHANGED streamVars
  BY <1>1 DEF streamVars
<1>2. ASSUME NEW onLoop \in BOOLEAN, Streams!Emit(onLoop) PROVE StreamType'
  <2>1. streamed' = streamed + 1 /\ streamed' \in Nat
    BY <1>2 DEF Streams!Emit
  <2>2. buffer' \in Seq(Nat)
    <3>1. CASE Len(buffer) = Room
      <4>1. buffer # <<>>
        BY <3>1, StreamAssumption
      <4>2. Tail(buffer) \in Seq(Nat)
        BY <4>1, TailFacts
      <4>3. buffer' = Append(Tail(buffer), streamed')
        BY <1>2, <2>1, <3>1 DEF Streams!Emit
      <4> QED
        BY <2>1, <4>2, <4>3, AppendFacts
    <3>2. CASE Len(buffer) # Room
      <4>1. buffer' = Append(buffer, streamed')
        BY <1>2, <2>1, <3>2 DEF Streams!Emit
      <4> QED
        BY <2>1, <4>1, AppendFacts
    <3> QED
      BY <3>1, <3>2
  <2>3. stream' \in [Stream -> StreamState]
    <3>1. stream' = [s \in Stream |-> stream'[s]]
          /\ \A s \in Stream : stream'[s] \in {stream[s], [stream[s] EXCEPT !.overtaken = @ + 1]}
      BY <1>2 DEF Streams!Emit
    <3> HIDE DEF StreamType
    <3>2. \A s \in Stream : stream'[s] \in StreamState
      BY <3>1, StreamUpdate
    <3> QED
      BY <3>1, <3>2
  <2>4. senders' \subseteq Sender /\ unsent' \subseteq Nat
    <3>1. [record |-> streamed + 1, of |-> {}, visited |-> {}] \in Sender
      BY DEF Sender
    <3>2. /\ senders' \subseteq senders \cup {[record |-> streamed + 1, of |-> {}, visited |-> {}]}
          /\ unsent' \subseteq unsent \cup {streamed + 1}
      BY <1>2 DEF Streams!Emit
    <3> QED
      BY <2>1, <3>1, <3>2
  <2> QED
    BY <2>1, <2>2, <2>3, <2>4
<1>3. ASSUME NEW s \in Stream, Streams!Connect(s) PROVE StreamType'
  <2>1. (IF buffer = <<>> THEN streamed + 1 ELSE Head(buffer)) \in Nat
    BY TailFacts
  <2>2. stream' = [stream EXCEPT ![s] = [stream[s] EXCEPT !.at = "history", !.since = IF buffer = <<>> THEN streamed + 1 ELSE Head(buffer)]]
    BY <1>3 DEF Streams!Connect
  <2>3. stream' \in [Stream -> StreamState]
    BY <2>1, <2>2, StreamUpdate
  <2> QED
    BY <1>3, <2>3 DEF Streams!Connect
<1>4. ASSUME NEW s \in Stream, Streams!SendHistory(s) PROVE StreamType'
  <2>1. buffer[stream[s].next] \in Nat
    BY <1>4, LenProperties, ElementOfSeq DEF Streams!SendHistory, StreamState
  <2>2. stream' = [stream EXCEPT ![s] = [stream[s] EXCEPT !.got = @ \cup {buffer[stream[s].next]}, !.next = @ + 1]]
    BY <1>4 DEF Streams!SendHistory
  <2>3. stream' \in [Stream -> StreamState]
    BY <2>1, <2>2, StreamUpdate
  <2> QED
    BY <1>4, <2>3 DEF Streams!SendHistory
<1>5. ASSUME NEW s \in Stream, 
             Streams!HistoryBreaks(s) \/ Streams!HistoryEnds(s) \/ Streams!Join(s) \/ Streams!PeerCloses(s) \/ Streams!Leave(s) \/ Streams!CloseNext(s)
      PROVE  StreamType'
  <2>1. stream' \in [Stream -> StreamState]
    <3>1. PICK r \in {stream[s], Streams!Blank("ended"), Streams!Blank("closed"), [stream[s] EXCEPT !.at = "live"],
                      [stream[s] EXCEPT !.at = "joining", !.next = 1]} :
            stream' = [stream EXCEPT ![s] = r]
      BY <1>5 DEF Streams!HistoryBreaks, Streams!HistoryEnds, Streams!Join, Streams!PeerCloses, Streams!Leave,
         Streams!CloseNext, Streams!Closed
    <3>2. r \in StreamState
      BY StreamUpdate
    <3> QED
      BY <3>1, <3>2, StreamUpdate
  <2>2. UNCHANGED <<buffer, streamed, senders, unsent>>
    BY <1>5 DEF Streams!HistoryBreaks, Streams!HistoryEnds, Streams!Join, Streams!PeerCloses, Streams!Leave, Streams!CloseNext
  <2> QED
    BY <2>1, <2>2
<1>6. ASSUME NEW d \in senders, Streams!SendStep(d) PROVE StreamType'
  <2>1. d \in Sender
    OBVIOUS
  <2>2. CASE Streams!SendBegins(d)
    <3>1. webSockets = {} \/ [d EXCEPT !.of = webSockets] \in Sender
      BY <2>1 DEF Sender, SocketInv
    <3> QED
      BY <2>2, <3>1 DEF Streams!SendBegins
  <2>3. CASE Streams!SendRaises(d) \/ Streams!SendEnds(d)
    BY <2>1, <2>3 DEF Streams!SendRaises, Streams!SendEnds, Sender
  <2>4. ASSUME NEW s \in Stream, Streams!SendTo(d, s) PROVE StreamType'
    <3>1. [d EXCEPT !.visited = @ \cup {s}] \in Sender /\ d.record \in Nat
      BY <2>1 DEF Sender
    <3>2. PICK r \in {stream[s], [stream[s] EXCEPT !.got = @ \cup {d.record}]} : stream' = [stream EXCEPT ![s] = r]
      <4>1. \/ stream' = [stream EXCEPT ![s] = [stream[s] EXCEPT !.got = @ \cup {d.record}]]
            \/ stream' = stream
        BY <2>4 DEF Streams!SendTo
      <4>2. stream = [stream EXCEPT ![s] = stream[s]]
        OBVIOUS
      <4> QED
        BY <4>1, <4>2
    <3>3. stream' \in [Stream -> StreamState]
      BY <3>1, <3>2, StreamUpdate
    <3> QED
      BY <2>4, <3>1, <3>3 DEF Streams!SendTo
  <2> QED
    BY <1>6, <2>2, <2>3, <2>4 DEF Streams!SendStep
<1>7. CASE Streams!OnStop
  BY <1>7 DEF Streams!OnStop
<1> QED
  BY <1>1, <1>2, <1>3, <1>4, <1>5, <1>6, <1>7 DEF Streams!Next

\* Nothing is done to Buffer and WebSockets that spoils what they are.
LEMMA BufferStep == StreamType /\ BufferInv /\ [Streams!Next]_streamVars => BufferInv'
<1> SUFFICES ASSUME StreamType, BufferInv, [Streams!Next]_streamVars PROVE BufferInv'
  OBVIOUS
<1>1. CASE UNCHANGED <<buffer, streamed>>
  BY <1>1 DEF BufferInv
<1>2. ASSUME NEW onLoop \in BOOLEAN, Streams!Emit(onLoop) PROVE BufferInv'
  <2>1. buffer \in Seq(Nat) /\ streamed \in Nat /\ streamed' = streamed + 1 /\ streamed + 1 \in Nat
    BY <1>2 DEF Streams!Emit, StreamType
  <2>2. CASE Len(buffer) = Room
    <3>1. buffer # <<>> /\ buffer' = Append(Tail(buffer), streamed + 1)
      BY <1>2, <2>2, StreamAssumption DEF Streams!Emit
    <3>2. /\ Tail(buffer) \in Seq(Nat) /\ Len(buffer) \in Nat /\ Len(Tail(buffer)) = Len(buffer) - 1
          /\ \A i \in 1..(Len(buffer) - 1) : Tail(buffer)[i] = buffer[i + 1]
      BY <2>1, <3>1, TailFacts
    <3>3. /\ Len(buffer') = Len(buffer)
          /\ \A i \in 1..(Len(buffer) - 1) : buffer'[i] = Tail(buffer)[i]
          /\ buffer'[Len(buffer)] = streamed + 1
      BY <2>1, <3>1, <3>2, AppendFacts
    <3>4. ASSUME NEW i \in 1..Len(buffer) PROVE buffer'[i] = streamed' - Len(buffer') + i
      <4>1. CASE i = Len(buffer)
        BY <2>1, <3>2, <3>3, <4>1
      <4>2. CASE i # Len(buffer)
        <5>0. i \in Nat /\ i >= 1 /\ i <= Len(buffer) /\ Len(buffer) \in Nat
          BY <3>4, <3>2
        <5>1. i \in 1..(Len(buffer) - 1) /\ i + 1 \in 1..Len(buffer)
          BY <4>2, <5>0
        <5>2. buffer'[i] = buffer[i + 1]
          BY <3>2, <3>3, <5>1
        <5> QED
          BY <2>1, <3>2, <3>3, <5>1, <5>2 DEF BufferInv
      <4> QED
        BY <4>1, <4>2
    <3> QED
      BY <2>1, <3>2, <3>3, <3>4 DEF BufferInv
  <2>3. CASE Len(buffer) # Room
    <3>1. buffer' = Append(buffer, streamed + 1)
      BY <1>2, <2>3 DEF Streams!Emit
    <3>2. /\ Len(buffer) \in Nat /\ Len(buffer') = Len(buffer) + 1
          /\ \A i \in 1..Len(buffer) : buffer'[i] = buffer[i]
          /\ buffer'[Len(buffer) + 1] = streamed + 1
      BY <2>1, <3>1, AppendFacts
    <3>3. Len(buffer') <= streamed' /\ Len(buffer') <= Room
      BY <2>1, <2>3, <3>2, StreamAssumption DEF BufferInv
    <3>4. ASSUME NEW i \in 1..Len(buffer') PROVE buffer'[i] = streamed' - Len(buffer') + i
      <4>1. CASE i = Len(buffer) + 1
        BY <2>1, <3>2, <4>1
      <4>2. CASE i # Len(buffer) + 1
        <5>1. i \in 1..Len(buffer)
          BY <3>2, <4>2
        <5> QED
          BY <2>1, <3>2, <5>1 DEF BufferInv
      <4> QED
        BY <4>1, <4>2
    <3> QED
      BY <3>3, <3>4 DEF BufferInv
  <2> QED
    BY <2>2, <2>3
<1> QED
  BY <1>1, <1>2 DEF Streams!Next, Streams!Connect, Streams!SendHistory, Streams!HistoryBreaks, Streams!HistoryEnds, Streams!Join,
     Streams!PeerCloses, Streams!Leave, Streams!CloseNext, Streams!OnStop, Streams!SendStep, Streams!SendBegins,
     Streams!SendRaises, Streams!SendEnds, Streams!SendTo, streamVars

LEMMA SocketStep == StreamType /\ SocketInv /\ [Streams!Next]_streamVars => SocketInv'
<1> SUFFICES ASSUME StreamType, SocketInv, [Streams!Next]_streamVars PROVE SocketInv'
  OBVIOUS
<1> USE DEF SocketInv
<1>1. CASE UNCHANGED streamVars
  BY <1>1 DEF streamVars
<1>2. ASSUME NEW onLoop \in BOOLEAN, Streams!Emit(onLoop) PROVE SocketInv'
  <2>1. \A s \in Stream : stream'[s].at = stream[s].at
    BY <1>2 DEF Streams!Emit, StreamType, StreamState
  <2>2. \A d \in senders' : d \in senders \/ d.visited = {}
    BY <1>2 DEF Streams!Emit
  <2> QED
    BY <1>2, <2>1, <2>2 DEF Streams!Emit
<1>3. ASSUME NEW s \in Stream,
             \/ Streams!Connect(s) \/ Streams!SendHistory(s) \/ Streams!HistoryBreaks(s) \/ Streams!HistoryEnds(s)
             \/ Streams!Join(s) \/ Streams!PeerCloses(s) \/ Streams!Leave(s) \/ Streams!CloseNext(s)
      PROVE  SocketInv'
  <2>1. senders' = senders /\ \A t \in Stream \ {s} : stream'[t] = stream[t]
    BY <1>3 DEF Streams!Connect, Streams!SendHistory, Streams!HistoryBreaks, Streams!HistoryEnds, Streams!Join,
       Streams!PeerCloses, Streams!Leave, Streams!CloseNext, Streams!Closed, StreamType
  <2>2. \/ webSockets' = webSockets /\ (stream[s].at \in {"live", "closed"} <=> stream'[s].at \in {"live", "closed"})
        \/ webSockets' = webSockets \cup {s} /\ stream'[s].at = "live"
        \/ webSockets' = webSockets \ {s} /\ stream'[s].at = "ended"
    BY <1>3 DEF Streams!Connect, Streams!SendHistory, Streams!HistoryBreaks, Streams!HistoryEnds, Streams!Join,
       Streams!PeerCloses, Streams!Leave, Streams!CloseNext, Streams!Closed, Streams!Blank, StreamType, StreamState
  <2> QED
    BY <2>1, <2>2
<1>4. ASSUME NEW d \in senders, Streams!SendStep(d) PROVE SocketInv'
  <2>1. webSockets' = webSockets /\ \A s \in Stream : stream'[s].at = stream[s].at
    BY <1>4 DEF Streams!SendStep, Streams!SendBegins, Streams!SendRaises, Streams!SendEnds, Streams!SendTo, StreamType, StreamState
  <2>2. \A e \in senders' : e \in senders \/ e.of # {}
    <3>1. d \in Sender
      BY DEF StreamType
    <3>2. CASE Streams!SendBegins(d)
      <4>1. [d EXCEPT !.of = webSockets].of = webSockets
        BY <3>1 DEF Sender
      <4> QED
        BY <3>2, <4>1 DEF Streams!SendBegins
    <3>3. ASSUME NEW s \in Stream, Streams!SendTo(d, s) PROVE \A e \in senders' : e \in senders \/ e.of # {}
      <4>1. [d EXCEPT !.visited = @ \cup {s}].of = d.of
        BY <3>1 DEF Sender
      <4> QED
        BY <3>3, <4>1 DEF Streams!SendTo, Streams!Begun
    <3>4. CASE Streams!SendRaises(d) \/ Streams!SendEnds(d)
      BY <3>4 DEF Streams!SendRaises, Streams!SendEnds
    <3> QED
      BY <1>4, <3>2, <3>3, <3>4 DEF Streams!SendStep
  <2> QED
    BY <2>1, <2>2
<1>5. CASE Streams!OnStop
  BY <1>5 DEF Streams!OnStop
<1> QED
  BY <1>1, <1>2, <1>3, <1>4, <1>5 DEF Streams!Next

LEMMA WithinStep ==
  StreamInv /\ StreamType' /\ BufferInv' /\ SocketInv' /\ [Streams!Next]_streamVars => \A s \in Stream : Within(s)'
<1> SUFFICES ASSUME StreamInv, StreamType', BufferInv', SocketInv', [Streams!Next]_streamVars, NEW s \in Stream
             PROVE  Within(s)'
  OBVIOUS
<1>0. StreamType /\ BufferInv /\ SocketInv /\ Within(s)
  BY DEF StreamInv
<1>1. CASE UNCHANGED streamVars
  BY <1>1, WithinKept DEF streamVars, Coming
<1>2. ASSUME NEW onLoop \in BOOLEAN, Streams!Emit(onLoop) PROVE Within(s)'
  <2>1. /\ streamed \in Nat /\ streamed' = streamed + 1 /\ Len(buffer) \in Nat 
        /\ IF Len(buffer) = Room THEN Len(buffer') = Len(buffer) ELSE Len(buffer') = Len(buffer) + 1
    <3>1. buffer \in Seq(Nat) /\ streamed \in Nat /\ streamed' = streamed + 1 /\ streamed + 1 \in Nat /\ Len(buffer) \in Nat
      BY <1>0, <1>2, LenProperties DEF Streams!Emit, StreamType
    <3>2. CASE Len(buffer) = Room
      <4>1. buffer # <<>> /\ buffer' = Append(Tail(buffer), streamed + 1)
        BY <1>2, <3>2, StreamAssumption DEF Streams!Emit
      <4>2. Tail(buffer) \in Seq(Nat) /\ Len(Tail(buffer)) = Len(buffer) - 1
        BY <3>1, <4>1, TailFacts
      <4>3. Len(buffer') = Len(buffer)
        BY <3>1, <4>1, <4>2, AppendFacts
      <4> QED
        BY <3>1, <3>2, <4>3
    <3>3. CASE Len(buffer) # Room
      BY <1>2, <3>1, <3>3, AppendFacts DEF Streams!Emit
    <3> QED
      BY <3>2, <3>3
  <2>2. stream'[s] = IF stream[s].at = "joining" \/ (Len(buffer) = Room /\ stream[s].at = "history")
                       THEN [stream[s] EXCEPT !.overtaken = @ + 1] ELSE stream[s]
    BY <1>2 DEF Streams!Emit
  <2>3. stream[s] \in StreamState
    BY <1>0 DEF StreamType
  <2>4. /\ stream'[s].at = stream[s].at /\ stream'[s].next = stream[s].next /\ stream'[s].got = stream[s].got
        /\ stream'[s].since = stream[s].since
        /\ stream'[s].overtaken = IF stream[s].at = "joining" \/ (Len(buffer) = Room /\ stream[s].at = "history")
                       THEN stream[s].overtaken + 1 ELSE stream[s].overtaken
    BY <2>2, <2>3 DEF StreamState
  <2>5. /\ First \in Int /\ stream[s].since \in Int /\ stream[s].next \in Int /\ stream[s].overtaken \in Nat
    BY <1>0, LostFinite
  <2>6. CASE stream[s].at = "history"
    <3>1. stream[s].next <= Len(buffer) + 1 /\ Cardinality(HistoryLost(s)) <= stream[s].overtaken
      BY <1>0, <2>6 DEF Within
    <3>2. CASE Len(buffer) = Room
      <4>1. First' = First + 1
        BY <2>1, <3>2 DEF First
      <4>2. HistoryLost(s)' \subseteq HistoryLost(s) \cup {First + stream[s].next - 1}
        <5>1. HistoryLost(s)' = (stream[s].since .. (First + 1 + stream[s].next - 2)) \ stream[s].got
          BY <2>4, <4>1 DEF HistoryLost
        <5>2. First + 1 + stream[s].next - 2 = First + stream[s].next - 1
          BY <2>5
        <5>3. (stream[s].since .. (First + stream[s].next - 1))
                 \subseteq (stream[s].since .. (First + stream[s].next - 2)) \cup {First + stream[s].next - 1}
          BY <2>5
        <5> QED
          BY <5>1, <5>2, <5>3 DEF HistoryLost
      <4>3. Cardinality(HistoryLost(s)') <= Cardinality(HistoryLost(s)) + 1 /\ Cardinality(HistoryLost(s)) \in Nat
            /\ Cardinality(HistoryLost(s)') \in Nat
        <5>1. HistoryLost(s) \in SUBSET (stream[s].since .. (First + stream[s].next - 2)) /\ First + stream[s].next - 2 \in Int
          BY <1>0, <2>5, LostFinite
        <5> HIDE DEF HistoryLost
        <5> QED
          BY <2>5, <4>2, <5>1, CountParts
      <4>4. Cardinality(HistoryLost(s)') <= stream'[s].overtaken
        BY <2>4, <2>5, <2>6, <3>1, <3>2, <4>3
      <4> QED
        BY <2>1, <2>4, <2>6, <3>1, <3>2, <4>4 DEF Within
    <3>3. CASE Len(buffer) # Room
      <4>1. First' = First
        BY <2>1, <3>3 DEF First
      <4>2. HistoryLost(s)' = HistoryLost(s)
        BY <2>4, <4>1 DEF HistoryLost
      <4> QED
        BY <2>1, <2>4, <2>5, <2>6, <3>1, <3>3, <4>2 DEF Within
    <3> QED
      BY <3>2, <3>3
  <2>7. CASE stream[s].at = "joining"
    <3>1. JoinLost(s)' \subseteq JoinLost(s) \cup {streamed + 1}
      BY <2>1, <2>4, <2>5 DEF JoinLost
    <3>2. Cardinality(JoinLost(s)') <= Cardinality(JoinLost(s)) + 1 /\ Cardinality(JoinLost(s)) \in Nat
          /\ Cardinality(JoinLost(s)') \in Nat
      <4>1. JoinLost(s) \in SUBSET (stream[s].since .. streamed) /\ streamed \in Int
        BY <1>0, <2>1, LostFinite
      <4> HIDE DEF JoinLost
      <4> QED
        BY <2>5, <3>1, <4>1, CountParts
    <3>3. Cardinality(JoinLost(s)) <= stream[s].overtaken
      BY <1>0, <2>7 DEF Within
    <3>4. Cardinality(JoinLost(s)') <= stream'[s].overtaken
      BY <2>4, <2>5, <2>7, <3>2, <3>3
    <3> QED
      BY <2>4, <2>7, <3>4 DEF Within
  <2>8. CASE stream[s].at = "live"
    <3>1. webSockets # {}
      BY <1>0, <2>8 DEF SocketInv
    <3>2. unsent \subseteq unsent' /\ Coming(s) \subseteq Coming(s)' /\ streamed + 1 \in unsent' \cup Coming(s)'
      <4>1. \/ senders' = senders \cup {[record |-> streamed + 1, of |-> {}, visited |-> {}]} /\ unsent' = unsent
            \/ senders' = senders /\ unsent' = unsent \cup {streamed + 1}
        BY <1>2, <3>1 DEF Streams!Emit
      <4>2. webSockets' = webSockets
        BY <1>2 DEF Streams!Emit
      <4>3. Coming(s) \subseteq Coming(s)'
        BY <4>1, <4>2 DEF Coming
      <4>4. streamed + 1 \in unsent' \cup Coming(s)'
        <5>1. CASE senders' = senders \cup {[record |-> streamed + 1, of |-> {}, visited |-> {}]}
          <6> DEFINE d == [record |-> streamed + 1, of |-> {}, visited |-> {}]
          <6>1. d \in senders' /\ d.of = {} /\ d.record = streamed + 1
            BY <5>1
          <6> QED
            BY <6>1 DEF Coming
        <5> QED
          BY <4>1, <5>1
      <4> QED
        BY <4>1, <4>3, <4>4
    <3>3. LiveLost(s)' \subseteq LiveLost(s)
      BY <2>1, <2>4, <2>5, <3>2 DEF LiveLost
    <3>4. Cardinality(LiveLost(s)') <= Cardinality(LiveLost(s)) /\ Cardinality(LiveLost(s)) \in Nat
          /\ Cardinality(LiveLost(s)') \in Nat
      <4>1. LiveLost(s) \in SUBSET (stream[s].since .. streamed) /\ streamed \in Int
        BY <1>0, <2>1, LostFinite
      <4> HIDE DEF LiveLost
      <4> QED
        BY <2>5, <3>3, <4>1, CountParts
    <3>5. Cardinality(LiveLost(s)) <= stream[s].overtaken
      BY <1>0, <2>8 DEF Within
    <3>6. Cardinality(LiveLost(s)') <= stream'[s].overtaken
      BY <2>4, <2>5, <2>8, <3>4, <3>5
    <3> QED
      BY <2>4, <2>8, <3>6 DEF Within
  <2> QED
    <3>1. stream[s].at \notin {"history", "joining", "live"} /\ stream'[s].at = "new" => stream'[s].next = 1
      BY <1>0, <2>4 DEF Within
    <3> QED
      BY <2>4, <2>6, <2>7, <2>8, <3>1 DEF Within
<1>3. ASSUME NEW t \in Stream \ {s},
             \/ Streams!Connect(t) \/ Streams!SendHistory(t) \/ Streams!HistoryBreaks(t) \/ Streams!HistoryEnds(t)
             \/ Streams!Join(t) \/ Streams!PeerCloses(t) \/ Streams!Leave(t) \/ Streams!CloseNext(t)
      PROVE  Within(s)'
  <2>1. stream'[s] = stream[s] /\ UNCHANGED <<buffer, streamed, unsent, senders>>
        /\ (webSockets' \cup {t}) = webSockets \cup {t}
    BY <1>0, <1>3 DEF Streams!Connect, Streams!SendHistory, Streams!HistoryBreaks, Streams!HistoryEnds, Streams!Join,
       Streams!PeerCloses, Streams!Leave, Streams!CloseNext, Streams!Closed, StreamType
  <2>2. Coming(s) = Coming(s)'
    BY <2>1 DEF Coming
  <2> QED
    BY <2>1, <2>2, WithinKept
<1>4. CASE Streams!Connect(s)
  <2>1. stream[s] \in StreamState /\ buffer \in Seq(Nat) /\ streamed \in Nat /\ Len(buffer) \in Nat
    BY <1>0, LenProperties DEF StreamType
  <2>2. (IF buffer = <<>> THEN streamed + 1 ELSE Head(buffer)) = First
    <3>1. CASE buffer = <<>>
      BY <2>1, <3>1 DEF First
    <3>2. CASE buffer # <<>>
      <4>1. Head(buffer) = buffer[1] /\ Len(buffer) >= 1
        BY <2>1, <3>2, TailFacts
      <4> QED
        BY <1>0, <2>1, <3>2, <4>1 DEF BufferInv, First
    <3> QED
      BY <3>1, <3>2
  <2>3. stream' = [stream EXCEPT ![s] = [stream[s] EXCEPT !.at = "history", !.since = First]]
    BY <1>4, <2>2 DEF Streams!Connect
  <2>4. stream'[s] = [stream[s] EXCEPT !.at = "history", !.since = First]
    BY <1>0, <2>3 DEF StreamType
  <2>5. stream'[s].at = "history" /\ stream'[s].since = First /\ stream'[s].next = 1 /\ stream'[s].overtaken \in Nat
    <3>1. stream[s].next = 1
      BY <1>0, <1>4 DEF Within, Streams!Connect
    <3> QED
      BY <2>1, <2>4, <3>1 DEF StreamState
  <2>6. First' = First /\ First \in Int /\ Len(buffer') = Len(buffer)
    BY <1>4, <2>1 DEF First, Streams!Connect
  <2>7. HistoryLost(s)' = {}
    BY <2>5, <2>6 DEF HistoryLost
  <2>8. Cardinality(HistoryLost(s)') = 0
    BY <2>7, FS_EmptySet
  <2> QED
    BY <2>1, <2>5, <2>6, <2>8 DEF Within
<1>5. CASE Streams!SendHistory(s)
  <2>1. /\ stream[s] \in StreamState /\ buffer \in Seq(Nat) /\ streamed \in Nat /\ Len(buffer) \in Nat
        /\ First \in Int /\ stream[s].since \in Int /\ stream[s].overtaken \in Nat
        /\ stream[s].next \in Int /\ stream[s].next >= 1
    BY <1>0, LenProperties, LostFinite DEF StreamType
  <2>2. /\ stream[s].at = "history" /\ stream[s].next <= Len(buffer) /\ stream[s].next \in 1..Len(buffer)
        /\ stream' = [stream EXCEPT ![s] = [stream[s] EXCEPT !.got = @ \cup {buffer[stream[s].next]}, !.next = @ + 1]]
        /\ UNCHANGED <<buffer, streamed>>
    <3>1. /\ stream[s].at = "history" /\ stream[s].next <= Len(buffer) /\ UNCHANGED <<buffer, streamed>>
          /\ stream' = [stream EXCEPT ![s] = [stream[s] EXCEPT !.got = @ \cup {buffer[stream[s].next]}, !.next = @ + 1]]
      BY <1>5 DEF Streams!SendHistory
    <3>2. stream[s].next \in 1..Len(buffer)
      BY <2>1, <3>1
    <3> QED
      BY <3>1, <3>2
  <2>3. buffer[stream[s].next] = First + stream[s].next - 1
    <3>1. buffer[stream[s].next] = streamed - Len(buffer) + stream[s].next
      BY <1>0, <2>2 DEF BufferInv
    <3> QED
      BY <2>1, <3>1 DEF First
  <2>4. stream'[s] = [stream[s] EXCEPT !.got = @ \cup {First + stream[s].next - 1}, !.next = @ + 1]
    BY <1>0, <2>2, <2>3 DEF StreamType
  <2>5. /\ stream'[s].at = "history" /\ stream'[s].next = stream[s].next + 1 /\ stream'[s].since = stream[s].since
        /\ stream'[s].got = stream[s].got \cup {First + stream[s].next - 1} /\ stream'[s].overtaken = stream[s].overtaken
    <3> DEFINE r == stream[s]
               x == First + stream[s].next - 1
    <3>1. r \in StreamState /\ r.at = "history" /\ stream'[s] = [r EXCEPT !.got = @ \cup {x}, !.next = @ + 1]
      BY <2>1, <2>2, <2>4
    <3> HIDE DEF r, x
    <3>2. /\ stream'[s].at = "history" /\ stream'[s].next = r.next + 1 /\ stream'[s].since = r.since
          /\ stream'[s].got = r.got \cup {x} /\ stream'[s].overtaken = r.overtaken
      BY <3>1 DEF StreamState
    <3> QED
      BY <3>2 DEF r, x
  <2>6. First' = First
    BY <2>2 DEF First
  <2>7. HistoryLost(s)' \subseteq HistoryLost(s)
    <3>1. HistoryLost(s)' = (stream[s].since .. (First + stream[s].next + 1 - 2))
                             \ (stream[s].got \cup {First + stream[s].next - 1})
      BY <2>1, <2>5, <2>6 DEF HistoryLost
    <3>2. First + stream[s].next + 1 - 2 = First + stream[s].next - 1
      BY <2>1
    <3>3. (stream[s].since .. (First + stream[s].next - 1))
             \subseteq (stream[s].since .. (First + stream[s].next - 2)) \cup {First + stream[s].next - 1}
      BY <2>1, SMTT(30)
    <3> QED
      BY <3>1, <3>2, <3>3 DEF HistoryLost
  <2>8. Cardinality(HistoryLost(s)') <= Cardinality(HistoryLost(s)) /\ Cardinality(HistoryLost(s)) \in Nat
        /\ Cardinality(HistoryLost(s)') \in Nat
    <3>1. HistoryLost(s) \in SUBSET (stream[s].since .. (First + stream[s].next - 2)) /\ First + stream[s].next - 2 \in Int
      BY <1>0, <2>1, LostFinite
    <3> HIDE DEF HistoryLost
    <3> QED
      BY <2>1, <2>7, <3>1, CountParts
  <2>9. Cardinality(HistoryLost(s)') <= stream'[s].overtaken
    BY <1>0, <2>1, <2>2, <2>5, <2>8 DEF Within
  <2> QED
    BY <2>1, <2>2, <2>5, <2>9 DEF Within
<1>6. CASE Streams!HistoryEnds(s)
  <2>1. /\ stream[s] \in StreamState /\ buffer \in Seq(Nat) /\ streamed \in Nat /\ Len(buffer) \in Nat
        /\ First \in Int /\ stream[s].since \in Int /\ stream[s].overtaken \in Nat
        /\ stream[s].next \in Int /\ stream[s].next >= 1
    BY <1>0, LenProperties, LostFinite DEF StreamType
  <2>2. /\ stream[s].at = "history" /\ stream[s].next > Len(buffer)
        /\ stream' = [stream EXCEPT ![s] = [stream[s] EXCEPT !.at = "joining", !.next = 1]]
        /\ UNCHANGED <<buffer, streamed>>
    BY <1>6 DEF Streams!HistoryEnds
  <2>3. stream'[s] = [stream[s] EXCEPT !.at = "joining", !.next = 1]
    BY <1>0, <2>2 DEF StreamType
  <2>4. /\ stream'[s].at = "joining" /\ stream'[s].since = stream[s].since
        /\ stream'[s].got = stream[s].got /\ stream'[s].overtaken = stream[s].overtaken
    BY <2>1, <2>3 DEF StreamState
  <2>5. stream[s].next <= Len(buffer) + 1 /\ Cardinality(HistoryLost(s)) <= stream[s].overtaken
    BY <1>0, <2>2 DEF Within
  <2>6. First + stream[s].next - 2 = streamed
    <3>1. stream[s].next = Len(buffer) + 1
      BY <2>1, <2>2, <2>5
    <3> QED
      BY <2>1, <3>1 DEF First
  <2>7. JoinLost(s)' = HistoryLost(s)
    BY <2>2, <2>4, <2>6 DEF HistoryLost, JoinLost
  <2> QED
    BY <2>4, <2>5, <2>7 DEF Within
<1>7. CASE Streams!Join(s)
  <2>1. stream[s] \in StreamState /\ streamed \in Int /\ stream[s].since \in Int /\ stream[s].overtaken \in Nat
    BY <1>0, LostFinite DEF StreamType
  <2>2. /\ stream[s].at = "joining" /\ stream' = [stream EXCEPT ![s] = [stream[s] EXCEPT !.at = "live"]]
        /\ UNCHANGED <<buffer, streamed>>
    BY <1>7 DEF Streams!Join
  <2>3. stream'[s] = [stream[s] EXCEPT !.at = "live"]
    BY <1>0, <2>2 DEF StreamType
  <2>4. /\ stream'[s].at = "live" /\ stream'[s].since = stream[s].since
        /\ stream'[s].got = stream[s].got /\ stream'[s].overtaken = stream[s].overtaken
    BY <2>1, <2>3 DEF StreamState
  <2>5. LiveLost(s)' \subseteq JoinLost(s)
    BY <2>2, <2>4 DEF LiveLost, JoinLost
  <2>6. Cardinality(LiveLost(s)') <= Cardinality(JoinLost(s)) /\ Cardinality(JoinLost(s)) \in Nat
        /\ Cardinality(LiveLost(s)') \in Nat
    <3>1. JoinLost(s) \in SUBSET (stream[s].since .. streamed)
      BY <1>0, LostFinite
    <3> HIDE DEF JoinLost, LiveLost
    <3> QED
      BY <2>1, <2>5, <3>1, CountParts
  <2>7. Cardinality(JoinLost(s)) <= stream[s].overtaken
    BY <1>0, <2>2 DEF Within
  <2>8. Cardinality(LiveLost(s)') <= stream'[s].overtaken
    BY <2>1, <2>4, <2>6, <2>7
  <2> QED
    BY <2>4, <2>8 DEF Within
<1>8. CASE Streams!HistoryBreaks(s) \/ Streams!PeerCloses(s) \/ Streams!Leave(s)
  <2>1. stream'[s].at \in {"closed", "ended"}
    BY <1>0, <1>8 DEF Streams!HistoryBreaks, Streams!PeerCloses, Streams!Leave, Streams!Closed, Streams!Blank, StreamType
  <2> QED
    BY <2>1 DEF Within
<1>9. CASE Streams!CloseNext(s)
  <2>1. CASE stream[s].at = "live"
    <3>1. stream'[s].at = "closed"
      BY <1>0, <1>9, <2>1 DEF Streams!CloseNext, Streams!Closed, Streams!Blank, StreamType
    <3> QED
      BY <3>1 DEF Within
  <2>2. CASE stream[s].at # "live"
    <3>1. stream'[s] = stream[s] /\ UNCHANGED <<buffer, streamed>>
      BY <1>9, <2>2 DEF Streams!CloseNext
    <3> QED
      BY <2>2, <3>1, WithinKept
  <2> QED
    BY <2>1, <2>2
<1>10. ASSUME NEW d \in senders, Streams!SendStep(d) PROVE Within(s)'
  <2>1. d \in Sender /\ UNCHANGED <<buffer, streamed, webSockets>>
    BY <1>0, <1>10 DEF StreamType, Streams!SendStep, Streams!SendBegins, Streams!SendRaises, Streams!SendEnds, Streams!SendTo
  <2>2. stream[s].at = "live" => s \in webSockets
    BY <1>0 DEF SocketInv
  <2>3. CASE Streams!SendBegins(d)
    <3>1. stream' = stream /\ unsent' = unsent /\ d.of = {} /\ d.visited = {}
          /\ senders' = (senders \ {d}) \cup (IF webSockets = {} THEN {} ELSE {[d EXCEPT !.of = webSockets]})
      BY <1>0, <2>3 DEF Streams!SendBegins, Streams!Begun, SocketInv
    <3>2. ASSUME stream[s].at = "live" PROVE Coming(s) \subseteq Coming(s)'
      <4> DEFINE b == [d EXCEPT !.of = webSockets]
      <4>1. b \in senders' /\ b.record = d.record /\ b.of = webSockets /\ b.visited = {}
        BY <2>1, <2>2, <3>1, <3>2 DEF Sender
      <4>2. d.record \in Coming(s)'
        BY <2>1, <2>2, <3>2, <4>1 DEF Coming
      <4>3. \A e \in senders \ {d} : e \in senders'
        BY <3>1
      <4> QED
        BY <2>1, <4>2, <4>3 DEF Coming
    <3> QED
      BY <2>1, <3>1, <3>2, WithinKept
  <2>4. CASE Streams!SendRaises(d)
    <3>1. stream' = stream /\ unsent' = unsent \cup {d.record} /\ senders' = senders \ {d}
      BY <2>4 DEF Streams!SendRaises
    <3>2. Coming(s) \subseteq Coming(s)' \cup unsent'
      BY <2>1, <3>1 DEF Coming
    <3> QED
      BY <2>1, <3>1, <3>2, WithinKept
  <2>5. CASE Streams!SendEnds(d)
    <3>1. stream' = stream /\ unsent' = unsent /\ senders' = senders \ {d} /\ d.of # {} /\ (d.of \cap webSockets) \ d.visited = {}
      BY <2>5 DEF Streams!SendEnds, Streams!Begun, Streams!Remaining
    <3>2. Coming(s) \subseteq Coming(s)'
      BY <2>1, <3>1 DEF Coming
    <3> QED
      BY <2>1, <3>1, <3>2, WithinKept
  <2>6. ASSUME NEW t \in Stream, Streams!SendTo(d, t) PROVE Within(s)'
    <3> DEFINE b == [d EXCEPT !.visited = @ \cup {t}]
    <3>1. /\ senders' = (senders \ {d}) \cup {b} /\ unsent' = unsent
          /\ b.record = d.record /\ b.of = d.of /\ b.visited = d.visited \cup {t}
          /\ d.of # {} /\ t \in (d.of \cap webSockets) \ d.visited
      BY <2>1, <2>6 DEF Streams!SendTo, Sender, Streams!Begun, Streams!Remaining
    <3> HIDE DEF b
    <3>2. Coming(s) \subseteq Coming(s)' \cup (IF t = s THEN {d.record} ELSE {})
      BY <2>1, <3>1 DEF Coming
    <3>3. CASE t # s \/ stream[s].at # "live"
      <4>1. stream'[s] = stream[s]
        BY <1>0, <2>6, <3>3 DEF Streams!SendTo, StreamType
      <4> QED
        BY <2>1, <3>1, <3>2, <3>3, <4>1, WithinKept
    <3>4. CASE t = s /\ stream[s].at = "live"
      <4>1. stream[s] \in StreamState /\ streamed \in Int /\ stream[s].since \in Int /\ stream[s].overtaken \in Nat
        BY <1>0, LostFinite DEF StreamType
      <4>2. stream'[s] = [stream[s] EXCEPT !.got = @ \cup {d.record}]
        BY <1>0, <2>6, <3>4 DEF Streams!SendTo, StreamType
      <4>3. /\ stream'[s].at = "live" /\ stream'[s].since = stream[s].since
            /\ stream'[s].got = stream[s].got \cup {d.record} /\ stream'[s].overtaken = stream[s].overtaken
        BY <3>4, <4>1, <4>2 DEF StreamState
      <4>4. LiveLost(s)' \subseteq LiveLost(s)
        BY <2>1, <3>1, <3>2, <4>3 DEF LiveLost
      <4>5. Cardinality(LiveLost(s)') <= Cardinality(LiveLost(s)) /\ Cardinality(LiveLost(s)) \in Nat
            /\ Cardinality(LiveLost(s)') \in Nat
        <5>1. LiveLost(s) \in SUBSET (stream[s].since .. streamed)
          BY <1>0, LostFinite
        <5> HIDE DEF LiveLost
        <5> QED
          BY <4>1, <4>4, <5>1, CountParts
      <4>6. Cardinality(LiveLost(s)') <= stream'[s].overtaken
        BY <1>0, <3>4, <4>1, <4>3, <4>5 DEF Within
      <4> QED
        BY <4>3, <4>6 DEF Within
    <3> QED
      BY <3>3, <3>4
  <2> QED
    BY <1>10, <2>3, <2>4, <2>5, <2>6 DEF Streams!SendStep
<1>11. CASE Streams!OnStop
  <2>1. UNCHANGED <<buffer, streamed, webSockets, stream, senders, unsent>>
    BY <1>11 DEF Streams!OnStop
  <2> QED
    BY <2>1, WithinKept DEF Coming
<1> QED
  BY <1>1, <1>2, <1>3, <1>4, <1>5, <1>6, <1>7, <1>8, <1>9, <1>10, <1>11 DEF Streams!Next

LEMMA StreamStep == StreamInv /\ [Streams!Next]_streamVars => StreamInv'
  BY StreamTypeStep, BufferStep, SocketStep, WithinStep DEF StreamInv

LEMMA SameCardinality == \A S : Streams!Cardinality(S) = Cardinality(S)
  BY DEF Streams!Cardinality, Cardinality

\* With no task under way, what a stream has not got is what was pushed out of the buffer.
LEMMA StreamImplies == StreamInv => Streams!RecordsStreamed
<1> SUFFICES ASSUME StreamInv PROVE Streams!RecordsStreamed
  OBVIOUS
<1>1. buffer = [i \in 1..Len(buffer) |-> streamed - Len(buffer) + i]
  BY LenProperties DEF StreamInv, StreamType, BufferInv
<1>2. ASSUME senders = {}, NEW s \in Stream
      PROVE  ((stream[s].since)..streamed) \ (stream[s].got \cup unsent) = LiveLost(s)
  BY <1>2 DEF LiveLost, Coming
<1>3. ASSUME senders = {}, NEW s \in Stream, stream[s].at = "live"
      PROVE  Cardinality(((stream[s].since)..streamed) \ (stream[s].got \cup unsent)) <= stream[s].overtaken
  BY <1>2, <1>3 DEF StreamInv, Within
<1>4. Len(buffer) <= Room /\ webSockets = {s \in Stream : stream[s].at \in {"live", "closed"}}
  BY DEF StreamInv, BufferInv, SocketInv
<1> HIDE DEF StreamInv
<1> QED
  <2>1. buffer = [i \in 1..Len(buffer) |-> streamed - Len(buffer) + i] /\ Len(buffer) <= Room
    BY <1>1, <1>4
  <2>2. senders = {} =>
       \A s \in Stream : stream[s].at = "live" =>
         Streams!Cardinality(((stream[s].since)..streamed) \ (stream[s].got \cup unsent))
           <= stream[s].overtaken
    BY <1>3, SameCardinality
  <2>3. webSockets = {s \in Stream : stream[s].at \in {"live", "closed"}}
    BY <1>4
  <2> QED
    BY <2>1, <2>2, <2>3 DEF Streams!RecordsStreamed
-----------------------------------------------------------------------------
(* The lifecycle of the application.                                       *)

AppType ==
  /\ modules \in Seq(Module) /\ services \in Seq(Service)
  /\ finalized \in Seq(Application!Item)
  /\ left \in Nat /\ size \in Nat

\* What is finalized: of the first n services those after the first a, from the last one on, and then,
\* when no service is left, of the first m modules those after the first b.
Taken(n, a, m, b) ==
  /\ n <= Len(services) /\ a <= n /\ m <= Len(modules) /\ b <= m
  /\ b < m => a = 0
  /\ Len(finalized) = (n - a) + (m - b)
  /\ \A k \in 1..(n - a) : finalized[k] = services[n + 1 - k]
  /\ \A k \in 1..(m - b) : finalized[n - a + k] = modules[m + 1 - k]

ExitInv ==
  /\ phase \in {"construct", "init", "run"} =>
       finalized = <<>> /\ governor \notin {"exit", "finServices", "finModules", "sleep"}
  /\ governor = "exit" => finalized = <<>>
  /\ governor = "finServices" => Taken(size, left, 0, 0)
  /\ governor = "finModules" => \E m \in Nat : Taken(size, 0, m, left)
  /\ \E n, a, m, b \in Nat : Taken(n, a, m, b)

AppInv == AppType /\ ExitInv

\* What is registered later does not change what was finalized.
LEMMA TakenKept ==
  ASSUME AppType, NEW n \in Nat, NEW a \in Nat, NEW m \in Nat, NEW b \in Nat, Taken(n, a, m, b),
         UNCHANGED finalized,
         \/ UNCHANGED <<modules, services>>
         \/ UNCHANGED services /\ \E i \in Module : modules' = Append(modules, i)
         \/ UNCHANGED modules /\ \E i \in Service : services' = Append(services, i)
  PROVE  Taken(n, a, m, b)'
<1> USE DEF Taken
<1>0. modules \in Seq(Module) /\ services \in Seq(Service) /\ Len(modules) \in Nat /\ Len(services) \in Nat
  BY LenProperties DEF AppType
<1>1. CASE UNCHANGED <<modules, services>>
  BY <1>1
<1>2. ASSUME NEW i \in Module, modules' = Append(modules, i), UNCHANGED services PROVE Taken(n, a, m, b)'
  <2>1. Len(modules') = Len(modules) + 1 /\ \A k \in 1..Len(modules) : modules'[k] = modules[k]
    BY <1>0, <1>2, AppendFacts
  <2>2. \A k \in 1..(m - b) : m + 1 - k \in 1..Len(modules)
    BY <1>0
  <2> QED
    BY <1>0, <1>2, <2>1, <2>2
<1>3. ASSUME NEW i \in Service, services' = Append(services, i), UNCHANGED modules PROVE Taken(n, a, m, b)'
  <2>1. Len(services') = Len(services) + 1 /\ \A k \in 1..Len(services) : services'[k] = services[k]
    BY <1>0, <1>3, AppendFacts
  <2>2. \A k \in 1..(n - a) : n + 1 - k \in 1..Len(services)
    BY <1>0
  <2> QED
    BY <1>0, <1>3, <2>1, <2>2
<1> QED
  BY <1>1, <1>2, <1>3

\* The governor finalizes the next service, or the next module.
LEMMA TakeService ==
  ASSUME AppType, NEW n \in Nat, NEW a \in Nat, Taken(n, a, 0, 0), a > 0,
         finalized' = Append(finalized, services[a]), UNCHANGED <<modules, services>>
  PROVE  Taken(n, a - 1, 0, 0)'
<1>0. finalized \in Seq(Application!Item) /\ Len(services) \in Nat /\ services[a] \in Application!Item /\ Len(finalized) = n - a
      /\ a <= n /\ n <= Len(services) /\ \A k \in 1..(n - a) : finalized[k] = services[n + 1 - k]
  BY LenProperties DEF AppType, Taken, Application!Item
<1>1. Len(finalized') = n - a + 1 /\ finalized'[n - a + 1] = services[a] /\ \A k \in 1..(n - a) : finalized'[k] = finalized[k]
  <2>1. /\ Len(finalized') = Len(finalized) + 1 /\ finalized'[Len(finalized) + 1] = services[a]
        /\ \A k \in 1..Len(finalized) : finalized'[k] = finalized[k]
    <3>1. finalized \in Seq(Application!Item) /\ services[a] \in Application!Item
      BY <1>0
    <3> QED
      BY <3>1, AppendFacts
  <2> QED
    BY <1>0, <2>1
<1>2. ASSUME NEW k \in 1..(n - (a - 1)) PROVE finalized'[k] = services[n + 1 - k]
  <2>1. CASE k = n - a + 1
    BY <1>0, <1>1, <2>1
  <2>2. CASE k # n - a + 1
    <3>1. k \in 1..(n - a)
      BY <1>0, <2>2
    <3> QED
      BY <1>0, <1>1, <3>1
  <2> QED
    BY <2>1, <2>2
<1> QED
  BY <1>0, <1>1, <1>2, LenProperties DEF Taken, AppType

LEMMA TakeModule ==
  ASSUME AppType, NEW n \in Nat, NEW m \in Nat, NEW b \in Nat, Taken(n, 0, m, b), b > 0,
         finalized' = Append(finalized, modules[b]), UNCHANGED <<modules, services>>
  PROVE  Taken(n, 0, m, b - 1)'
<1>0. /\ finalized \in Seq(Application!Item) /\ Len(modules) \in Nat /\ modules[b] \in Application!Item /\ Len(finalized) = n + (m - b)
      /\ b <= m /\ m <= Len(modules) /\ n <= Len(services)
  BY LenProperties DEF AppType, Taken, Application!Item
<1>7. /\ \A i \in 1..n : finalized[i] = services[n + 1 - i]
      /\ \A i \in 1..(m - b) : finalized[n + i] = modules[m + 1 - i]
  <2>1. n - 0 = n
    OBVIOUS
  <2> QED
    BY <2>1 DEF Taken
<1>1. Len(finalized') = n + (m - b) + 1 /\ finalized'[n + (m - b) + 1] = modules[b] /\ \A k \in 1..(n + (m - b)) : finalized'[k] = finalized[k]
  <2>1. /\ Len(finalized') = Len(finalized) + 1 /\ finalized'[Len(finalized) + 1] = modules[b]
        /\ \A k \in 1..Len(finalized) : finalized'[k] = finalized[k]
    <3>1. finalized \in Seq(Application!Item) /\ modules[b] \in Application!Item
      BY <1>0
    <3> QED
      BY <3>1, AppendFacts
  <2> QED
    BY <1>0, <2>1
<1>2. ASSUME NEW k \in 1..(m - (b - 1)) PROVE finalized'[n + k] = modules[m + 1 - k]
  <2>0. m - (b - 1) = m - b + 1 /\ m - b \in Nat
    BY <1>0
  <2>1. CASE k = m - b + 1
    BY <1>0, <1>1, <2>1
  <2>2. CASE k # m - b + 1
    <3>1. k \in 1..(m - b)
      BY <2>0, <2>2
    <3>2. n + k \in 1..(n + (m - b))
      BY <2>0, <3>1
    <3>3. finalized'[n + k] = finalized[n + k]
      BY <1>1, <3>2
    <3>4. finalized[n + k] = modules[m + 1 - k]
      BY <3>1, <1>7
    <3> QED
      BY <3>3, <3>4
  <2> QED
    BY <2>1, <2>2
<1>3. \A k \in 1..n : finalized'[k] = services[n + 1 - k]
  BY <1>0, <1>1, <1>7
<1>4. /\ n <= Len(services') /\ 0 <= n /\ m <= Len(modules') /\ b - 1 <= m
      /\ Len(finalized') = (n - 0) + (m - (b - 1))
  BY <1>0, <1>1
<1>5. ASSUME NEW k \in 1..(n - 0) PROVE finalized'[k] = services'[n + 1 - k]
  <2>1. k \in 1..n /\ services' = services
    OBVIOUS
  <2> QED
    BY <1>3, <2>1
<1>6. ASSUME NEW k \in 1..(m - (b - 1)) PROVE finalized'[n - 0 + k] = modules'[m + 1 - k]
  <2>1. n - 0 + k = n + k
    OBVIOUS
  <2> QED
    BY <1>2, <2>1
<1> QED
  BY <1>4, <1>5, <1>6 DEF Taken

\* Of nothing nothing was finalized.
LEMMA TakenNothing ==
  ASSUME AppType, finalized = <<>>, NEW n \in Nat, n <= Len(services), NEW m \in Nat, m <= Len(modules)
  PROVE  Taken(n, n, 0, 0) /\ (n = 0 => Taken(n, 0, m, m))
  BY LenProperties DEF Taken, AppType

\* Where the governor goes when the services, or the modules, are finalized one after the other.
LEMMA FinalizeModulesStep ==
  ASSUME AppType, NEW k \in Nat, NEW n \in Nat, NEW m \in Nat, Taken(n, 0, m, k), Application!FinalizeModules(k),
         UNCHANGED <<modules, services>>, size' = n
  PROVE  /\ governor' \in {"finModules", "sleep"}
         /\ finalized' \in Seq(Application!Item) /\ left' \in Nat
         /\ governor' = "finModules" => \E j \in Nat : Taken(size, 0, j, left)'
         /\ \E c, a, j, b \in Nat : Taken(c, a, j, b)'
<1>1. CASE Application!FinalizeAt(modules, k) /\ governor' = "finModules"
  <2>1. k > 0 /\ finalized' = Append(finalized, modules[k]) /\ left' = k - 1 /\ k - 1 \in Nat
    BY <1>1 DEF Application!FinalizeAt
  <2>2. Taken(n, 0, m, k - 1)'
    BY <2>1, TakeModule
  <2>3. modules[k] \in Application!Item
    BY <2>1, LenProperties DEF Taken, AppType, Application!Item
  <2>4. finalized' \in Seq(Application!Item)
    BY <2>1, <2>3, AppendFacts DEF AppType
  <2>5. Taken(size, 0, m, left)'
    BY <2>1, <2>2
  <2> QED
    BY <1>1, <2>1, <2>2, <2>4, <2>5
<1>2. CASE k = 0 /\ left' = 0 /\ governor' = "sleep" /\ UNCHANGED finalized
  <2>1. Taken(n, 0, m, k)'
    BY <1>2, TakenKept
  <2> QED
    BY <1>2, <2>1 DEF AppType
<1> QED
  BY <1>1, <1>2 DEF Application!FinalizeModules

LEMMA FinalizeServicesStep ==
  ASSUME AppType, NEW k \in Nat, NEW n \in Nat, Taken(n, k, 0, 0), Application!FinalizeServices(k),
         UNCHANGED <<modules, services>>, size' = n
  PROVE  /\ governor' \in {"finServices", "finModules", "sleep"}
         /\ finalized' \in Seq(Application!Item) /\ left' \in Nat
         /\ governor' = "finServices" => Taken(size, left, 0, 0)'
         /\ governor' = "finModules" => \E j \in Nat : Taken(size, 0, j, left)'
         /\ \E c, a, j, b \in Nat : Taken(c, a, j, b)'
<1>1. CASE Application!FinalizeAt(services, k) /\ governor' = "finServices"
  <2>1. k > 0 /\ finalized' = Append(finalized, services[k]) /\ left' = k - 1 /\ k - 1 \in Nat
    BY <1>1 DEF Application!FinalizeAt
  <2>2. Taken(n, k - 1, 0, 0)'
    BY <2>1, TakeService
  <2>3. services[k] \in Application!Item
    BY <2>1, LenProperties DEF Taken, AppType, Application!Item
  <2>4. finalized' \in Seq(Application!Item)
    BY <2>1, <2>3, AppendFacts DEF AppType
  <2>5. Taken(size, left, 0, 0)'
    BY <2>1, <2>2
  <2> QED
    BY <1>1, <2>1, <2>2, <2>4, <2>5
<1>2. CASE k = 0 /\ Application!FinalizeModules(Len(modules))
  <2>1. Len(modules) \in Nat
    BY LenProperties DEF AppType
  <2>2. Taken(n, 0, Len(modules), Len(modules))
    BY <1>2, <2>1 DEF Taken
  <2> QED
    BY <1>2, <2>1, <2>2, FinalizeModulesStep
<1> QED
  BY <1>1, <1>2 DEF Application!FinalizeServices

\* A step that finalizes nothing, and leaves exit-time and its governor where they are or ends them.
LEMMA NothingFinalized ==
  ASSUME AppInv, UNCHANGED <<finalized, left, size>>,
         \/ UNCHANGED <<modules, services>>
         \/ UNCHANGED services /\ \E i \in Module : modules' = Append(modules, i)
         \/ UNCHANGED modules /\ \E i \in Service : services' = Append(services, i),
         phase' \in {"construct", "init", "run"} => 
           phase \in {"construct", "init", "run"} /\ governor' \notin {"exit", "finServices", "finModules", "sleep"},
         governor' = "exit" => governor = "exit" \/ phase = "run",
         governor' \in {"finServices", "finModules"} => governor' = governor
  PROVE  AppInv'
<1>1. AppType'
  <2>1. modules' \in Seq(Module) /\ services' \in Seq(Service)
    <3>1. modules \in Seq(Module) /\ services \in Seq(Service)
      BY DEF AppInv, AppType
    <3>2. CASE UNCHANGED <<modules, services>>
      BY <3>1, <3>2
    <3>3. ASSUME NEW i \in Module, modules' = Append(modules, i), UNCHANGED services PROVE modules' \in Seq(Module)
      BY <3>1, <3>3, AppendFacts
    <3>4. ASSUME NEW i \in Service, services' = Append(services, i), UNCHANGED modules PROVE services' \in Seq(Service)
      BY <3>1, <3>4, AppendFacts
    <3> QED
      BY <3>1, <3>2, <3>3, <3>4
  <2> QED
    BY <2>1 DEF AppInv, AppType
<1>2. ASSUME NEW n \in Nat, NEW a \in Nat, NEW m \in Nat, NEW b \in Nat, Taken(n, a, m, b) PROVE Taken(n, a, m, b)'
  BY <1>2, TakenKept DEF AppInv
<1>3. governor' = "finServices" => Taken(size, left, 0, 0)'
  <2>1. governor' = "finServices" => Taken(size, left, 0, 0)
    BY DEF AppInv, ExitInv
  <2>2. size \in Nat /\ left \in Nat /\ size' = size /\ left' = left
    BY DEF AppInv, AppType
  <2> QED
    BY <1>2, <2>1, <2>2
<1>4. governor' = "finModules" => \E m \in Nat : Taken(size, 0, m, left)'
  <2>1. governor' = "finModules" => \E m \in Nat : Taken(size, 0, m, left)
    BY DEF AppInv, ExitInv
  <2>2. size \in Nat /\ left \in Nat /\ size' = size /\ left' = left
    BY DEF AppInv, AppType
  <2> QED
    BY <1>2, <2>1, <2>2
<1>5. \E n, a, m, b \in Nat : Taken(n, a, m, b)'
  BY <1>2 DEF AppInv, ExitInv
<1> QED
  BY <1>1, <1>3, <1>4, <1>5 DEF AppInv, ExitInv

LEMMA EnsureInitializationStep ==
  ASSUME NEW goto, Application!EnsureInitialization(goto) \/ Application!EnsureServices(goto)
  PROVE  governor' \in {"modules", "services", goto}
  BY DEF Application!EnsureInitialization, Application!EnsureServices, Application!NextModule, Application!NextService, Application!NothingToInitialize

LEMMA AppStep == AppInv /\ [Application!Next]_appVars => AppInv'
<1> SUFFICES ASSUME AppInv, [Application!Next]_appVars PROVE AppInv'
  OBVIOUS
<1>0. ExitInv /\ AppType
  BY DEF AppInv
<1>1. CASE UNCHANGED appVars
  BY <1>0, <1>1, NothingFinalized DEF appVars, ExitInv
<1>2. ASSUME NEW m \in Module, Application!AddModule(m) PROVE AppInv'
  BY <1>0, <1>2, NothingFinalized DEF Application!AddModule, Application!governorVars, Application!history, ExitInv
<1>3. ASSUME NEW s \in Service, Application!RegisterService(s) PROVE AppInv'
  BY <1>0, <1>3, NothingFinalized DEF Application!RegisterService, Application!governorVars, Application!history, ExitInv
<1>4. ASSUME NEW c, NEW force \in BOOLEAN, Application!SetExitCode(c, force) PROVE AppInv'
  BY <1>0, <1>4, NothingFinalized DEF Application!SetExitCode, Application!governorVars, Application!history, Application!items, ExitInv
<1>5. ASSUME NEW c, Application!Stop(c) PROVE AppInv'
  BY <1>0, <1>5, NothingFinalized DEF Application!Stop, Application!StopWith, Application!governorVars, Application!history, Application!items, ExitInv
<1>6. CASE Application!AskRestart \/ Application!HookReturns \/ Application!HookFails
  BY <1>0, <1>6, NothingFinalized DEF Application!AskRestart, Application!HookReturns, Application!HookFails, Application!DieWithException,
     Application!governorVars, Application!history, Application!items, ExitInv
<1>7. CASE Application!StartInit \/ Application!StartRun
  <2>1. /\ governor' \in {"modules", "services", "returned", "wait"} /\ phase \in {"construct", "init"}
        /\ UNCHANGED <<modules, services, left, size, finalized>>
    BY <1>7, EnsureInitializationStep DEF Application!StartInit, Application!StartRun
  <2> QED
    BY <1>0, <2>1, NothingFinalized DEF ExitInv
<1>8. CASE Application!StartExit \/ Application!End \/ Application!StopWaited \/ Application!Slept \/ Application!ServicesChanged
  BY <1>0, <1>8, NothingFinalized DEF Application!StartExit, Application!End, Application!StopWaited, Application!Slept, Application!ServicesChanged, 
     Application!DieWithException, Application!governorVars, Application!history, Application!items, ExitInv
<1>9. CASE Application!ModuleInitialized \/ Application!ServiceInitialized \/ Application!Tick \/ Application!TickRestart
  <2>1. /\ governor' \in {"modules", "services", "returned", "wait"} /\ phase \in {"init", "run"}
        /\ UNCHANGED <<modules, services, left, size, finalized>>
    BY <1>9, EnsureInitializationStep DEF Application!ModuleInitialized, Application!ServiceInitialized, Application!Tick, Application!TickRestart,
       Application!Goto, Application!TickDue
  <2> QED
    BY <1>0, <2>1, NothingFinalized DEF ExitInv
<1>10. CASE Application!ExitBegin
  <2>1. /\ phase' = "exit" /\ size' = Len(services) /\ Application!FinalizeServices(Len(services))
        /\ UNCHANGED <<modules, services>> /\ finalized = <<>> /\ Len(services) \in Nat
    BY <1>0, <1>10, LenProperties DEF Application!ExitBegin, Application!items, ExitInv, AppType
  <2>2. Taken(Len(services), Len(services), 0, 0)
    BY <1>0, <2>1, TakenNothing
  <2> QED
    BY <1>0, <2>1, <2>2, FinalizeServicesStep DEF AppInv, AppType, ExitInv
<1>11. CASE Application!ServiceFinalized
  <2>1. /\ phase' = "exit" /\ size' = size /\ Application!FinalizeServices(left)
        /\ UNCHANGED <<modules, services>> /\ Taken(size, left, 0, 0) /\ left \in Nat /\ size \in Nat
    BY <1>0, <1>11 DEF Application!ServiceFinalized, Application!items, ExitInv, AppType
  <2> QED
    BY <1>0, <2>1, FinalizeServicesStep DEF AppInv, AppType, ExitInv
<1>12. CASE Application!ModuleFinalized
  <2>1. /\ phase' = "exit" /\ size' = size /\ Application!FinalizeModules(left)
        /\ UNCHANGED <<modules, services>> /\ left \in Nat /\ size \in Nat
    BY <1>0, <1>12 DEF Application!ModuleFinalized, Application!items, AppType
  <2>2. PICK m \in Nat : Taken(size, 0, m, left)
    BY <1>0, <1>12 DEF Application!ModuleFinalized, ExitInv
  <2> QED
    BY <1>0, <2>1, <2>2, FinalizeModulesStep DEF AppInv, AppType, ExitInv
<1> QED
  BY <1>1, <1>2, <1>3, <1>4, <1>5, <1>6, <1>7, <1>8, <1>9, <1>10, <1>11, <1>12
     DEF Application!Next, Application!Run, Application!Governor, Application!Calls

LEMMA AppImplies == AppInv => Application!FinalizedInReverse
<1> SUFFICES ASSUME AppInv PROVE Application!FinalizedInReverse
  OBVIOUS
<1>1. PICK n \in Nat, a \in Nat, m \in Nat, b \in Nat : Taken(n, a, m, b)
  BY DEF AppInv, ExitInv
<1> DEFINE order == modules \o services
           place(k) == IF k <= n - a THEN Len(modules) + n + 1 - k ELSE m + 1 - (k - (n - a))
<1>2. /\ modules \in Seq(Application!Item) /\ services \in Seq(Application!Item)
      /\ Len(modules) \in Nat /\ Len(services) \in Nat /\ DOMAIN finalized = 1..Len(finalized)
      /\ DOMAIN modules = 1..Len(modules) /\ DOMAIN services = 1..Len(services)
  BY LenProperties, SeqMonotonic DEF AppInv, AppType, Application!Item
<1>3. /\ DOMAIN order = 1..(Len(modules) + Len(services))
      /\ \A i \in 1..Len(modules) : order[i] = modules[i]
      /\ \A i \in 1..Len(services) : order[Len(modules) + i] = services[i]
  BY <1>2, ConcatProperties, LenProperties
<1> HIDE DEF order
<1>4. ASSUME NEW k \in DOMAIN finalized 
      PROVE  /\ place(k) \in DOMAIN order /\ order[place(k)] = finalized[k]
             /\ finalized[k] \in Application!Range(modules) \cup Application!Range(services)
  <2>1. CASE k <= n - a
    <3>1. k \in 1..(n - a) /\ n + 1 - k \in 1..Len(services) /\ finalized[k] = services[n + 1 - k]
      BY <1>1, <1>2, <2>1 DEF Taken
    <3>2. place(k) = Len(modules) + (n + 1 - k)
      BY <1>2, <2>1, <3>1
    <3> QED
      BY <1>2, <1>3, <3>1, <3>2 DEF Application!Range
  <2>2. CASE ~(k <= n - a)
    <3>1. /\ k - (n - a) \in 1..(m - b) /\ m + 1 - (k - (n - a)) \in 1..Len(modules)
          /\ finalized[n - a + (k - (n - a))] = modules[m + 1 - (k - (n - a))]
      <4>1. k \in Nat /\ k <= (n - a) + (m - b) /\ k >= n - a + 1 /\ n - a \in Nat /\ m - b \in Nat /\ m <= Len(modules)
        BY <1>1, <1>2, <2>2 DEF Taken
      <4>2. k - (n - a) \in 1..(m - b)
        BY <4>1
      <4>3. m + 1 - (k - (n - a)) \in 1..Len(modules)
        BY <1>2, <4>1, <4>2
      <4> QED
        BY <1>1, <4>2, <4>3 DEF Taken
    <3>2. n - a + (k - (n - a)) = k
      BY <1>1, <1>2
    <3>3. place(k) = m + 1 - (k - (n - a))
      BY <2>2
    <3> QED
      BY <1>2, <1>3, <3>1, <3>2, <3>3 DEF Application!Range
  <2> QED
    BY <2>1, <2>2
<1>5. ASSUME NEW j \in DOMAIN finalized, NEW k \in DOMAIN finalized, j < k PROVE place(k) < place(j)
  <2>1. j \in Nat /\ k \in Nat /\ j >= 1 /\ k <= (n - a) + (m - b) /\ n - a \in Nat /\ m - b \in Nat /\ m <= Len(modules)
    BY <1>1, <1>2 DEF Taken
  <2>2. CASE k <= n - a
    BY <1>2, <1>5, <2>1, <2>2
  <2>3. CASE ~(k <= n - a) /\ j <= n - a
    <3>1. place(k) = m + 1 - (k - (n - a)) /\ place(j) = Len(modules) + n + 1 - j
      BY <2>3
    <3>2. a >= 0 /\ k - (n - a) >= 1
      BY <1>1, <2>1, <2>3
    <3> QED
      BY <1>1, <1>2, <2>1, <2>3, <3>1, <3>2
  <2>4. CASE ~(k <= n - a) /\ ~(j <= n - a)
    BY <1>2, <1>5, <2>1, <2>4
  <2> QED
    BY <2>2, <2>3, <2>4
<1>6. ASSUME NEW j \in DOMAIN finalized, NEW k \in DOMAIN finalized, j < k
      PROVE  Application!Before(finalized[k], finalized[j])
  <2> HIDE DEF place
  <2>1. place(k) \in DOMAIN order /\ place(j) \in DOMAIN order /\ place(k) < place(j)
        /\ order[place(k)] = finalized[k] /\ order[place(j)] = finalized[j]
    BY <1>4, <1>5, <1>6
  <2> QED
    BY <2>1 DEF Application!Before, order
<1>7. Application!Range(finalized) \subseteq Application!Range(modules) \cup Application!Range(services)
  BY <1>4 DEF Application!Range
<1> QED
  BY <1>6, <1>7 DEF Application!FinalizedInReverse
-----------------------------------------------------------------------------
(* The files of the configuration.                                         *)

Read == File \cup {Defaults, Node}
CallOfTraverse == [items : Seq(Config!Items), matches : SUBSET File]

ConfigType ==
  /\ includes \in [File \cup {Node} -> Seq(Config!Items)]
  /\ reads \in Seq(Read) /\ included \in SUBSET File
  /\ stack \in Seq(CallOfTraverse)

\* The calls under way, the files that were read, what a file names, and what a call has yet to
\* come to.
Elements(t) == {t[k] : k \in DOMAIN t}
FilesIn(rs) == Elements(rs) \cap File
Names(h, links) == UNION {g \in Globs : g \in Elements(links[h])}
ToCome(c) == c.matches \cup UNION {g \in Globs : g \in Elements(c.items)}
Unread(under) == {f \in File : \E k \in DOMAIN under : f \in ToCome(under[k])}

\* Every set that has what MainFile and its own files name.
Closed(S, links) == \A h \in {MainFile} \cup S : Names(h, links) \subseteq S
Reached(links) == {f \in File : \A S \in SUBSET File : Closed(S, links) => f \in S}

PhaseInv ==
  /\ loading \in {"begin", "include", "done", "exited"}
  /\ loading = "begin" => reads = <<>> /\ included = {} /\ stack = <<>>
  /\ loading = "include" => stack # <<>>
  /\ loading = "done" => stack = <<>>

\* MainFile is the second, if any; without it there is nothing to include.
FirstInv ==
  /\ Len(reads) >= 1 => reads[1] = Defaults
  /\ Len(reads) >= 2 => reads[2] = MainFile
  /\ Len(reads) < 2 => included = {} /\ \A k \in DOMAIN stack : stack[k] = Config!Frame(<<>>)
  /\ FilesIn(reads) = included \cup (IF Len(reads) >= 2 THEN {MainFile} ELSE {})

\* What is to come was named by a file that was read, and what such a file names is included
\* or is to come.
SoundInv ==
  /\ \A f \in Unread(stack) : \E h \in FilesIn(reads) : f \in Names(h, includes)
  /\ included \subseteq Reached(includes)
AfterInv ==
  \A i \in DOMAIN reads : i > 2 /\ reads[i] # Node =>
     \E j \in 1..(i - 1) : reads[j] \in File /\ reads[i] \in Names(reads[j], includes)
CompleteInv ==
  \A h \in FilesIn(reads) : Names(h, includes) \subseteq included \cup Unread(stack)

TimesIn(f, rs) == Cardinality({i \in DOMAIN rs : rs[i] = f})
TimesInv ==
  \A f \in File :
     TimesIn(f, reads) = (IF f = MainFile /\ Len(reads) >= 2 THEN 1 ELSE 0) + (IF f \in included THEN 1 ELSE 0)

ConfigInv == ConfigType /\ PhaseInv /\ FirstInv /\ SoundInv /\ AfterInv /\ CompleteInv /\ TimesInv

LEMMA TopReplaced ==
  ASSUME NEW S, NEW s \in Seq(S), s # <<>>
  PROVE  /\ Tail(s) \in Seq(S) /\ Head(s) \in S
         /\ Elements(s) = {Head(s)} \cup Elements(Tail(s))
         /\ \A x \in S : /\ <<x>> \o Tail(s) \in Seq(S) /\ <<x>> \o Tail(s) # <<>>
                         /\ Elements(<<x>> \o Tail(s)) = {x} \cup Elements(Tail(s))
         /\ \A x, y \in S : /\ <<x, y>> \o Tail(s) \in Seq(S) /\ <<x, y>> \o Tail(s) # <<>>
                            /\ Elements(<<x, y>> \o Tail(s)) = {x, y} \cup Elements(Tail(s))
<1> USE DEF Elements
<1> DEFINE r == Tail(s)
           n == Len(s) - 1
<1>1. /\ Head(s) = s[1] /\ Head(s) \in S /\ r \in Seq(S) /\ n \in Nat /\ Len(r) = n
      /\ DOMAIN s = 1..(n + 1) /\ DOMAIN r = 1..n /\ \A i \in 1..n : r[i] = s[i + 1]
  BY TailFacts
<1> HIDE DEF r, n
<1>2. Elements(s) = {Head(s)} \cup Elements(r)
  <2>1. ASSUME NEW i \in 1..(n + 1) PROVE s[i] = Head(s) \/ s[i] \in Elements(r)
    <3>1. CASE i # 1
      <4>1. i - 1 \in 1..n /\ (i - 1) + 1 = i
        BY <1>1, <3>1
      <4>2. r[i - 1] = s[i]
        BY <1>1, <4>1
      <4> QED
        BY <1>1, <4>1, <4>2
    <3> QED
      BY <1>1, <3>1
  <2>2. ASSUME NEW i \in 1..n PROVE r[i] \in Elements(s)
    <3>1. i + 1 \in 1..(n + 1) /\ r[i] = s[i + 1]
      BY <1>1
    <3> QED
      BY <1>1, <3>1
  <2>3. s[1] \in Elements(s)
    BY <1>1
  <2> QED
    BY <1>1, <2>1, <2>2, <2>3
<1>3. ASSUME NEW u \in Seq(S), u # <<>>
      PROVE  u \o r \in Seq(S) /\ u \o r # <<>> /\ Elements(u \o r) = Elements(u) \cup Elements(r)
  <2>1. /\ u \o r \in Seq(S) /\ Len(u \o r) = Len(u) + n /\ Len(u) \in Nat /\ Len(u) # 0
        /\ \A i \in 1..(Len(u) + n) : (u \o r)[i] = IF i <= Len(u) THEN u[i] ELSE r[i - Len(u)]
    <3>1. Len(u) \in Nat /\ Len(u) # 0
      BY <1>3, LenProperties, EmptySeq
    <3>2. /\ u \o r \in Seq(S) /\ Len(u \o r) = Len(u) + Len(r)
          /\ \A i \in 1..(Len(u) + Len(r)) : (u \o r)[i] = IF i <= Len(u) THEN u[i] ELSE r[i - Len(u)]
      BY <1>1, ConcatProperties
    <3> QED
      BY <1>1, <3>1, <3>2
  <2>2. DOMAIN (u \o r) = 1..(Len(u) + n) /\ DOMAIN u = 1..Len(u) /\ u \o r # <<>>
    BY <1>1, <2>1, LenProperties, EmptySeq
  <2> DEFINE v == u \o r  m == Len(u)
  <2> HIDE DEF v, m
  <2>3. /\ m \in Nat /\ DOMAIN v = 1..(m + n) /\ DOMAIN u = 1..m
        /\ \A i \in 1..(m + n) : v[i] = IF i <= m THEN u[i] ELSE r[i - m]
    BY <2>1, <2>2 DEF v, m
  <2>4. ASSUME NEW i \in 1..(m + n) PROVE v[i] \in Elements(u) \cup Elements(r)
    <3>1. CASE i <= m
      BY <2>3, <3>1
    <3>2. CASE i > m
      <4>1. i - m \in 1..n
        BY <1>1, <2>3, <3>2
      <4>2. v[i] = r[i - m]
        BY <1>1, <2>3, <3>2
      <4>3. r[i - m] \in Elements(r)
        BY <1>1, <4>1
      <4> QED
        BY <4>2, <4>3
    <3> QED
      BY <1>1, <2>3, <3>1, <3>2
  <2>5. ASSUME NEW i \in 1..m PROVE u[i] \in Elements(v)
    <3>1. i \in 1..(m + n) /\ i <= m
      BY <1>1, <2>3
    <3> QED
      BY <2>3, <3>1
  <2>6. ASSUME NEW i \in 1..n PROVE r[i] \in Elements(v)
    <3>1. i + m \in 1..(m + n) /\ ~(i + m <= m) /\ (i + m) - m = i
      BY <1>1, <2>3
    <3> QED
      BY <2>3, <3>1
  <2>7. Elements(v) = Elements(u) \cup Elements(r)
    <3>1. \A x \in Elements(v) : x \in Elements(u) \cup Elements(r)
      BY <2>3, <2>4
    <3>2. \A x \in Elements(u) : x \in Elements(v)
      BY <2>3, <2>5
    <3>3. \A x \in Elements(r) : x \in Elements(v)
      BY <1>1, <2>6
    <3> HIDE DEF Elements
    <3> QED
      BY <3>1, <3>2, <3>3
  <2> QED
    BY <2>1, <2>2, <2>7 DEF v
<1>4. ASSUME NEW x \in S PROVE <<x>> \in Seq(S) /\ <<x>> # <<>> /\ Elements(<<x>>) = {x}
  OBVIOUS
<1>5. ASSUME NEW x \in S, NEW y \in S PROVE <<x, y>> \in Seq(S) /\ <<x, y>> # <<>> /\ Elements(<<x, y>>) = {x, y}
  <2>1. DOMAIN <<x, y>> = {1, 2}
    OBVIOUS
  <2> QED
    BY <2>1
<1> HIDE DEF Elements
<1>6. ASSUME NEW x \in S
      PROVE  /\ <<x>> \o r \in Seq(S) /\ <<x>> \o r # <<>>
             /\ Elements(<<x>> \o r) = {x} \cup Elements(r)
  BY <1>3, <1>4
<1>7. ASSUME NEW x \in S, NEW y \in S
      PROVE  /\ <<x, y>> \o r \in Seq(S) /\ <<x, y>> \o r # <<>>
             /\ Elements(<<x, y>> \o r) = {x, y} \cup Elements(r)
  BY <1>3, <1>5
<1> QED
  BY <1>1, <1>2, <1>6, <1>7 DEF r

LEMMA AppendRead ==
  ASSUME NEW rs \in Seq(Read), NEW x \in Read
  PROVE  /\ Append(rs, x) \in Seq(Read) /\ Len(Append(rs, x)) = Len(rs) + 1 /\ Len(rs) \in Nat
         /\ FilesIn(Append(rs, x)) = FilesIn(rs) \cup ({x} \cap File)
         /\ \A f : TimesIn(f, rs) \in Nat /\ TimesIn(f, Append(rs, x)) = TimesIn(f, rs) + (IF f = x THEN 1 ELSE 0)
<1> DEFINE t == Append(rs, x)  n == Len(rs)
<1>1. /\ t \in Seq(Read) /\ Len(t) = n + 1 /\ n \in Nat /\ DOMAIN rs = 1..n /\ DOMAIN t = 1..(n + 1)
      /\ t[n + 1] = x /\ \A i \in 1..n : t[i] = rs[i]
  BY AppendFacts
<1> HIDE DEF t, n
<1>2. 1..(n + 1) = 1..n \cup {n + 1} /\ n + 1 \notin 1..n
  BY <1>1
<1>3. Elements(t) = Elements(rs) \cup {x}
  BY <1>1, <1>2 DEF Elements
<1>4. ASSUME NEW f PROVE TimesIn(f, rs) \in Nat /\ TimesIn(f, t) = TimesIn(f, rs) + (IF f = x THEN 1 ELSE 0)
  <2> DEFINE P == {i \in DOMAIN rs : rs[i] = f}  Q == {i \in DOMAIN t : t[i] = f}
  <2>1. IsFiniteSet(1..n)
    BY <1>1, FS_Interval
  <2>2. P \subseteq 1..n
    BY <1>1
  <2>3. IsFiniteSet(P) /\ Cardinality(P) \in Nat /\ n + 1 \notin P
    BY <1>2, <2>1, <2>2, FS_Subset, FS_CardinalityType
  <2>4. Q = IF f = x THEN P \cup {n + 1} ELSE P
    BY <1>1, <1>2
  <2>7. TimesIn(f, rs) = Cardinality(P) /\ TimesIn(f, t) = Cardinality(Q)
    BY DEF TimesIn
  <2> HIDE DEF P, Q
  <2>5. CASE f = x
    BY <2>3, <2>4, <2>5, <2>7, FS_AddElement
  <2>6. CASE f # x
    BY <2>3, <2>4, <2>6, <2>7
  <2> QED
    BY <2>5, <2>6
<1> QED
  BY <1>1, <1>3, <1>4 DEF FilesIn, t, n

\* What is reached is closed.
LEMMA ReachedClosed == ASSUME NEW links, ConfigAssumption PROVE
  \A h \in {MainFile} \cup Reached(links) : Names(h, links) \subseteq Reached(links)
<1> SUFFICES ASSUME NEW h \in {MainFile} \cup Reached(links), NEW f \in Names(h, links) PROVE f \in Reached(links)
  OBVIOUS
<1>1. f \in File
  BY ConfigAssumption DEF Names
<1>2. ASSUME NEW S \in SUBSET File, Closed(S, links) PROVE f \in S
  <2>1. h \in {MainFile} \cup S
    BY <1>2 DEF Reached
  <2> QED
    BY <1>2, <2>1 DEF Closed
<1> QED
  BY <1>1, <1>2 DEF Reached

LEMMA TopCall ==
  ASSUME ConfigType, stack # <<>>
  PROVE  /\ Config!Top \in CallOfTraverse /\ Tail(stack) \in Seq(CallOfTraverse)
         /\ Unread(stack) = (ToCome(Config!Top) \cap File) \cup Unread(Tail(stack))
         /\ Elements(stack) = {Config!Top} \cup Elements(Tail(stack))
         /\ \A c \in CallOfTraverse :
              /\ <<c>> \o Tail(stack) \in Seq(CallOfTraverse) /\ <<c>> \o Tail(stack) # <<>>
              /\ Unread(<<c>> \o Tail(stack)) = (ToCome(c) \cap File) \cup Unread(Tail(stack))
              /\ Elements(<<c>> \o Tail(stack)) = {c} \cup Elements(Tail(stack))
         /\ \A c, d \in CallOfTraverse :
              /\ <<c, d>> \o Tail(stack) \in Seq(CallOfTraverse) /\ <<c, d>> \o Tail(stack) # <<>>
              /\ Unread(<<c, d>> \o Tail(stack)) = ((ToCome(c) \cup ToCome(d)) \cap File) \cup Unread(Tail(stack))
<1> DEFINE r == Tail(stack)
<1>1. stack \in Seq(CallOfTraverse)
  BY DEF ConfigType
<1>2. \A t : Unread(t) = {f \in File : \E c \in Elements(t) : f \in ToCome(c)}
  BY DEF Unread, Elements
<1> HIDE DEF CallOfTraverse
<1>3. /\ Config!Top \in CallOfTraverse /\ r \in Seq(CallOfTraverse)
      /\ Elements(stack) = {Config!Top} \cup Elements(r)
  BY <1>1, TopReplaced DEF Config!Top
<1>4. \A c \in CallOfTraverse :
         /\ <<c>> \o r \in Seq(CallOfTraverse) /\ <<c>> \o r # <<>>
         /\ Elements(<<c>> \o r) = {c} \cup Elements(r)
  BY <1>1, TopReplaced
<1>5. \A c, d \in CallOfTraverse :
         /\ <<c, d>> \o r \in Seq(CallOfTraverse) /\ <<c, d>> \o r # <<>>
         /\ Elements(<<c, d>> \o r) = {c, d} \cup Elements(r)
  BY <1>1, TopReplaced
<1> HIDE DEF r
<1>6. Unread(stack) = (ToCome(Config!Top) \cap File) \cup Unread(r)
  BY <1>2, <1>3
<1>7. \A c \in CallOfTraverse : Unread(<<c>> \o r) = (ToCome(c) \cap File) \cup Unread(r)
  BY <1>2, <1>4
<1>8. \A c, d \in CallOfTraverse : Unread(<<c, d>> \o r) = ((ToCome(c) \cup ToCome(d)) \cap File) \cup Unread(r)
  BY <1>2, <1>5
<1> QED
  BY <1>3, <1>4, <1>5, <1>6, <1>7, <1>8 DEF r

\* A step that reads nothing and loses nothing that is to come.
LEMMA StackStep ==
  ASSUME ConfigInv, UNCHANGED <<includes, reads, included>>, stack' \in Seq(CallOfTraverse),
         Unread(stack') \subseteq Unread(stack), Unread(stack) \subseteq Unread(stack') \cup included,
         PhaseInv',
         Len(reads) < 2 => \A k \in DOMAIN stack' : stack'[k] = Config!Frame(<<>>)
  PROVE  ConfigInv'
<1>1. ConfigType /\ FirstInv /\ SoundInv /\ AfterInv /\ CompleteInv /\ TimesInv
  BY DEF ConfigInv
<1>2. ConfigType' /\ AfterInv' /\ TimesInv'
  BY <1>1 DEF ConfigType, AfterInv, TimesInv
<1>3. FirstInv'
  BY <1>1 DEF FirstInv
<1>4. SoundInv' /\ CompleteInv'
  BY <1>1 DEF SoundInv, CompleteInv
<1> QED
  BY <1>2, <1>3, <1>4 DEF ConfigInv

\* The items of a call are those of its option that are left; the next one, and the rest.
LEMMA NextItem ==
  ASSUME NEW items \in Seq(Config!Items), items # <<>>
  PROVE  /\ Head(items) \in Config!Items /\ Tail(items) \in Seq(Config!Items)
         /\ Elements(items) = {Head(items)} \cup Elements(Tail(items))
  BY TopReplaced

LEMMA EmptyCalls ==
  /\ Unread(<<>>) = {} /\ ToCome(Config!Frame(<<>>)) = {}
  /\ \A items : ToCome(Config!Frame(items)) = UNION {g \in Globs : g \in Elements(items)}
  BY DEF Unread, ToCome, Config!Frame, Elements

LEMMA LoadStep ==
  ASSUME ConfigInv, Config!Load
  PROVE  ConfigInv'
<1> USE ConfigAssumption
<1>1. ConfigType /\ reads = <<>> /\ included = {} /\ stack = <<>>
  BY DEF ConfigInv, PhaseInv, Config!Load
<1>2. PICK given \in BOOLEAN :
        /\ option' = IF given THEN includes[MainFile] ELSE <<>>
        /\ reads' = IF given THEN <<Defaults, MainFile>> ELSE <<Defaults>>
        /\ stack' = <<Config!Frame(option')>> /\ loading' = "include" /\ UNCHANGED <<includes, included>>
  BY DEF Config!Load
<1>3. option' \in Seq(Config!Items)
  <2>1. includes[MainFile] \in Seq(Config!Items) /\ <<>> \in Seq(Config!Items)
    BY <1>1 DEF ConfigType
  <2> QED
    BY <1>2, <2>1
<1> DEFINE c == Config!Frame(option')
<1>4. c \in CallOfTraverse /\ ToCome(c) = UNION {g \in Globs : g \in Elements(option')}
  BY <1>3, EmptyCalls DEF Config!Frame, CallOfTraverse
<1> HIDE DEF c
<1>5. stack' = <<c>> /\ stack' \in Seq(CallOfTraverse) /\ stack' # <<>> /\ DOMAIN stack' = {1} /\ stack'[1] = c
  BY <1>2, <1>4 DEF c
<1>6. Unread(stack') = UNION {g \in Globs : g \in Elements(option')}
  <2>1. ToCome(c) \subseteq File
    BY <1>4
  <2> QED
    BY <1>4, <1>5, <2>1 DEF Unread
<1>7. PhaseInv'
  BY <1>2, <1>5 DEF PhaseInv
<1>8. CASE given
  <2>1. reads' = <<Defaults, MainFile>> /\ reads' \in Seq(Read) /\ Len(reads') = 2 /\ DOMAIN reads' = {1, 2}
        /\ reads'[1] = Defaults /\ reads'[2] = MainFile /\ option' = includes[MainFile]
    BY <1>2, <1>8 DEF Read
  <2>2. ConfigType'
    BY <1>1, <1>2, <1>5, <2>1 DEF ConfigType
  <2>3. FilesIn(reads') = {MainFile}
    BY <2>1 DEF FilesIn, Elements
  <2>4. FirstInv'
    <3>1. included' = {} /\ FilesIn(reads') = included' \cup {MainFile}
      BY <1>1, <1>2, <2>3
    <3> QED
      BY <2>1, <3>1 DEF FirstInv
  <2>5. Unread(stack') = Names(MainFile, includes)
    BY <1>6, <2>1 DEF Names
  <2>6. SoundInv' /\ CompleteInv' /\ AfterInv'
    BY <1>1, <1>2, <2>1, <2>3, <2>5 DEF SoundInv, CompleteInv, AfterInv
  <2>7. TimesInv'
    <3>1. ASSUME NEW f \in File PROVE TimesIn(f, reads') = IF f = MainFile THEN 1 ELSE 0
      <4>1. {i \in DOMAIN reads' : reads'[i] = f} = IF f = MainFile THEN {2} ELSE {}
        BY <2>1
      <4>2. Cardinality({2}) = 1 /\ Cardinality({}) = 0
        BY FS_Singleton, FS_EmptySet
      <4> QED
        BY <4>1, <4>2 DEF TimesIn
    <3> QED
      BY <1>1, <1>2, <2>1, <3>1 DEF TimesInv
  <2> QED
    BY <1>7, <2>2, <2>4, <2>6, <2>7 DEF ConfigInv
<1>9. CASE ~given
  <2>1. reads' = <<Defaults>> /\ reads' \in Seq(Read) /\ Len(reads') = 1 /\ DOMAIN reads' = {1}
        /\ reads'[1] = Defaults /\ option' = <<>>
    BY <1>2, <1>9 DEF Read
  <2>2. ConfigType'
    BY <1>1, <1>2, <1>5, <2>1 DEF ConfigType
  <2>3. FilesIn(reads') = {}
    BY <2>1 DEF FilesIn, Elements
  <2>4. FirstInv'
    <3>1. included' = {} /\ FilesIn(reads') = included' \cup {}
      BY <1>1, <1>2, <2>3
    <3>2. \A k \in DOMAIN stack' : stack'[k] = Config!Frame(<<>>)
      BY <1>5, <2>1 DEF c
    <3> QED
      BY <2>1, <3>1, <3>2 DEF FirstInv
  <2>5. Unread(stack') = {}
    BY <1>6, <2>1 DEF Elements
  <2>6. SoundInv' /\ CompleteInv' /\ AfterInv'
    BY <1>1, <1>2, <2>1, <2>3, <2>5 DEF SoundInv, CompleteInv, AfterInv
  <2>7. TimesInv'
    <3>1. ASSUME NEW f \in File PROVE TimesIn(f, reads') = 0
      <4>1. {i \in DOMAIN reads' : reads'[i] = f} = {}
        BY <2>1
      <4> QED
        BY <4>1, FS_EmptySet DEF TimesIn
    <3> QED
      BY <1>1, <1>2, <2>1, <3>1 DEF TimesInv
  <2> QED
    BY <1>7, <2>2, <2>4, <2>6, <2>7 DEF ConfigInv
<1> QED
  BY <1>8, <1>9

\* A call that has something to come: MainFile was read.
LEMMA SomeItems ==
  ASSUME ConfigInv, stack # <<>>, Config!Top # Config!Frame(<<>>)
  PROVE  Len(reads) >= 2
<1>1. Len(reads) \in Nat /\ stack[1] = Config!Top /\ 1 \in DOMAIN stack
  BY TailFacts, LenProperties DEF ConfigInv, ConfigType, Config!Top
<1> QED
  BY <1>1 DEF ConfigInv, FirstInv

LEMMA ZooKeeperStep ==
  ASSUME ConfigInv, Config!IncludeFromZooKeeper
  PROVE  ConfigInv'
<1> USE ConfigAssumption
<1> DEFINE top == Config!Top  r == Tail(stack)  c == Config!Frame(Tail(top.items))
<1>1. /\ ConfigType /\ PhaseInv /\ FirstInv /\ SoundInv /\ AfterInv /\ CompleteInv /\ TimesInv
      /\ loading = "include" /\ stack # <<>> /\ top \in CallOfTraverse
      /\ top.matches = {} /\ top.items # <<>> /\ Head(top.items) = Node
      /\ reads' = Append(reads, Node) /\ stack' = <<c>> \o r /\ UNCHANGED <<includes, included, loading>>
  BY TopCall DEF ConfigInv, PhaseInv, Config!IncludeFromZooKeeper
<1>2. top.items \in Seq(Config!Items) /\ Tail(top.items) \in Seq(Config!Items)
      /\ Elements(top.items) = {Node} \cup Elements(Tail(top.items))
  BY <1>1, NextItem DEF CallOfTraverse
<1>3. c \in CallOfTraverse /\ ToCome(c) = ToCome(top)
  <2>1. c \in CallOfTraverse
    BY <1>2 DEF Config!Frame, CallOfTraverse
  <2>2. ToCome(c) = UNION {g \in Globs : g \in Elements(Tail(top.items))}
    BY EmptyCalls
  <2>3. ToCome(top) = UNION {g \in Globs : g \in Elements(Tail(top.items))}
    BY <1>1, <1>2 DEF ToCome
  <2> QED
    BY <2>1, <2>2, <2>3
<1> HIDE DEF c, r
<1>4. stack' \in Seq(CallOfTraverse) /\ stack' # <<>> /\ Unread(stack') = Unread(stack)
  <2>1. /\ Unread(stack) = (ToCome(top) \cap File) \cup Unread(r)
        /\ Unread(<<c>> \o r) = (ToCome(c) \cap File) \cup Unread(r)
        /\ <<c>> \o r \in Seq(CallOfTraverse) /\ <<c>> \o r # <<>>
    BY <1>1, <1>3, TopCall DEF r
  <2> QED
    BY <1>1, <1>3, <2>1
<1>5. Len(reads) >= 2
  BY <1>1, SomeItems DEF Config!Frame
<1>6. /\ reads' \in Seq(Read) /\ Len(reads') = Len(reads) + 1 /\ Len(reads) \in Nat
      /\ FilesIn(reads') = FilesIn(reads)
      /\ \A f \in File : TimesIn(f, reads') = TimesIn(f, reads)
  <2>1. reads \in Seq(Read) /\ Node \in Read /\ {Node} \cap File = {}
    BY <1>1 DEF ConfigType, Read
  <2>2. \A f \in File : f # Node
    OBVIOUS
  <2> QED
    <3> HIDE DEF Read
    <3>1. /\ reads' \in Seq(Read) /\ Len(reads') = Len(reads) + 1 /\ Len(reads) \in Nat
          /\ FilesIn(reads') = FilesIn(reads) \cup ({Node} \cap File)
          /\ \A f : TimesIn(f, reads) \in Nat /\ TimesIn(f, reads') = TimesIn(f, reads) + (IF f = Node THEN 1 ELSE 0)
      BY <1>1, <2>1, AppendRead
    <3> QED
      BY <2>1, <2>2, <3>1
<1>7. /\ DOMAIN reads = 1..Len(reads) /\ DOMAIN reads' = 1..(Len(reads) + 1) /\ reads'[Len(reads) + 1] = Node
      /\ \A i \in 1..Len(reads) : reads'[i] = reads[i]
  BY <1>1, AppendFacts DEF ConfigType, Read
<1>8. ConfigType' /\ PhaseInv'
  BY <1>1, <1>4, <1>6 DEF ConfigType, PhaseInv
<1>9. FirstInv'
  BY <1>1, <1>5, <1>6, <1>7 DEF FirstInv
<1>10. SoundInv' /\ CompleteInv'
  BY <1>1, <1>4, <1>6 DEF SoundInv, CompleteInv
<1>11. AfterInv'
  <2> SUFFICES ASSUME NEW i \in DOMAIN reads', i > 2, reads'[i] # Node
               PROVE  \E j \in 1..(i - 1) : reads'[j] \in File /\ reads'[i] \in Names(reads'[j], includes)
    BY <1>1 DEF AfterInv
  <2>1. i \in 1..Len(reads) /\ reads'[i] = reads[i] /\ \A j \in 1..(i - 1) : reads'[j] = reads[j]
    BY <1>6, <1>7
  <2> QED
    BY <1>1, <1>7, <2>1 DEF AfterInv
<1>12. TimesInv'
  BY <1>1, <1>5, <1>6 DEF TimesInv
<1> QED
  BY <1>8, <1>9, <1>10, <1>11, <1>12 DEF ConfigInv

LEMMA IncludeStep ==
  ASSUME ConfigInv, NEW f \in File, Config!Include(f)
  PROVE  ConfigInv'
<1> USE ConfigAssumption
<1> DEFINE top == Config!Top  r == Tail(stack)  c == Config!Frame(includes[f])
           d == [top EXCEPT !.matches = @ \ {f}]
<1>1. /\ ConfigType /\ PhaseInv /\ FirstInv /\ SoundInv /\ AfterInv /\ CompleteInv /\ TimesInv
      /\ loading = "include" /\ stack # <<>> /\ top \in CallOfTraverse
      /\ f \in top.matches /\ f \notin included /\ included' = included \cup {f}
      /\ reads' = Append(reads, f) /\ stack' = <<c, d>> \o r /\ UNCHANGED <<includes, loading>>
  BY TopCall DEF ConfigInv, PhaseInv, Config!Include
<1>2. c \in CallOfTraverse /\ ToCome(c) = Names(f, includes)
  <2>1. includes[f] \in Seq(Config!Items)
    BY <1>1 DEF ConfigType
  <2>2. c \in CallOfTraverse
    BY <2>1 DEF Config!Frame, CallOfTraverse
  <2> QED
    BY <2>2, EmptyCalls DEF Names
<1>3. d \in CallOfTraverse /\ ToCome(d) \subseteq ToCome(top) /\ ToCome(top) \subseteq ToCome(d) \cup {f} /\ f \in ToCome(top)
  BY <1>1 DEF CallOfTraverse, ToCome
<1> HIDE DEF c, d, r
<1>4. /\ stack' \in Seq(CallOfTraverse) /\ stack' # <<>> /\ f \in Unread(stack)
      /\ Unread(stack') \subseteq Unread(stack) \cup Names(f, includes)
      /\ Unread(stack) \subseteq Unread(stack') \cup {f} /\ Names(f, includes) \subseteq Unread(stack')
  <2>1. /\ Unread(stack) = (ToCome(top) \cap File) \cup Unread(r)
        /\ Unread(<<c, d>> \o r) = ((ToCome(c) \cup ToCome(d)) \cap File) \cup Unread(r)
        /\ <<c, d>> \o r \in Seq(CallOfTraverse) /\ <<c, d>> \o r # <<>>
    BY <1>1, <1>2, <1>3, TopCall DEF r
  <2>2. Names(f, includes) \subseteq File
    BY DEF Names
  <2> QED
    BY <1>1, <1>2, <1>3, <2>1, <2>2
<1>5. Len(reads) >= 2
  <2>1. top # Config!Frame(<<>>)
    BY <1>1 DEF Config!Frame
  <2> QED
    BY <1>1, <2>1, SomeItems
<1>6. /\ reads' \in Seq(Read) /\ Len(reads') = Len(reads) + 1 /\ Len(reads) \in Nat
      /\ FilesIn(reads') = FilesIn(reads) \cup {f}
      /\ \A g \in File : TimesIn(g, reads) \in Nat /\ TimesIn(g, reads') = TimesIn(g, reads) + (IF g = f THEN 1 ELSE 0)
  <2>1. reads \in Seq(Read) /\ f \in Read /\ {f} \cap File = {f}
    BY <1>1 DEF ConfigType, Read
  <2> HIDE DEF Read
  <2>2. /\ reads' \in Seq(Read) /\ Len(reads') = Len(reads) + 1 /\ Len(reads) \in Nat
        /\ FilesIn(reads') = FilesIn(reads) \cup ({f} \cap File)
        /\ \A g : TimesIn(g, reads) \in Nat /\ TimesIn(g, reads') = TimesIn(g, reads) + (IF g = f THEN 1 ELSE 0)
    BY <1>1, <2>1, AppendRead
  <2> QED
    BY <2>1, <2>2
<1>7. /\ DOMAIN reads = 1..Len(reads) /\ DOMAIN reads' = 1..(Len(reads) + 1) /\ reads'[Len(reads) + 1] = f
      /\ \A i \in 1..Len(reads) : reads'[i] = reads[i]
  BY <1>1, AppendFacts DEF ConfigType, Read
<1>8. PICK h \in FilesIn(reads) : f \in Names(h, includes)
  BY <1>1, <1>4 DEF SoundInv
<1>9. ConfigType' /\ PhaseInv'
  BY <1>1, <1>4, <1>6 DEF ConfigType, PhaseInv
<1>10. FirstInv'
  <2>1. FilesIn(reads') = included' \cup {MainFile}
    BY <1>1, <1>5, <1>6 DEF FirstInv
  <2> QED
    BY <1>1, <1>5, <1>6, <1>7, <2>1 DEF FirstInv
<1>11. SoundInv'
  <2>1. h \in {MainFile} \cup Reached(includes)
    BY <1>1, <1>5, <1>8 DEF FirstInv, SoundInv
  <2>2. f \in Reached(includes)
    BY <1>8, <2>1, ReachedClosed
  <2> QED
    BY <1>1, <1>4, <1>6, <2>2 DEF SoundInv
<1>12. CompleteInv'
  BY <1>1, <1>4, <1>6 DEF CompleteInv
<1>13. AfterInv'
  <2> SUFFICES ASSUME NEW i \in DOMAIN reads', i > 2, reads'[i] # Node
               PROVE  \E j \in 1..(i - 1) : reads'[j] \in File /\ reads'[i] \in Names(reads'[j], includes)
    BY <1>1 DEF AfterInv
  <2>1. CASE i \in 1..Len(reads)
    <3>1. reads'[i] = reads[i] /\ \A j \in 1..(i - 1) : reads'[j] = reads[j]
      BY <1>6, <1>7, <2>1
    <3> QED
      BY <1>1, <1>7, <2>1, <3>1 DEF AfterInv
  <2>2. CASE i = Len(reads) + 1
    <3>1. PICK j \in 1..Len(reads) : reads[j] = h /\ h \in File
      BY <1>7, <1>8 DEF FilesIn, Elements
    <3>2. j \in 1..(i - 1) /\ reads'[j] = h /\ reads'[i] = f
      BY <1>6, <1>7, <2>2, <3>1
    <3> QED
      BY <1>8, <3>1, <3>2
  <2> QED
    BY <1>6, <1>7, <2>1, <2>2
<1>14. TimesInv'
  BY <1>1, <1>5, <1>6 DEF TimesInv
<1> QED
  BY <1>9, <1>10, <1>11, <1>12, <1>13, <1>14 DEF ConfigInv

LEMMA ConfigStep == ConfigInv /\ [Config!Next]_confVars => ConfigInv'
<1> SUFFICES ASSUME ConfigInv, [Config!Next]_confVars PROVE ConfigInv'
  OBVIOUS
<1> USE ConfigAssumption
<1>1. ConfigType /\ PhaseInv /\ FirstInv /\ SoundInv /\ AfterInv /\ CompleteInv /\ TimesInv
  BY DEF ConfigInv
<1> DEFINE top == Config!Top  r == Tail(stack)
<1>2. loading = "include" => stack # <<>>
  BY <1>1 DEF PhaseInv
<1>3. CASE Config!LoadFails \/ Config!IncludeFromZooKeeperFails \/ UNCHANGED confVars
  <2>1. UNCHANGED <<includes, reads, included, stack>> /\ loading' \in {loading, "exited"}
    BY <1>3 DEF Config!LoadFails, Config!IncludeFromZooKeeperFails, confVars
  <2> QED
    BY <1>1, <2>1 DEF ConfigInv, ConfigType, PhaseInv, FirstInv, SoundInv, AfterInv, CompleteInv, TimesInv
<1>4. CASE Config!NextGlob
  <2> DEFINE c == [items |-> Tail(top.items), matches |-> Head(top.items)]
  <2>1. /\ loading = "include" /\ top.matches = {} /\ top.items # <<>> /\ Head(top.items) # Node
        /\ stack' = <<c>> \o r /\ UNCHANGED <<includes, option, reads, included, loading>>
    BY <1>4 DEF Config!NextGlob
  <2>2. top \in CallOfTraverse /\ top.items \in Seq(Config!Items)
    BY <1>1, <1>2, <2>1, TopCall DEF CallOfTraverse
  <2>3. /\ Head(top.items) \in Globs /\ Tail(top.items) \in Seq(Config!Items)
        /\ Elements(top.items) = {Head(top.items)} \cup Elements(Tail(top.items))
    BY <2>1, <2>2, NextItem DEF Config!Items
  <2>4. c \in CallOfTraverse
    BY <2>3 DEF CallOfTraverse
  <2>5. ToCome(c) = ToCome(top)
    BY <2>1, <2>3 DEF ToCome
  <2> HIDE DEF c
  <2>6. stack' \in Seq(CallOfTraverse) /\ stack' # <<>> /\ Unread(stack') = Unread(stack)
    BY <1>1, <1>2, <2>1, <2>4, <2>5, TopCall
  <2>7. Len(reads) >= 2
    <3>1. top # Config!Frame(<<>>)
      BY <2>1 DEF Config!Frame
    <3> QED
      BY <1>2, <2>1, <3>1, SomeItems
  <2>8. PhaseInv' /\ Len(reads) \in Nat
    BY <1>1, <2>1, <2>6, LenProperties DEF PhaseInv, ConfigType
  <2> QED
    BY <2>1, <2>6, <2>7, <2>8, StackStep
<1>5. ASSUME NEW f \in File, Config!IncludedBefore(f) PROVE ConfigInv'
  <2> DEFINE c == [top EXCEPT !.matches = @ \ {f}]
  <2>1. /\ loading = "include" /\ f \in top.matches /\ f \in included
        /\ stack' = <<c>> \o r /\ UNCHANGED <<includes, option, reads, included, loading>>
    BY <1>5 DEF Config!IncludedBefore
  <2>2. top \in CallOfTraverse
    BY <1>1, <1>2, <2>1, TopCall
  <2>3. c \in CallOfTraverse /\ ToCome(c) \subseteq ToCome(top) /\ ToCome(top) \subseteq ToCome(c) \cup {f}
    BY <2>1, <2>2 DEF CallOfTraverse, ToCome
  <2> HIDE DEF c
  <2>4. /\ stack' \in Seq(CallOfTraverse) /\ stack' # <<>> /\ Unread(stack') \subseteq Unread(stack)
        /\ Unread(stack) \subseteq Unread(stack') \cup included
    <3>1. /\ Unread(stack) = (ToCome(top) \cap File) \cup Unread(r)
          /\ Unread(<<c>> \o r) = (ToCome(c) \cap File) \cup Unread(r)
          /\ <<c>> \o r \in Seq(CallOfTraverse) /\ <<c>> \o r # <<>>
      BY <1>1, <1>2, <2>1, <2>3, TopCall
    <3> QED
      BY <2>1, <2>3, <3>1
  <2>7. Len(reads) >= 2
    <3>1. top # Config!Frame(<<>>)
      BY <2>1 DEF Config!Frame
    <3> QED
      BY <1>2, <2>1, <3>1, SomeItems
  <2>8. PhaseInv' /\ Len(reads) \in Nat
    BY <1>1, <2>1, <2>4, LenProperties DEF PhaseInv, ConfigType
  <2> QED
    BY <2>1, <2>4, <2>7, <2>8, StackStep
<1>6. CASE Config!Return
  <2>1. /\ loading = "include" /\ top = Config!Frame(<<>>) /\ stack' = r
        /\ loading' = (IF r = <<>> THEN "done" ELSE "include") /\ UNCHANGED <<includes, option, reads, included>>
    BY <1>6 DEF Config!Return
  <2>2. r \in Seq(CallOfTraverse) /\ Unread(stack) = (ToCome(top) \cap File) \cup Unread(r)
        /\ Elements(stack) = {top} \cup Elements(r)
    BY <1>1, <1>2, <2>1, TopCall
  <2>3. ToCome(top) = {}
    BY <2>1, EmptyCalls
  <2>4. PhaseInv'
    BY <2>1 DEF PhaseInv
  <2>5. Len(reads) < 2 => \A k \in DOMAIN stack' : stack'[k] = Config!Frame(<<>>)
    BY <1>1, <2>1, <2>2 DEF FirstInv, Elements
  <2> QED
    BY <2>1, <2>2, <2>3, <2>4, <2>5, StackStep
<1> QED
  BY <1>3, <1>4, <1>5, <1>6, LoadStep, ZooKeeperStep, IncludeStep DEF Config!Next, Config!LoadStep

LEMMA ConfigImplies == ConfigInv => Config!IncludedOnce
<1> SUFFICES ASSUME ConfigInv PROVE Config!IncludedOnce
  OBVIOUS
<1> USE ConfigAssumption
<1>1. ConfigType /\ PhaseInv /\ FirstInv /\ SoundInv /\ AfterInv /\ CompleteInv /\ TimesInv
  BY DEF ConfigInv
<1>2. \A S : Config!Cardinality(S) = Cardinality(S)
  BY DEF Config!Cardinality, Cardinality
<1>3. \A f : Config!Times(f) = TimesIn(f, reads)
  BY <1>2 DEF Config!Times, TimesIn
<1>4. /\ \A h : Config!Named({h}) = Names(h, includes)
      /\ \A F, f : f \in Config!Named(F) <=> \E h \in F : f \in Names(h, includes)
  BY DEF Config!Named, Config!Range, Names, Elements
<1>5. Config!Reachable = Reached(includes)
  <2>1. \A S \in SUBSET File : Config!Named({MainFile} \cup S) \subseteq S <=> Closed(S, includes)
    BY <1>4 DEF Closed
  <2> QED
    BY <2>1 DEF Config!Reachable, Reached
<1>6. \A f \in File : Config!Times(f) <= (IF f = MainFile THEN 2 ELSE 1)
  BY <1>1, <1>3 DEF TimesInv
<1>7. \A i \in DOMAIN reads : i > 2 /\ reads[i] # Node =>
       \E j \in 1..(i - 1) : reads[j] \in File /\ reads[i] \in Config!Named({reads[j]})
  BY <1>1, <1>4 DEF AfterInv
<1>8. ASSUME loading = "done", MainFile \in Config!Range(reads), NEW f \in File
      PROVE  Config!Times(f) = (IF f = MainFile THEN 1 ELSE 0) + (IF f \in Config!Reachable THEN 1 ELSE 0)
  <2>1. MainFile \in FilesIn(reads)
    BY <1>8 DEF Config!Range, FilesIn, Elements
  <2>2. Len(reads) >= 2
    BY <1>1, <2>1, LenProperties DEF FirstInv, ConfigType
  <2>3. Unread(stack) = {}
    BY <1>1, <1>8, EmptyCalls DEF PhaseInv
  <2>4. Closed(included, includes)
    BY <1>1, <2>2, <2>3 DEF Closed, CompleteInv, FirstInv
  <2>5. included = Reached(includes)
    BY <1>1, <2>4 DEF SoundInv, Reached, ConfigType
  <2> QED
    BY <1>1, <1>3, <1>5, <2>2, <2>5 DEF TimesInv
<1> QED
  BY <1>6, <1>7, <1>8 DEF Config!IncludedOnce
-----------------------------------------------------------------------------
(* PubSub.  First what is left of a list when references are removed from it.  *)

KeptFun(s, gone) ==
  CHOOSE f : f = [n \in 0..Len(s) |->
    IF n = 0 THEN <<>> ELSE IF s[n] \in gone THEN f[n - 1] ELSE Append(f[n - 1], s[n])]

LEMMA KeptDefined ==
  ASSUME NEW T, NEW s \in Seq(T), NEW gone
  PROVE  /\ Messages!Without(s, gone) = KeptFun(s, gone)[Len(s)]
         /\ KeptFun(s, gone) = [n \in 0..Len(s) |->
              IF n = 0 THEN <<>>
              ELSE IF s[n] \in gone THEN KeptFun(s, gone)[n - 1]
              ELSE Append(KeptFun(s, gone)[n - 1], s[n])]
<1>1. Messages!Without(s, gone) = KeptFun(s, gone)[Len(s)]
  BY DEF Messages!Without, KeptFun
<1> DEFINE Body(f, n) == IF n = 0 THEN <<>> ELSE IF s[n] \in gone THEN f[n - 1] ELSE Append(f[n - 1], s[n])
           Upto == {k \in Nat : \E f : f = [n \in 0..k |-> Body(f, n)]}
<1>2. 0 \in Upto
  <2> DEFINE f == [n \in 0..0 |-> <<>>]
  <2>1. f = [n \in 0..0 |-> Body(f, n)]
    OBVIOUS
  <2> QED
    BY <2>1
<1>3. ASSUME NEW k \in Nat, k \in Upto PROVE k + 1 \in Upto
  <2>1. PICK f : f = [n \in 0..k |-> Body(f, n)]
    BY <1>3
  <2> DEFINE g == [n \in 0..(k + 1) |-> IF n = k + 1 THEN Body(f, n) ELSE f[n]]
  <2>2. ASSUME NEW n \in 0..(k + 1) PROVE g[n] = Body(g, n)
    <3>1. n = 0 \/ g[n - 1] = f[n - 1]
      OBVIOUS
    <3>2. Body(g, n) = Body(f, n)
      BY <3>1
    <3>3. n = k + 1 \/ n \in 0..k
      OBVIOUS
    <3> HIDE DEF Body
    <3>4. \A i \in 0..k : f[i] = Body(f, i)
      BY <2>1, Zenon
    <3>5. g[n] = IF n = k + 1 THEN Body(f, n) ELSE f[n]
      OBVIOUS
    <3> QED
      BY <3>2, <3>3, <3>4, <3>5
  <2> HIDE DEF Body
  <2>3. g = [n \in 0..(k + 1) |-> Body(g, n)]
    BY <2>2
  <2> HIDE DEF g
  <2> QED
    BY <2>3
<1>4. Len(s) \in Upto
  BY <1>2, <1>3, AllNumbers, LenProperties
<1>5. \E f : f = [n \in 0..Len(s) |-> Body(f, n)]
  BY <1>4
<1> QED
  BY <1>1, <1>5 DEF KeptFun

\* What is left of a list is in the old order, and each of it was before at most as many
\* places later as were removed.
Embeds(t, s, n, gone) ==
  \E e \in [1..Len(t) -> 1..n] :
     \A i \in 1..Len(t) : t[i] = s[e[i]] /\ s[e[i]] \notin gone /\ e[i] <= i + (n - Len(t))

LEMMA WithoutEmbeds ==
  ASSUME NEW T, NEW s \in Seq(T), NEW gone
  PROVE  /\ Messages!Without(s, gone) \in Seq(T)
         /\ Len(Messages!Without(s, gone)) <= Len(s)
         /\ Embeds(Messages!Without(s, gone), s, Len(s), gone)
<1> DEFINE kept == KeptFun(s, gone)
           Good(n) == kept[n] \in Seq(T) /\ Len(kept[n]) <= n /\ Embeds(kept[n], s, n, gone)
           Known == {n \in Nat : n <= Len(s) => Good(n)}
<1> USE LenProperties
<1>1. \A n \in 0..Len(s) : kept[n] = IF n = 0 THEN <<>>
              ELSE IF s[n] \in gone THEN kept[n - 1]
              ELSE Append(kept[n - 1], s[n])
  <2> DEFINE Body(f, n) == IF n = 0 THEN <<>> ELSE IF s[n] \in gone THEN f[n - 1] ELSE Append(f[n - 1], s[n])
  <2>1. kept = [n \in 0..Len(s) |-> Body(kept, n)]
    BY KeptDefined
  <2> HIDE DEF kept
  <2>2. \A n \in 0..Len(s) : kept[n] = Body(kept, n)
    <3> HIDE DEF Body
    <3> QED
      BY <2>1, Zenon
  <2> QED
    BY <2>2
<1> HIDE DEF kept
<1>2. 0 \in Known
  <2>1. kept[0] = <<>>
    BY <1>1
  <2>2. <<>> \in Seq(T) /\ Len(<<>>) = 0
    BY EmptySeq
  <2>3. Embeds(<<>>, s, 0, gone)
    <3> DEFINE e == [i \in 1..Len(<<>>) |-> 0]
    <3>1. 1..Len(<<>>) = {} /\ e \in [1..Len(<<>>) -> 1..0]
      BY <2>2
    <3> HIDE DEF e
    <3>2. \A i \in 1..Len(<<>>) : <<>>[i] = s[e[i]] /\ s[e[i]] \notin gone /\ e[i] <= i + (0 - Len(<<>>))
      BY <3>1
    <3> QED
      BY <3>1, <3>2 DEF Embeds
  <2>4. Good(0)
    BY <2>1, <2>2, <2>3
  <2> QED
    BY <2>4
<1>3. ASSUME NEW n \in Nat, n \in Known PROVE n + 1 \in Known
  <2> SUFFICES ASSUME n + 1 <= Len(s) PROVE Good(n + 1)
    OBVIOUS
  <2> DEFINE t == kept[n]  u == kept[n + 1]
  <2>1. t \in Seq(T) /\ Len(t) <= n /\ Embeds(t, s, n, gone)
    BY <1>3
  <2>2. u = IF s[n + 1] \in gone THEN t ELSE Append(t, s[n + 1])
    <3>1. n + 1 \in 0..Len(s) /\ n + 1 # 0 /\ (n + 1) - 1 = n
      OBVIOUS
    <3> QED
      BY <1>1, <3>1
  <2> HIDE DEF t, u
  <2>3. PICK e \in [1..Len(t) -> 1..n] :
          \A i \in 1..Len(t) : t[i] = s[e[i]] /\ s[e[i]] \notin gone /\ e[i] <= i + (n - Len(t))
    BY <2>1 DEF Embeds
  <2>4. CASE s[n + 1] \in gone
    <3>1. e \in [1..Len(t) -> 1..(n + 1)]
      OBVIOUS
    <3>2. \A i \in 1..Len(t) : e[i] <= i + ((n + 1) - Len(t))
      BY <2>1, <2>3
    <3>3. Embeds(t, s, n + 1, gone)
      BY <2>3, <3>1, <3>2 DEF Embeds
    <3> QED
      BY <2>1, <2>2, <2>4, <3>3 DEF u
  <2>5. CASE s[n + 1] \notin gone
    <3>1. s[n + 1] \in T
      OBVIOUS
    <3>2. u = Append(t, s[n + 1])
      BY <2>2, <2>5
    <3>3. u \in Seq(T) /\ Len(u) = Len(t) + 1 /\ u[Len(t) + 1] = s[n + 1] /\ Len(t) \in Nat
          /\ \A i \in 1..Len(t) : u[i] = t[i]
      BY <2>1, <3>1, <3>2, AppendFacts
    <3> DEFINE d == [i \in 1..Len(u) |-> IF i = Len(u) THEN n + 1 ELSE e[i]]
    <3>4. d \in [1..Len(u) -> 1..(n + 1)]
      BY <3>3
    <3>5. ASSUME NEW i \in 1..Len(u)
          PROVE  u[i] = s[d[i]] /\ s[d[i]] \notin gone /\ d[i] <= i + ((n + 1) - Len(u))
      <4>1. CASE i = Len(u)
        BY <2>1, <2>5, <3>3, <4>1
      <4>2. CASE i # Len(u)
        <5>1. i \in 1..Len(t) /\ d[i] = e[i]
          BY <3>3, <4>2
        <5> QED
          BY <2>1, <2>3, <3>3, <5>1
      <4> QED
        BY <4>1, <4>2
    <3> HIDE DEF d
    <3>6. Embeds(u, s, n + 1, gone)
      BY <3>4, <3>5 DEF Embeds
    <3> QED
      BY <2>1, <3>3, <3>6 DEF u
  <2> QED
    BY <2>4, <2>5
<1> HIDE DEF Known
<1>4. Nat \subseteq Known
  BY <1>2, <1>3, AllNumbers
<1>5. Good(Len(s))
  BY <1>4 DEF Known
<1> QED
  BY <1>5, KeptDefined DEF kept

\* Others than the list of Subscribers have been emptied.
OthersEmpty == \A k \in DOMAIN lists : k # current => lists[k] = <<>>

\* Whom a publication has passed by: those that it should have called, at a place of the list
\* that it is past.
Passed(f, list, targets, living) ==
  {r \in f.start : /\ targets[r] \in living /\ ~\E i \in 1..Len(f.called) : f.called[i] = r
                   /\ \E i \in 1..Len(list) : i <= f.pos /\ list[i] = r}

PassedInv ==
  \A k \in DOMAIN frames :
     Cardinality(Passed(frames[k], lists[frames[k].list], target, alive)) <= frames[k].removed

MessageInv == Messages!TypeOK /\ OthersEmpty /\ PassedInv

LEMMA SeqGrows ==
  ASSUME NEW S, NEW T, S \subseteq T, NEW s \in Seq(S)
  PROVE  s \in Seq(T)
<1>1. Len(s) \in Nat /\ s \in [1..Len(s) -> T]
  BY LenProperties
<1> QED
  BY <1>1

LEMMA MapSeq ==
  ASSUME NEW S, NEW n \in Nat, NEW f \in [1..n -> S]
  PROVE  f \in Seq(S) /\ Len(f) = n /\ DOMAIN f = 1..n
  OBVIOUS

LEMMA MessageTypes ==
  ASSUME Messages!TypeOK
  PROVE  /\ Len(target) \in Nat /\ DOMAIN target = 1..Len(target)
         /\ Len(lists) \in Nat /\ DOMAIN lists = 1..Len(lists)
         /\ \A k \in 1..Len(lists) : lists[k] \in Seq(Messages!Ref) /\ Len(lists[k]) \in Nat
         /\ Len(frames) \in Nat /\ DOMAIN frames = 1..Len(frames)
         /\ \A k \in 1..Len(frames) : frames[k] \in Messages!Frame
         /\ frames # <<>> => Len(frames) \in 1..Len(frames) /\ Messages!Top \in Messages!Frame
<1> USE LenProperties DEF Messages!TypeOK
<1>1. Len(frames) \in Nat /\ DOMAIN frames = 1..Len(frames) /\ \A k \in 1..Len(frames) : frames[k] \in Messages!Frame
  OBVIOUS
<1>2. frames # <<>> => Len(frames) # 0
  BY EmptySeq
<1>3. Len(lists) \in Nat /\ DOMAIN lists = 1..Len(lists) /\ lists \in [1..Len(lists) -> Seq(Messages!Ref)]
  OBVIOUS
<1>4. \A k \in 1..Len(lists) : lists[k] \in Seq(Messages!Ref) /\ Len(lists[k]) \in Nat
  BY <1>3
<1> QED
  BY <1>1, <1>2, <1>3, <1>4 DEF Messages!Top

\* More references and more lists: what was typed is typed.
LEMMA TypesGrow ==
  ASSUME Messages!TypeOK, Len(target) <= Len(target'), Len(lists) <= Len(lists'), Len(target') \in Nat, Len(lists') \in Nat
  PROVE  /\ Messages!Ref \subseteq Messages!Ref' /\ Messages!Frame \subseteq Messages!Frame'
         /\ Seq(Messages!Ref) \subseteq Seq(Messages!Ref')
<1>1. Messages!Ref \subseteq Messages!Ref'
  BY MessageTypes DEF Messages!Ref
<1>2. Seq(Messages!Ref) \subseteq Seq(Messages!Ref')
  BY <1>1, SeqGrows
<1>3. 1..Len(lists) \subseteq 1..Len(lists') /\ SUBSET Messages!Ref \subseteq SUBSET Messages!Ref'
  BY <1>1, MessageTypes
<1>4. ASSUME NEW f \in Messages!Frame PROVE f \in Messages!Frame'
  <2> HIDE DEF Messages!Ref
  <2>1. f.list \in 1..Len(lists') /\ f.dead \in Seq(Messages!Ref') /\ f.called \in Seq(Messages!Ref')
    BY <1>1, <1>2, <1>3 DEF Messages!Frame
  <2>2. f.start \in SUBSET Messages!Ref' /\ f.inCall \in Messages!Ref' \cup {0}
    BY <1>1, <1>2, <1>3 DEF Messages!Frame
  <2>3. f.pos \in Nat /\ f.removed \in Nat
        /\ f = [list |-> f.list, pos |-> f.pos, dead |-> f.dead, inCall |-> f.inCall,
                start |-> f.start, called |-> f.called, removed |-> f.removed]
    BY DEF Messages!Frame
  <2> QED
    BY <2>1, <2>2, <2>3 DEF Messages!Frame
<1> QED
  BY <1>1, <1>2, <1>4

\* A part of those that were passed, and those of the n places after: at most n more.
LEMMA CountShift ==
  ASSUME NEW m \in Nat, NEW P \in SUBSET (1..m), NEW T, NEW s \in Seq(T), NEW p \in Nat, NEW n \in Nat, NEW Q,
         \A r \in Q : r \in P \/ \E i \in 1..Len(s) : i \in (p + 1)..(p + n) /\ s[i] = r
  PROVE  Cardinality(Q) <= Cardinality(P) + n
<1> DEFINE D == ((p + 1)..(p + n)) \cap 1..Len(s)
           E == {s[i] : i \in D}
           f == [i \in D |-> s[i]]
<1>1. IsFiniteSet(P) /\ Cardinality(P) \in Nat
  <2>1. IsFiniteSet(1..m)
    BY FS_Interval
  <2> QED
    BY <2>1, FS_Subset, FS_CardinalityType
<1>2. IsFiniteSet((p + 1)..(p + n)) /\ Cardinality((p + 1)..(p + n)) = n
  BY FS_Interval
<1>3. IsFiniteSet(D) /\ Cardinality(D) <= n /\ Cardinality(D) \in Nat
  BY <1>2, FS_Subset, FS_CardinalityType
<1>4. f \in Surjection(D, E)
  BY DEF Surjection
<1>5. IsFiniteSet(E) /\ Cardinality(E) <= Cardinality(D) /\ Cardinality(E) \in Nat
  BY <1>3, <1>4, FS_Surjection, FS_CardinalityType
<1>6. IsFiniteSet(P \cup E) /\ Cardinality(P \cup E) <= Cardinality(P) + Cardinality(E) /\ Cardinality(P \cup E) \in Nat
  <2>1. IsFiniteSet(P \cap E) /\ Cardinality(P \cap E) \in Nat
    BY <1>1, FS_Subset, FS_CardinalityType
  <2> HIDE DEF E
  <2>2. IsFiniteSet(P \cup E) /\ Cardinality(P \cup E) = Cardinality(P) + Cardinality(E) - Cardinality(P \cap E)
    BY <1>1, <1>5, FS_Union
  <2> QED
    BY <1>1, <1>5, <2>1, <2>2, FS_CardinalityType
<1>7. Q \subseteq P \cup E
  BY LenProperties
<1>8. Cardinality(Q) <= Cardinality(P \cup E) /\ Cardinality(Q) \in Nat
  BY <1>6, <1>7, FS_Subset, FS_CardinalityType
<1> QED
  BY <1>1, <1>3, <1>5, <1>6, <1>8

LEMMA SubscribeStep ==
  ASSUME MessageInv, NEW c \in Callback, Messages!Subscribe(c)
  PROVE  MessageInv'
<1> DEFINE n == Len(target)
<1>1. Messages!TypeOK /\ OthersEmpty /\ PassedInv
  BY DEF MessageInv
<1>2. /\ target \in Seq(Callback) /\ lists \in Seq(Seq(Messages!Ref)) /\ current \in 0..Len(lists)
      /\ frames \in Seq(Messages!Frame) /\ alive \subseteq Callback
  BY <1>1 DEF Messages!TypeOK
<1>3. /\ target' = Append(target, c) /\ UNCHANGED <<alive, frames>>
      /\ target' \in Seq(Callback) /\ Len(target') = n + 1 /\ n \in Nat
      /\ \A r \in 1..n : target'[r] = target[r]
  <2>1. target' = Append(target, c) /\ UNCHANGED <<alive, frames>>
    BY DEF Messages!Subscribe
  <2> QED
    BY <1>2, <2>1, AppendFacts
<1>4. Messages!Ref = 1..n /\ Messages!Ref' = 1..(n + 1)
  BY <1>3 DEF Messages!Ref
<1>5. /\ lists' \in Seq(Seq(Messages!Ref')) /\ Len(lists) <= Len(lists') /\ Len(lists') \in Nat
      /\ current' \in 0..Len(lists')
      /\ \A k \in 1..Len(lists) : lists'[k] \in {lists[k], Append(lists[k], n + 1)}
      /\ OthersEmpty'
  <2>1. ASSUME NEW q \in Seq(1..n) PROVE q \in Seq(1..(n + 1)) /\ Append(q, n + 1) \in Seq(1..(n + 1))
    BY <1>3, SeqGrows, AppendFacts
  <2>2. lists \in Seq(Seq(1..(n + 1)))
    BY <1>2, <1>4, <2>1, SeqGrows
  <2>3. CASE current = 0
    <3>1. lists' = Append(lists, <<n + 1>>) /\ current' = Len(lists')
      BY <1>3, <2>3 DEF Messages!Subscribe
    <3>2. <<n + 1>> \in Seq(1..(n + 1))
      BY <1>3
    <3>3. /\ lists' \in Seq(Seq(1..(n + 1))) /\ Len(lists') = Len(lists) + 1 /\ Len(lists) \in Nat
          /\ DOMAIN lists = 1..Len(lists) /\ DOMAIN lists' = 1..(Len(lists) + 1)
          /\ \A k \in 1..Len(lists) : lists'[k] = lists[k]
      BY <2>2, <3>1, <3>2, AppendFacts
    <3>4. ASSUME NEW k \in DOMAIN lists', k # current' PROVE lists'[k] = <<>>
      BY <1>1, <2>3, <3>1, <3>3, <3>4 DEF OthersEmpty
    <3> QED
      BY <1>4, <3>1, <3>3, <3>4 DEF OthersEmpty
  <2>4. CASE current # 0
    <3>1. lists' = [lists EXCEPT ![current] = Append(@, n + 1)] /\ current' = current
      BY <1>3, <2>4 DEF Messages!Subscribe
    <3>2. Len(lists) \in Nat /\ DOMAIN lists = 1..Len(lists) /\ current \in 1..Len(lists)
      BY <1>2, <2>4, LenProperties
    <3>3. Append(lists[current], n + 1) \in Seq(1..(n + 1))
      BY <1>2, <1>4, <2>1, <3>2, ElementOfSeq
    <3>4. /\ lists' \in Seq(Seq(1..(n + 1))) /\ Len(lists') = Len(lists)
          /\ \A k \in 1..Len(lists) : lists'[k] = IF k = current THEN Append(lists[current], n + 1) ELSE lists[k]
      BY <2>2, <3>1, <3>2, <3>3, ExceptSeq
    <3>5. DOMAIN lists' = 1..Len(lists)
      BY <3>2, <3>4, LenProperties
    <3> QED
      BY <1>1, <1>2, <1>4, <3>1, <3>2, <3>4, <3>5 DEF OthersEmpty
  <2> QED
    BY <2>3, <2>4
<1>6. Messages!TypeOK'
  <2>1. Messages!Frame \subseteq Messages!Frame'
    BY <1>1, <1>3, <1>5, TypesGrow
  <2>2. frames' \in Seq(Messages!Frame')
    BY <1>2, <1>3, <2>1, SeqGrows
  <2> QED
    BY <1>2, <1>3, <1>5, <2>2 DEF Messages!TypeOK
<1>7. ASSUME NEW k \in DOMAIN frames'
      PROVE  Cardinality(Passed(frames'[k], lists'[frames'[k].list], target', alive')) <= frames'[k].removed
  <2>1. PICK f \in Messages!Frame : f = frames[k] /\ f = frames'[k] /\ k \in DOMAIN frames
    BY <1>1, <1>3, MessageTypes
  <2> DEFINE P == Passed(f, lists[f.list], target, alive)
             Q == Passed(f, lists'[f.list], target', alive')
  <2>2. Cardinality(P) <= f.removed /\ lists[f.list] \in Seq(1..n)
        /\ f.list \in 1..Len(lists) /\ f.start \subseteq 1..n /\ f.removed \in Nat
    BY <1>1, <1>4, <2>1, MessageTypes DEF PassedInv, Messages!Frame
  <2>3. ASSUME NEW r \in Q PROVE r \in P
    <3>1. r \in 1..n /\ target'[r] = target[r] /\ alive' = alive
      BY <1>3, <2>2 DEF Passed
    <3>3. PICK i \in 1..Len(lists'[f.list]) : i <= f.pos /\ lists'[f.list][i] = r
      BY DEF Passed
    <3>4. i \in 1..Len(lists[f.list]) /\ lists[f.list][i] = r
      <4>1. CASE lists'[f.list] = lists[f.list]
        BY <3>3, <4>1
      <4>2. CASE lists'[f.list] = Append(lists[f.list], n + 1)
        <5>1. lists[f.list] \in Seq(1..(n + 1)) /\ n + 1 \in 1..(n + 1)
          BY <1>3, <2>2, SeqGrows
        <5>2. /\ Len(lists'[f.list]) = Len(lists[f.list]) + 1 /\ Len(lists[f.list]) \in Nat
              /\ lists'[f.list][Len(lists[f.list]) + 1] = n + 1
              /\ \A j \in 1..Len(lists[f.list]) : lists'[f.list][j] = lists[f.list][j]
          BY <4>2, <5>1, AppendFacts
        <5>3. i # Len(lists[f.list]) + 1
          BY <1>3, <3>1, <3>3, <5>2
        <5> QED
          BY <3>3, <5>2, <5>3
      <4> QED
        BY <1>5, <2>2, <4>1, <4>2
    <3> QED
      BY <3>1, <3>3, <3>4 DEF Passed
  <2>4. P \subseteq 1..n
    BY <2>2 DEF Passed
  <2>5. Cardinality(Q) <= Cardinality(P) /\ Cardinality(P) \in Nat /\ Cardinality(Q) \in Nat
    <3> HIDE DEF P, Q
    <3> QED
      BY <1>3, <2>3, <2>4, Fewer
  <2> QED
    BY <2>1, <2>2, <2>5
<1> QED
  BY <1>5, <1>6, <1>7 DEF MessageInv, PassedInv

\* Frames that only go on, or stay: f becomes g.
LEMMA WalkStep ==
  ASSUME Messages!TypeOK, NEW f \in Messages!Frame, NEW g, NEW living \in SUBSET alive,
         g.start = f.start,
         \/ g.pos = f.pos /\ g.called = f.called
         \/ /\ g.pos = f.pos + 1 /\ f.pos < Len(lists[f.list])
            /\ \/ target[lists[f.list][g.pos]] \in alive /\ g.called = Append(f.called, lists[f.list][g.pos])
               \/ target[lists[f.list][g.pos]] \notin alive /\ g.called = f.called
  PROVE  /\ Cardinality(Passed(g, lists[f.list], target, living)) <= Cardinality(Passed(f, lists[f.list], target, alive))
         /\ Cardinality(Passed(g, lists[f.list], target, living)) \in Nat
         /\ Cardinality(Passed(f, lists[f.list], target, alive)) \in Nat
<1> DEFINE P == Passed(f, lists[f.list], target, alive)
           Q == Passed(g, lists[f.list], target, living)
           s == lists[f.list]
<1>1. Len(target) \in Nat /\ Messages!Ref = 1..Len(target)
  BY MessageTypes DEF Messages!Ref
<1>2. P \subseteq 1..Len(target) /\ f.pos \in Nat /\ s \in Seq(Messages!Ref) /\ f.called \in Seq(Messages!Ref)
  BY <1>1, MessageTypes DEF Passed, Messages!Frame
<1>3. ASSUME NEW r \in Q PROVE r \in P
  <2>1. r \in g.start /\ target[r] \in living /\ ~\E i \in 1..Len(g.called) : g.called[i] = r
    BY DEF Passed
  <2>2. PICK i \in 1..Len(s) : i <= g.pos /\ s[i] = r
    BY DEF Passed
  <2>3. CASE g.pos = f.pos /\ g.called = f.called
    BY <2>1, <2>2, <2>3 DEF Passed
  <2>4. ASSUME g.pos = f.pos + 1, f.pos < Len(s), target[s[g.pos]] \in alive, g.called = Append(f.called, s[g.pos])
        PROVE  r \in P
    <3>1. s[g.pos] \in Messages!Ref
      BY <1>2, <2>4, LenProperties
    <3>2. /\ Len(g.called) = Len(f.called) + 1 /\ Len(f.called) \in Nat /\ g.called[Len(f.called) + 1] = s[g.pos]
          /\ \A j \in 1..Len(f.called) : g.called[j] = f.called[j]
      BY <1>2, <2>4, <3>1, AppendFacts
    <3>3. r # s[g.pos] /\ ~\E j \in 1..Len(f.called) : f.called[j] = r
      BY <2>1, <3>2
    <3>4. i <= f.pos
      BY <1>2, <2>2, <2>4, <3>3
    <3> QED
      BY <2>1, <2>2, <3>3, <3>4 DEF Passed
  <2>5. ASSUME g.pos = f.pos + 1, target[s[g.pos]] \notin alive, g.called = f.called
        PROVE  r \in P
    <3>1. i # g.pos
      BY <2>1, <2>2, <2>5
    <3>2. i <= f.pos
      BY <1>2, <2>2, <2>5, <3>1
    <3> QED
      BY <2>1, <2>2, <2>5, <3>2 DEF Passed
  <2> QED
    BY <2>3, <2>4, <2>5
<1> QED
  <2> HIDE DEF P, Q
  <2> QED
    BY <1>1, <1>2, <1>3, Fewer DEF P, Q

LEMMA PassedCount ==
  ASSUME Messages!TypeOK, NEW f, f.start \subseteq Messages!Ref, NEW s
  PROVE  Cardinality(Passed(f, s, target, alive)) \in Nat
<1>1. Len(target) \in Nat /\ Messages!Ref = 1..Len(target)
  BY MessageTypes DEF Messages!Ref
<1>2. Passed(f, s, target, alive) \subseteq 1..Len(target)
  BY <1>1 DEF Passed
<1> QED
  BY <1>1, <1>2, Fewer

\* Frames of a list that some of its references are removed from.
LEMMA ShiftStep ==
  ASSUME Messages!TypeOK, NEW f \in Messages!Frame, NEW g, NEW gone, NEW t,
         t = Messages!Without(lists[f.list], gone),
         g.start = f.start, g.pos = f.pos, g.called = f.called
  PROVE  /\ Len(lists[f.list]) - Len(t) \in Nat
         /\ Cardinality(Passed(g, t, target, alive))
              <= Cardinality(Passed(f, lists[f.list], target, alive)) + (Len(lists[f.list]) - Len(t))
<1> DEFINE P == Passed(f, lists[f.list], target, alive)
           Q == Passed(g, t, target, alive)
           s == lists[f.list]
           n == Len(s) - Len(t)
<1>1. Len(target) \in Nat /\ Messages!Ref = 1..Len(target)
  BY MessageTypes DEF Messages!Ref
<1>2. P \subseteq 1..Len(target) /\ f.pos \in Nat /\ s \in Seq(Messages!Ref) /\ Len(s) \in Nat
  BY <1>1, MessageTypes DEF Passed, Messages!Frame
<1>3. t \in Seq(Messages!Ref) /\ Len(t) <= Len(s) /\ Embeds(t, s, Len(s), gone)
  BY <1>2, WithoutEmbeds
<1>4. n \in Nat /\ Len(t) \in Nat
  BY <1>2, <1>3, LenProperties
<1>5. PICK e \in [1..Len(t) -> 1..Len(s)] :
        \A i \in 1..Len(t) : t[i] = s[e[i]] /\ e[i] <= i + n
  BY <1>3 DEF Embeds
<1> HIDE DEF n, s
<1>6. ASSUME NEW r \in Q PROVE r \in P \/ \E i \in 1..Len(s) : i \in (f.pos + 1)..(f.pos + n) /\ s[i] = r
  <2>1. r \in f.start /\ target[r] \in alive /\ ~\E i \in 1..Len(f.called) : f.called[i] = r
    BY DEF Passed
  <2>2. PICK i \in 1..Len(t) : i <= f.pos /\ t[i] = r
    BY DEF Passed
  <2>3. e[i] \in 1..Len(s) /\ s[e[i]] = r /\ e[i] <= i + n
    BY <1>5, <2>2
  <2>4. CASE e[i] <= f.pos
    BY <2>1, <2>3, <2>4 DEF Passed, s
  <2>5. CASE e[i] > f.pos
    <3>1. e[i] \in (f.pos + 1)..(f.pos + n)
      BY <1>2, <1>4, <2>2, <2>3, <2>5
    <3> QED
      BY <2>3, <3>1
  <2>6. e[i] \in Nat
    BY <1>2, <2>3
  <2> QED
    BY <1>2, <2>4, <2>5, <2>6
<1>7. Cardinality(Q) <= Cardinality(P) + n
  <2> HIDE DEF P, Q, s, n
  <2> QED
    BY <1>1, <1>2, <1>4, <1>6, CountShift
<1> QED
  BY <1>4, <1>7 DEF n, s

\* The first m publications are left, and those of list l know of n references that have gone.
Left(m, l, n) ==
  /\ frames' \in Seq(Messages!Frame) /\ Len(frames') = m
  /\ \A k \in 1..m :
       /\ frames'[k].list = frames[k].list /\ frames'[k].start = frames[k].start
       /\ frames'[k].pos = frames[k].pos /\ frames'[k].called = frames[k].called
       /\ frames'[k].removed = IF frames[k].list = l THEN frames[k].removed + n ELSE frames[k].removed

LEMMA ShortenedFrames ==
  ASSUME Messages!TypeOK, NEW m \in 0..Len(frames), NEW l, NEW n \in Nat,
         NEW fs, fs = Messages!Shortened(SubSeq(frames, 1, m), l, n),
         \/ frames' = fs
         \/ m # 0 /\ frames' = [fs EXCEPT ![m] = [@ EXCEPT !.inCall = 0]]
  PROVE  Left(m, l, n) /\ Len(fs) = m /\ (fs = <<>> <=> m = 0)
<1> DEFINE ss == SubSeq(frames, 1, m)
<1>1. Len(frames) \in Nat /\ \A k \in 1..Len(frames) : frames[k] \in Messages!Frame
  BY MessageTypes
<1>2. ss \in Seq(Messages!Frame) /\ Len(ss) = m /\ DOMAIN ss = 1..m /\ \A k \in 1..m : ss[k] = frames[k]
  <2>1. \A k \in 1..m : frames[k] \in Messages!Frame
    BY <1>1
  <2>2. ss \in Seq(Messages!Frame) /\ Len(ss) = (IF 1 <= m THEN m - 1 + 1 ELSE 0) /\ \A k \in 1..(m - 1 + 1) : ss[k] = frames[1 + k - 1]
    BY <1>1, <2>1, SubSeqProperties
  <2>3. Len(ss) = m /\ \A k \in 1..m : ss[k] = frames[k]
    BY <1>1, <2>2
  <2> QED
    BY <2>2, <2>3, LenProperties
<1> HIDE DEF ss
<1>3. fs = [k \in 1..m |-> IF frames[k].list = l THEN [frames[k] EXCEPT !.removed = @ + n] ELSE frames[k]]
  BY <1>2 DEF Messages!Shortened, ss
<1>4. ASSUME NEW f \in Messages!Frame
      PROVE  /\ [f EXCEPT !.removed = @ + n] \in Messages!Frame /\ [f EXCEPT !.inCall = 0] \in Messages!Frame
             /\ [f EXCEPT !.removed = @ + n].removed = f.removed + n
  <2> HIDE DEF Messages!Ref
  <2>1. f.removed + n \in Nat /\ 0 \in Messages!Ref \cup {0}
    BY DEF Messages!Frame
  <2>2. [f EXCEPT !.removed = @ + n] \in Messages!Frame
    BY <2>1 DEF Messages!Frame
  <2>3. [f EXCEPT !.inCall = 0] \in Messages!Frame
    BY <2>1 DEF Messages!Frame
  <2>4. [f EXCEPT !.removed = @ + n].removed = f.removed + n
    BY DEF Messages!Frame
  <2> QED
    BY <2>2, <2>3, <2>4
<1>5. fs \in [1..m -> Messages!Frame]
  <2>1. \A k \in 1..m : frames[k] \in Messages!Frame
    BY <1>1
  <2>2. \A k \in 1..m : (IF frames[k].list = l THEN [frames[k] EXCEPT !.removed = @ + n] ELSE frames[k]) \in Messages!Frame
    BY <1>4, <2>1
  <2> QED
    BY <1>3, <2>2
<1>6. fs \in Seq(Messages!Frame) /\ Len(fs) = m
  BY <1>5, MapSeq
<1>7. fs = <<>> <=> m = 0
  BY <1>6, EmptySeq
<1>8. \A k \in 1..m :
       /\ fs[k].list = frames[k].list /\ fs[k].start = frames[k].start
       /\ fs[k].pos = frames[k].pos /\ fs[k].called = frames[k].called
       /\ fs[k].removed = IF frames[k].list = l THEN frames[k].removed + n ELSE frames[k].removed
  <2> TAKE k \in 1..m
  <2>1. frames[k] \in Messages!Frame
    BY <1>1
  <2> QED
    BY <1>3, <2>1 DEF Messages!Frame
<1>9. CASE frames' = fs
  BY <1>6, <1>7, <1>8, <1>9 DEF Left
<1>10. CASE m # 0 /\ frames' = [fs EXCEPT ![m] = [@ EXCEPT !.inCall = 0]]
  <2>1. m \in 1..m /\ fs[m] \in Messages!Frame /\ [fs[m] EXCEPT !.inCall = 0] \in Messages!Frame
    <3>1. m \in 1..m /\ fs[m] \in Messages!Frame
      BY <1>5, <1>10
    <3> QED
      BY <1>4, <3>1
  <2>2. /\ frames' \in Seq(Messages!Frame) /\ Len(frames') = m
        /\ \A k \in 1..m : frames'[k] = IF k = m THEN [fs[m] EXCEPT !.inCall = 0] ELSE fs[k]
    BY <1>6, <1>10, <2>1, ExceptSeq
  <2>3. ASSUME NEW k \in 1..m
        PROVE  /\ frames'[k].list = fs[k].list /\ frames'[k].start = fs[k].start
               /\ frames'[k].pos = fs[k].pos /\ frames'[k].called = fs[k].called /\ frames'[k].removed = fs[k].removed
    <3>1. CASE k = m
      BY <2>1, <2>2, <3>1 DEF Messages!Frame
    <3>2. CASE k # m
      BY <2>2, <3>2
    <3> QED
      BY <3>1, <3>2
  <2> QED
    BY <1>6, <1>7, <1>8, <2>2, <2>3 DEF Left
<1> QED
  BY <1>9, <1>10

LEMMA OuterFrames ==
  ASSUME Messages!TypeOK, NEW m \in 0..Len(frames), NEW l, NEW n,
         NEW fs, fs = Messages!Shortened(SubSeq(frames, 1, m), l, n)
  PROVE  Len(fs) = m /\ (fs = <<>> <=> m = 0)
<1>1. \A k \in 1..m : frames[k] \in Messages!Frame
  BY MessageTypes
<1>2. SubSeq(frames, 1, m) \in Seq(Messages!Frame) /\ Len(SubSeq(frames, 1, m)) = (IF 1 <= m THEN m - 1 + 1 ELSE 0)
  BY <1>1, SubSeqProperties
<1>3. DOMAIN SubSeq(frames, 1, m) = 1..m
  BY <1>2, MessageTypes, LenProperties
<1> DEFINE ss == SubSeq(frames, 1, m)
<1> HIDE DEF ss
<1>4. DOMAIN fs = 1..m /\ fs \in [1..m -> {fs[k] : k \in 1..m}]
  BY <1>3 DEF Messages!Shortened, ss
<1>5. fs \in Seq({fs[k] : k \in 1..m}) /\ Len(fs) = m
  BY <1>4, MapSeq
<1> QED
  BY <1>5, EmptySeq

\* References are removed from one list.
LEMMA RemovalStep ==
  ASSUME MessageInv, NEW m \in 0..Len(frames), NEW l \in 1..Len(lists), NEW gone, NEW t,
         t = Messages!Without(lists[l], gone), Left(m, l, Len(lists[l]) - Len(t)),
         lists' = [lists EXCEPT ![l] = t], target' = target, alive' = alive,
         current' = current \/ (current' = 0 /\ l = current /\ t = <<>>)
  PROVE  MessageInv'
<1>1. Messages!TypeOK /\ OthersEmpty /\ PassedInv
  BY DEF MessageInv
<1>2. /\ target \in Seq(Callback) /\ lists \in Seq(Seq(Messages!Ref)) /\ current \in 0..Len(lists)
      /\ alive \subseteq Callback
  BY <1>1 DEF Messages!TypeOK
<1>3. Len(lists) \in Nat /\ DOMAIN lists = 1..Len(lists) /\ lists[l] \in Seq(Messages!Ref) /\ Len(lists[l]) \in Nat
  BY <1>1, MessageTypes
<1>4. t \in Seq(Messages!Ref) /\ Len(t) \in Nat /\ (lists[l] = <<>> => t = <<>>)
  <2>1. t \in Seq(Messages!Ref) /\ Len(t) <= Len(lists[l])
    BY <1>3, WithoutEmbeds
  <2>2. lists[l] = <<>> => Len(t) = 0
    BY <2>1, EmptySeq, LenProperties
  <2> QED
    BY <2>1, <2>2, EmptySeq, LenProperties
<1>5. /\ lists' \in Seq(Seq(Messages!Ref)) /\ Len(lists') = Len(lists)
      /\ \A k \in 1..Len(lists) : lists'[k] = IF k = l THEN t ELSE lists[k]
  BY <1>2, <1>4, ExceptSeq
<1>6. Messages!Ref' = Messages!Ref /\ Messages!Frame' = Messages!Frame
  BY <1>5 DEF Messages!Ref, Messages!Frame
<1>7. Messages!TypeOK'
  <2>1. current' \in 0..Len(lists') /\ frames' \in Seq(Messages!Frame')
    BY <1>2, <1>3, <1>5, <1>6 DEF Left
  <2> QED
    BY <1>2, <1>5, <1>6, <2>1 DEF Messages!TypeOK
<1>8. OthersEmpty'
  <2>1. DOMAIN lists' = 1..Len(lists)
    BY <1>3, <1>5, LenProperties
  <2> QED
    BY <1>1, <1>3, <1>4, <1>5, <2>1 DEF OthersEmpty
<1>9. ASSUME NEW k \in DOMAIN frames'
      PROVE  Cardinality(Passed(frames'[k], lists'[frames'[k].list], target', alive')) <= frames'[k].removed
  <2>1. k \in 1..m /\ k \in 1..Len(frames)
    BY <1>1, MessageTypes, LenProperties DEF Left
  <2>2. PICK f \in Messages!Frame : f = frames[k]
    BY <1>1, <2>1, MessageTypes
  <2>3. PICK g \in Messages!Frame : g = frames'[k]
    BY <2>1, LenProperties DEF Left
  <2>4. /\ g.list = f.list /\ g.start = f.start /\ g.pos = f.pos /\ g.called = f.called
        /\ g.removed = IF f.list = l THEN f.removed + (Len(lists[l]) - Len(t)) ELSE f.removed
    BY <2>1, <2>2, <2>3 DEF Left
  <2>5. f.list \in 1..Len(lists) /\ f.removed \in Nat /\ f.start \subseteq Messages!Ref
    BY DEF Messages!Frame
  <2>6. Cardinality(Passed(f, lists[f.list], target, alive)) <= f.removed
    BY <1>1, <2>1, <2>2, MessageTypes DEF PassedInv
  <2>7. CASE f.list = l
    <3>1. Cardinality(Passed(g, t, target, alive)) <= Cardinality(Passed(f, lists[f.list], target, alive)) + (Len(lists[l]) - Len(t))
      BY <1>1, <2>4, <2>7, ShiftStep
    <3>2. Cardinality(Passed(f, lists[f.list], target, alive)) \in Nat
      BY <2>5, PassedCount, <1>1
    <3>3. Cardinality(Passed(g, t, target, alive)) \in Nat
      BY <2>4, <2>5, PassedCount, <1>1
    <3>4. Cardinality(Passed(g, t, target, alive)) <= g.removed
      BY <1>3, <1>4, <2>4, <2>5, <2>6, <2>7, <3>1, <3>2, <3>3
    <3> QED
      BY <1>5, <2>3, <2>4, <2>5, <2>7, <3>4
  <2>8. CASE f.list # l
    <3>1. Passed(g, lists[f.list], target, alive) = Passed(f, lists[f.list], target, alive)
      BY <2>4 DEF Passed
    <3> QED
      BY <1>5, <2>3, <2>4, <2>5, <2>6, <2>8, <3>1
  <2> QED
    BY <2>7, <2>8
<1> QED
  BY <1>7, <1>8, <1>9 DEF MessageInv, PassedInv

LEMMA UnsubscribeStep ==
  ASSUME MessageInv, NEW c \in Callback, Messages!Unsubscribe(c)
  PROVE  MessageInv'
<1>1. Messages!TypeOK
  BY DEF MessageInv
<1>2. PICK gone : LET t == Messages!Without(lists[current], gone) IN
         /\ current # 0 /\ lists' = [lists EXCEPT ![current] = t]
         /\ current' = IF t = <<>> THEN 0 ELSE current
         /\ frames' = Messages!Shortened(frames, current, Len(lists[current]) - Len(t))
         /\ UNCHANGED <<target, alive>>
  BY DEF Messages!Unsubscribe
<1> DEFINE t == Messages!Without(lists[current], gone)
<1>3. current \in 1..Len(lists)
  BY <1>1, <1>2, MessageTypes DEF Messages!TypeOK
<1>4. lists[current] \in Seq(Messages!Ref) /\ Len(lists[current]) \in Nat
  BY <1>1, <1>3, MessageTypes
<1>5. Len(lists[current]) - Len(t) \in Nat
  <2>1. t \in Seq(Messages!Ref) /\ Len(t) <= Len(lists[current])
    BY <1>4, WithoutEmbeds
  <2>2. Len(t) \in Nat
    BY <2>1, LenProperties
  <2> QED
    BY <1>4, <2>1, <2>2
<1>6. Len(frames) \in 0..Len(frames) /\ SubSeq(frames, 1, Len(frames)) = frames
  BY <1>1, MessageTypes, SubSeqFull DEF Messages!TypeOK
<1> HIDE DEF t
<1>7. Left(Len(frames), current, Len(lists[current]) - Len(t))
  BY <1>1, <1>2, <1>5, <1>6, ShortenedFrames DEF t
<1>8. current' = current \/ (current' = 0 /\ t = <<>>)
  BY <1>1, <1>2 DEF Messages!TypeOK, t
<1> QED
  BY <1>2, <1>3, <1>6, <1>7, <1>8, RemovalStep DEF t

LEMMA FinishStep ==
  ASSUME MessageInv, Messages!Finish
  PROVE  MessageInv'
<1>1. Messages!TypeOK
  BY DEF MessageInv
<1> DEFINE top == Messages!Top
           l == top.list
           swept == Messages!Sweep(lists[l], top.dead)
           m == Len(frames) - 1
           n == Len(lists[l]) - Len(swept.rest)
           outer == Messages!Shortened(SubSeq(frames, 1, m), l, n)
<1>2. /\ frames # <<>> /\ lists' = [lists EXCEPT ![l] = swept.rest]
      /\ frames' = IF swept.ok \/ outer = <<>> THEN outer ELSE [outer EXCEPT ![Len(outer)].inCall = 0]
      /\ UNCHANGED <<target, current, alive>>
  BY DEF Messages!Finish
<1>3. top \in Messages!Frame /\ l \in 1..Len(lists) /\ Len(frames) \in Nat /\ m \in 0..Len(frames)
  <2>1. top \in Messages!Frame /\ Len(frames) \in Nat /\ Len(frames) \in 1..Len(frames)
    BY <1>1, <1>2, MessageTypes
  <2> QED
    BY <2>1 DEF Messages!Frame
<1>4. PICK gone : swept.rest = Messages!Without(lists[l], gone)
  BY DEF Messages!Sweep
<1> HIDE DEF swept, l, top
<1>5. n \in Nat
  <2>1. lists[l] \in Seq(Messages!Ref) /\ Len(lists[l]) \in Nat
    BY <1>1, <1>3, MessageTypes
  <2>2. swept.rest \in Seq(Messages!Ref) /\ Len(swept.rest) <= Len(lists[l])
    BY <1>4, <2>1, WithoutEmbeds
  <2>3. Len(swept.rest) \in Nat
    BY <2>2, LenProperties
  <2> QED
    BY <2>1, <2>2, <2>3
<1> HIDE DEF n, m, outer
<1>6. Len(outer) = m /\ (outer = <<>> <=> m = 0)
  <2>1. outer = Messages!Shortened(SubSeq(frames, 1, m), l, n)
    BY DEF outer
  <2> QED
    BY <1>1, <1>3, <1>5, <2>1, OuterFrames
<1>7. frames' = outer \/ (m # 0 /\ frames' = [outer EXCEPT ![m] = [@ EXCEPT !.inCall = 0]])
  BY <1>2, <1>6
<1>8. Left(m, l, n)
  BY <1>1, <1>3, <1>5, <1>7, ShortenedFrames DEF outer
<1> QED
  BY <1>2, <1>3, <1>4, <1>8, RemovalStep DEF n

LEMMA DieStep ==
  ASSUME MessageInv, NEW c \in Callback, Messages!Die(c)
  PROVE  MessageInv'
<1>1. Messages!TypeOK /\ OthersEmpty /\ PassedInv
  BY DEF MessageInv
<1>2. alive' \subseteq alive /\ UNCHANGED <<target, lists, current, frames>>
  BY DEF Messages!Die
<1>3. Messages!TypeOK' /\ OthersEmpty'
  BY <1>1, <1>2 DEF Messages!TypeOK, OthersEmpty, Messages!Ref, Messages!Frame
<1>4. ASSUME NEW k \in DOMAIN frames
      PROVE  Cardinality(Passed(frames[k], lists[frames[k].list], target, alive')) <= frames[k].removed
  <2>1. PICK f \in Messages!Frame : f = frames[k]
    BY <1>1, MessageTypes
  <2>2. /\ Cardinality(Passed(f, lists[f.list], target, alive')) <= Cardinality(Passed(f, lists[f.list], target, alive))
        /\ Cardinality(Passed(f, lists[f.list], target, alive')) \in Nat
        /\ Cardinality(Passed(f, lists[f.list], target, alive)) \in Nat
    BY <1>1, <1>2, WalkStep
  <2>3. f.removed \in Nat /\ Cardinality(Passed(f, lists[f.list], target, alive)) <= f.removed
    BY <1>1, <2>1 DEF PassedInv, Messages!Frame
  <2> QED
    BY <2>1, <2>2, <2>3
<1> QED
  BY <1>2, <1>3, <1>4 DEF MessageInv, PassedInv

\* The innermost publication goes on: its frame f becomes g.
LEMMA TopStep ==
  ASSUME MessageInv, frames # <<>>, UNCHANGED <<target, lists, current, alive>>,
         NEW g \in Messages!Frame, frames' = [frames EXCEPT ![Len(frames)] = g],
         LET f == Messages!Top IN
         /\ g.start = f.start /\ g.list = f.list /\ g.removed = f.removed
         /\ \/ g.pos = f.pos /\ g.called = f.called
            \/ /\ g.pos = f.pos + 1 /\ f.pos < Len(lists[f.list])
               /\ \/ target[lists[f.list][g.pos]] \in alive /\ g.called = Append(f.called, lists[f.list][g.pos])
                  \/ target[lists[f.list][g.pos]] \notin alive /\ g.called = f.called
  PROVE  MessageInv'
<1>1. Messages!TypeOK /\ OthersEmpty /\ PassedInv
  BY DEF MessageInv
<1>2. /\ Len(frames) \in Nat /\ DOMAIN frames = 1..Len(frames) /\ Len(frames) \in 1..Len(frames)
      /\ Messages!Top \in Messages!Frame /\ frames \in Seq(Messages!Frame)
  BY <1>1, MessageTypes DEF Messages!TypeOK
<1>3. /\ frames' \in Seq(Messages!Frame) /\ Len(frames') = Len(frames)
      /\ \A k \in 1..Len(frames) : frames'[k] = IF k = Len(frames) THEN g ELSE frames[k]
  BY <1>2, ExceptSeq
<1>4. DOMAIN frames' = 1..Len(frames)
  BY <1>3, LenProperties
<1>5. Messages!TypeOK' /\ OthersEmpty'
  BY <1>1, <1>3 DEF Messages!TypeOK, OthersEmpty, Messages!Ref, Messages!Frame
<1>6. ASSUME NEW k \in 1..Len(frames)
      PROVE  Cardinality(Passed(frames'[k], lists[frames'[k].list], target, alive)) <= frames'[k].removed
  <2>1. CASE k # Len(frames)
    BY <1>1, <1>2, <1>3, <2>1 DEF PassedInv
  <2>2. CASE k = Len(frames)
    <3>1. PICK f \in Messages!Frame : f = Messages!Top
      BY <1>2
    <3>2. Cardinality(Passed(g, lists[f.list], target, alive)) <= Cardinality(Passed(f, lists[f.list], target, alive))
      BY <1>1, <3>1, WalkStep
    <3>3. g.start \subseteq Messages!Ref /\ f.start \subseteq Messages!Ref /\ f.removed \in Nat
      BY DEF Messages!Frame
    <3>4. Cardinality(Passed(g, lists[f.list], target, alive)) \in Nat /\ Cardinality(Passed(f, lists[f.list], target, alive)) \in Nat
      BY <1>1, <3>3, PassedCount
    <3>5. Cardinality(Passed(f, lists[f.list], target, alive)) <= f.removed
      BY <1>1, <1>2, <3>1 DEF PassedInv, Messages!Top
    <3> QED
      BY <1>3, <2>2, <3>1, <3>2, <3>3, <3>4, <3>5
  <2> QED
    BY <2>1, <2>2
<1> QED
  BY <1>4, <1>5, <1>6 DEF MessageInv, PassedInv

LEMMA PublishStep ==
  ASSUME MessageInv, Messages!Publish
  PROVE  MessageInv'
<1> DEFINE g == [list |-> current, pos |-> 0, dead |-> <<>>, inCall |-> 0,
                 start |-> Messages!Range(lists[current]), called |-> <<>>, removed |-> 0]
<1>1. Messages!TypeOK /\ OthersEmpty /\ PassedInv
  BY DEF MessageInv
<1>2. current # 0 /\ frames' = Append(frames, g) /\ UNCHANGED <<target, lists, current, alive>>
  BY DEF Messages!Publish
<1>3. current \in 1..Len(lists) /\ frames \in Seq(Messages!Frame)
  BY <1>1, <1>2, MessageTypes DEF Messages!TypeOK
<1>4. g.start \subseteq Messages!Ref
  <2>1. lists[current] \in Seq(Messages!Ref)
    BY <1>1, <1>3, MessageTypes
  <2> QED
    BY <2>1, LenProperties DEF Messages!Range
<1>5. g \in Messages!Frame
  <2>1. <<>> \in Seq(Messages!Ref)
    BY EmptySeq
  <2> DEFINE st == g.start
  <2>2. st \in SUBSET Messages!Ref /\ g = [g EXCEPT !.start = st]
    BY <1>4
  <2> HIDE DEF st
  <2>3. [list |-> current, pos |-> 0, dead |-> <<>>, inCall |-> 0, start |-> st, called |-> <<>>, removed |-> 0]
          \in Messages!Frame
    BY <1>3, <2>1, <2>2 DEF Messages!Frame
  <2> QED
    BY <2>3 DEF st
<1>6. g.pos = 0 /\ g.removed = 0
  OBVIOUS
<1> HIDE DEF g
<1>7. /\ frames' \in Seq(Messages!Frame) /\ Len(frames) \in Nat /\ DOMAIN frames = 1..Len(frames)
      /\ DOMAIN frames' = 1..(Len(frames) + 1) /\ frames'[Len(frames) + 1] = g
      /\ \A k \in 1..Len(frames) : frames'[k] = frames[k]
  BY <1>2, <1>3, <1>5, AppendFacts
<1>8. Messages!TypeOK' /\ OthersEmpty'
  BY <1>1, <1>2, <1>7 DEF Messages!TypeOK, OthersEmpty, Messages!Ref, Messages!Frame
<1>9. ASSUME NEW k \in DOMAIN frames'
      PROVE  Cardinality(Passed(frames'[k], lists[frames'[k].list], target, alive)) <= frames'[k].removed
  <2>1. CASE k \in 1..Len(frames)
    BY <1>1, <1>7, <2>1 DEF PassedInv
  <2>2. CASE k = Len(frames) + 1
    <3>1. Passed(g, lists[g.list], target, alive) = {}
      BY <1>6 DEF Passed
    <3>2. Cardinality(Passed(g, lists[g.list], target, alive)) = 0
      BY <3>1, FS_EmptySet
    <3> QED
      BY <1>6, <1>7, <2>2, <3>2
  <2> QED
    BY <1>7, <2>1, <2>2
<1> QED
  BY <1>2, <1>8, <1>9 DEF MessageInv, PassedInv

LEMMA MessageStep == MessageInv /\ [Messages!Next]_messageVars => MessageInv'
<1> SUFFICES ASSUME MessageInv, [Messages!Next]_messageVars PROVE MessageInv'
  OBVIOUS
<1>1. Messages!TypeOK
  BY DEF MessageInv
<1> DEFINE f == Messages!Top
           r == Messages!NextRef
<1>2. ASSUME frames # <<>>
      PROVE  /\ f \in Messages!Frame /\ lists[f.list] \in Seq(Messages!Ref) /\ f.pos \in Nat
             /\ Len(lists[f.list]) \in Nat /\ f.dead \in Seq(Messages!Ref) /\ f.called \in Seq(Messages!Ref)
  <2>1. f \in Messages!Frame
    BY <1>1, <1>2, MessageTypes
  <2>2. f.list \in 1..Len(lists) /\ f.pos \in Nat /\ f.dead \in Seq(Messages!Ref) /\ f.called \in Seq(Messages!Ref)
    BY <2>1 DEF Messages!Frame
  <2> QED
    BY <1>1, <2>1, <2>2, MessageTypes
<1>3. ASSUME Messages!Walking
      PROVE  /\ frames # <<>> /\ f.pos < Len(lists[f.list]) /\ r = lists[f.list][f.pos + 1]
             /\ r \in Messages!Ref /\ f.inCall = 0
  <2>1. frames # <<>> /\ f.pos < Len(lists[f.list]) /\ r = lists[f.list][f.pos + 1] /\ f.inCall = 0
    BY <1>3 DEF Messages!Walking, Messages!NextRef
  <2>2. f.pos + 1 \in 1..Len(lists[f.list])
    BY <1>2, <2>1
  <2> QED
    BY <1>2, <2>1, <2>2, ElementOfSeq
<1>4. CASE Messages!Call
  <2>1. /\ frames' = [frames EXCEPT ![Len(frames)] = [f EXCEPT !.pos = @ + 1, !.inCall = r, !.called = Append(@, r)]]
        /\ UNCHANGED <<target, lists, current, alive>> /\ target[r] \in alive /\ Messages!Walking
    BY <1>4 DEF Messages!Call, Messages!SetTop, Messages!Dead
  <2> DEFINE g == [f EXCEPT !.pos = @ + 1, !.inCall = r, !.called = Append(@, r)]
  <2>2. Append(f.called, r) \in Seq(Messages!Ref) /\ f.pos + 1 \in Nat /\ r \in Messages!Ref
    BY <1>2, <1>3, <2>1, AppendFacts
  <2>3. g \in Messages!Frame
    <3> HIDE DEF Messages!Ref, r, f
    <3> QED
      BY <1>2, <1>3, <2>1, <2>2 DEF Messages!Frame
  <2>4. g.start = f.start /\ g.list = f.list /\ g.removed = f.removed /\ g.pos = f.pos + 1 /\ g.called = Append(f.called, r)
    <3> HIDE DEF Messages!Ref, r, f
    <3> QED
      BY <1>2, <1>3, <2>1 DEF Messages!Frame
  <2> HIDE DEF g
  <2>5. frames' = [frames EXCEPT ![Len(frames)] = g]
    BY <2>1 DEF g
  <2> QED
    BY <1>3, <2>1, <2>3, <2>4, <2>5, TopStep
<1>5. CASE Messages!SkipDead
  <2>1. /\ frames' = [frames EXCEPT ![Len(frames)] = [f EXCEPT !.pos = @ + 1, !.dead = Append(@, r)]]
        /\ UNCHANGED <<target, lists, current, alive>> /\ target[r] \notin alive /\ Messages!Walking
    BY <1>5 DEF Messages!SkipDead, Messages!SetTop, Messages!Dead
  <2> DEFINE g == [f EXCEPT !.pos = @ + 1, !.dead = Append(@, r)]
  <2>2. Append(f.dead, r) \in Seq(Messages!Ref) /\ f.pos + 1 \in Nat
    BY <1>2, <1>3, <2>1, AppendFacts
  <2>3. g \in Messages!Frame
    <3> HIDE DEF Messages!Ref, r, f
    <3> QED
      BY <1>2, <1>3, <2>1, <2>2 DEF Messages!Frame
  <2>4. g.start = f.start /\ g.list = f.list /\ g.removed = f.removed /\ g.pos = f.pos + 1 /\ g.called = f.called
    <3> HIDE DEF Messages!Ref, r, f
    <3> QED
      BY <1>2, <1>3, <2>1 DEF Messages!Frame
  <2> HIDE DEF g
  <2>5. frames' = [frames EXCEPT ![Len(frames)] = g]
    BY <2>1 DEF g
  <2> QED
    BY <1>3, <2>1, <2>3, <2>4, <2>5, TopStep
<1>6. CASE Messages!Return
  <2>1. /\ frames' = [frames EXCEPT ![Len(frames)] = [f EXCEPT !.inCall = 0]]
        /\ UNCHANGED <<target, lists, current, alive>> /\ frames # <<>>
    BY <1>6 DEF Messages!Return, Messages!SetTop
  <2> DEFINE g == [f EXCEPT !.inCall = 0]
  <2>2. g \in Messages!Frame /\ g.start = f.start /\ g.list = f.list /\ g.removed = f.removed /\ g.pos = f.pos /\ g.called = f.called
    <3> HIDE DEF Messages!Ref, f
    <3> QED
      BY <1>2, <2>1 DEF Messages!Frame
  <2> HIDE DEF g
  <2>3. frames' = [frames EXCEPT ![Len(frames)] = g]
    BY <2>1 DEF g
  <2> QED
    BY <2>1, <2>2, <2>3, TopStep
<1>7. CASE UNCHANGED messageVars
  BY <1>7 DEF messageVars, MessageInv, Messages!TypeOK, OthersEmpty, PassedInv, Messages!Ref, Messages!Frame
<1> QED
  BY <1>4, <1>5, <1>6, <1>7, SubscribeStep, UnsubscribeStep, DieStep, PublishStep, FinishStep
     DEF Messages!Next

LEMMA MessageCardinality == \A S : Messages!Cardinality(S) = Cardinality(S)
  BY DEF Messages!Cardinality, Cardinality

LEMMA MessageImplies == MessageInv => Messages!MissedAreShifted
<1> SUFFICES ASSUME MessageInv, NEW k \in DOMAIN frames, Messages!AtEnd(frames[k])
             PROVE  Messages!Cardinality(Messages!Missed(frames[k])) <= frames[k].removed
  BY DEF Messages!MissedAreShifted
<1>1. Messages!TypeOK /\ PassedInv
  BY DEF MessageInv
<1> DEFINE f == frames[k]
           P == Passed(f, lists[f.list], target, alive)
<1>2. f \in Messages!Frame /\ f.start \subseteq Messages!Ref /\ f.removed \in Nat /\ f.list \in 1..Len(lists)
  BY <1>1, MessageTypes DEF Messages!Frame
<1>3. \A r \in Messages!Missed(f) : r \in P
  <2>1. f.pos >= Len(lists[f.list]) /\ Len(lists[f.list]) \in Nat /\ f.pos \in Nat
    BY <1>1, <1>2, MessageTypes DEF Messages!AtEnd, Messages!Frame
  <2>2. \A i \in 1..Len(lists[f.list]) : i <= f.pos
    BY <2>1
  <2> QED
    BY <2>2 DEF Messages!Missed, Passed, Messages!Dead, Messages!Range
<1>4. Len(target) \in Nat /\ P \subseteq 1..Len(target)
  BY <1>1, <1>2, MessageTypes DEF Passed, Messages!Ref
<1>5. Cardinality(Messages!Missed(f)) <= Cardinality(P) /\ Cardinality(P) \in Nat /\ Cardinality(Messages!Missed(f)) \in Nat
  BY <1>3, <1>4, Fewer
<1>6. Cardinality(P) <= f.removed
  BY <1>1 DEF PassedInv
<1> QED
  BY <1>2, <1>5, <1>6, MessageCardinality

LEMMA CalledIsSubscribed ==
  ASSUME MessageInv, Messages!Call
  PROVE  current # 0 /\ Messages!NextRef \in Messages!Range(lists[current])
<1> DEFINE f == Messages!Top
<1>1. Messages!TypeOK /\ OthersEmpty /\ frames # <<>> /\ f.pos < Len(lists[f.list])
      /\ Messages!NextRef = lists[f.list][f.pos + 1]
  BY DEF MessageInv, Messages!Call, Messages!Walking, Messages!NextRef
<1>2. f.list \in 1..Len(lists) /\ f.pos \in Nat /\ DOMAIN lists = 1..Len(lists) /\ Len(lists[f.list]) \in Nat
  BY <1>1, MessageTypes DEF Messages!Frame
<1>3. f.pos + 1 \in 1..Len(lists[f.list]) /\ lists[f.list] # <<>>
  BY <1>1, <1>2, EmptySeq
<1>4. f.list = current /\ current # 0
  BY <1>1, <1>2, <1>3 DEF OthersEmpty
<1> QED
  BY <1>1, <1>3, <1>4 DEF Messages!Range

-----------------------------------------------------------------------------
(* The beginning.                                                          *)

LEMMA LogInit == Logging!Init => LogInv
<1> SUFFICES ASSUME Logging!Init PROVE LogInv
  OBVIOUS
<1> USE DEF Logging!Init
<1>1. LogFlags
  BY DEF LogFlags
<1>2. LogData
  <2>1. <<>> \in Seq(Nat) /\ <<>> \in Seq(EmitterRecord) /\ Len(<<>>) = 0
    BY EmptySeq
  <2> QED
    BY <2>1 DEF LogData
<1>3. KeptInv
  BY DEF KeptInv, Logging!RecordsKept, Logging!Range
<1>4. OrderInv
  BY DEF OrderInv
<1> QED
  BY <1>1, <1>2, <1>3, <1>4 DEF LogInv, LogType

LEMMA StreamInit == Streams!Init => StreamInv
<1> SUFFICES ASSUME Streams!Init PROVE StreamInv
  OBVIOUS
<1> USE DEF Streams!Init
<1>1. StreamType
  <2>1. Streams!Blank("new") \in StreamState
    BY DEF Streams!Blank, StreamState
  <2> QED
    BY <2>1 DEF StreamType
<1>2. BufferInv
  BY StreamAssumption DEF BufferInv
<1>3. SocketInv
  BY DEF SocketInv, Streams!Blank
<1>4. \A s \in Stream : Within(s)
  BY DEF Within, Streams!Blank
<1> QED
  BY <1>1, <1>2, <1>3, <1>4 DEF StreamInv

LEMMA AppInit == Application!Init => AppInv
<1> SUFFICES ASSUME Application!Init PROVE AppInv
  OBVIOUS
<1> USE DEF Application!Init
<1>1. AppType
  BY DEF AppType
<1>2. Taken(0, 0, 0, 0)
  BY DEF Taken
<1>3. \E n, a, m, b \in Nat : Taken(n, a, m, b)
  BY <1>2
<1> QED
  BY <1>1, <1>3 DEF AppInv, ExitInv

\* The files name items.
LEMMA LinksAreItems == Config!Links \subseteq [File \cup {Node} -> Seq(Config!Items)]
<1>1. ASSUME NEW x \in Config!Short PROVE x \in Seq(Config!Items)
  <2>1. CASE x = <<>>
    BY <2>1, EmptySeq
  <2>2. ASSUME NEW i \in Config!Items, x = <<i>> PROVE x \in Seq(Config!Items)
    BY <2>2
  <2> QED
    BY <2>1, <2>2 DEF Config!Short
<1>2. ASSUME NEW x \in Config!Items \X Config!Items PROVE x \in Seq(Config!Items)
  <2>1. PICK i \in Config!Items, j \in Config!Items : x = <<i, j>>
    OBVIOUS
  <2> QED
    BY <2>1
<1>3. Config!Short \cup (Config!Items \X Config!Items) \subseteq Seq(Config!Items)
  BY <1>1, <1>2
<1> QED
  BY <1>3 DEF Config!Links

LEMMA ConfigInit == Config!Init => ConfigInv
<1> SUFFICES ASSUME Config!Init PROVE ConfigInv
  OBVIOUS
<1> USE DEF Config!Init
<1>1. reads = <<>> /\ stack = <<>> /\ included = {} /\ FilesIn(reads) = {} /\ Unread(stack) = {}
  BY DEF FilesIn, Elements, Unread
<1>2. ConfigType
  <2>1. includes \in [File \cup {Node} -> Seq(Config!Items)]
    BY LinksAreItems
  <2>2. <<>> \in Seq(Read) /\ <<>> \in Seq(CallOfTraverse)
    BY EmptySeq
  <2> QED
    BY <2>1, <2>2 DEF ConfigType
<1>3. PhaseInv /\ FirstInv
  BY <1>1 DEF PhaseInv, FirstInv
<1>4. SoundInv /\ AfterInv /\ CompleteInv
  BY <1>1 DEF SoundInv, AfterInv, CompleteInv
<1>5. TimesInv
  <2>1. \A f : TimesIn(f, <<>>) = 0
    BY FS_EmptySet DEF TimesIn
  <2> QED
    BY <1>1, <2>1 DEF TimesInv
<1> QED
  BY <1>2, <1>3, <1>4, <1>5 DEF ConfigInv

LEMMA MessageInit == Messages!Init => MessageInv
<1> SUFFICES ASSUME Messages!Init PROVE MessageInv
  OBVIOUS
<1> USE DEF Messages!Init
<1>1. Messages!TypeOK
  <2>1. \A S : <<>> \in Seq(S) /\ Len(<<>>) = 0
    BY EmptySeq
  <2>2. target \in Seq(Callback) /\ lists \in Seq(Seq(Messages!Ref)) /\ frames \in Seq(Messages!Frame)
    BY <2>1
  <2>3. current \in 0..Len(lists) /\ alive \subseteq Callback
    BY <2>1
  <2> QED
    BY <2>2, <2>3, Zenon DEF Messages!TypeOK
<1>2. OthersEmpty /\ PassedInv
  BY DEF OthersEmpty, PassedInv
<1> QED
  BY <1>1, <1>2 DEF MessageInv

-----------------------------------------------------------------------------
(* Housekeeping.                                                           *)

In(p, d) == House!At(d) < p /\ p < House!At(d) + House!Window
Odd(t) == t % 2 = 1

\* The tick of day e is the next one.
Turn(e) ==
  /\ housekeepingTime = House!At(e) /\ housekeepingTimeLimit = House!At(e) + House!Window
  /\ housekeepingId \in Nat /\ housekeepingId <= e
  /\ e # 0 => House!At(e - 1) < houseNow

HouseType ==
  /\ schedule \in House!Schedules
  /\ houseNow \in Nat /\ Odd(houseNow) /\ houseNow < MaxDays * Day
  /\ awake \subseteq 0..houseNow /\ houseNow \in awake
  /\ \A t \in awake : Odd(t)
  /\ \E f \in awake : \A t \in awake : f <= t

\* Published in windows whose turn is over, and once in each.
PublishedOnce(e) ==
  /\ \A p \in published : p \in 0..houseNow /\ Odd(p) /\ \E d \in Nat : d < e /\ In(p, d)
  /\ \A p, q \in published, d \in Nat : In(p, d) /\ In(q, d) => p = q

\* Who has been awake since a has caught up, or has had a turn at each tick.
AwakeFrom(a) == \A t \in a..houseNow : Odd(t) => t \in awake
CaughtUp(e) ==
  \A a \in awake : AwakeFrom(a) =>
    housekeepingTime >= houseNow \/ (a # House!First /\ 2 * e >= houseNow - a)

\* Who was awake on the day before and in the window has published.
AwakeBefore(d) ==
  \A t \in House!First..House!At(d) : t + Day > House!At(d) /\ Odd(t) => t \in awake
AwakeIn(d) == \A t \in 0..houseNow : In(t, d) /\ Odd(t) => t \in awake
DaysServed ==
  \A d \in Nat :
    House!First < House!At(d) /\ House!At(d) < houseNow /\ d < MaxDays /\ AwakeBefore(d) /\ AwakeIn(d)
      => \E p \in published : In(p, d)

HouseInv == HouseType /\ DaysServed /\ \E e \in Nat : Turn(e) /\ PublishedOnce(e) /\ CaughtUp(e)

LEMMA DayFacts ==
  ASSUME schedule \in House!Schedules
  PROVE  /\ Day \in Nat /\ Day >= 2 /\ House!Window \in Nat
         /\ 2 <= House!Window /\ House!Window < Day
         /\ schedule[1] \in 0..(Day - 1)
         /\ \A d \in Nat : /\ House!At(d) \in Nat /\ House!At(d) % 2 = 0
                           /\ House!At(d + 1) = House!At(d) + Day
                           /\ d * Day <= House!At(d) /\ House!At(d) < d * Day + Day
         /\ \A d, e \in Nat : d < e => House!At(d) + Day <= House!At(e)
<1>1. Day \in Nat \ {0} /\ Day % 2 = 0 /\ Hours \subseteq {h \in 0..(Day - 1) : h % 2 = 0}
  BY HouseAssumption
<1>2. PICK a, b \in Hours : schedule = <<a, b>> /\ a # b
  BY DEF House!Schedules
<1>3. schedule[1] = a /\ schedule[2] = b
  BY <1>2
<1>4. a \in 0..(Day - 1) /\ b \in 0..(Day - 1) /\ a % 2 = 0 /\ b % 2 = 0
  BY <1>1, <1>2
<1>5. Day >= 2
  BY <1>1
<1>6. House!Window = IF b < a THEN b + Day - a ELSE b - a
  BY <1>3 DEF House!Window
<1>7. House!Window \in Nat /\ 2 <= House!Window /\ House!Window < Day
  BY <1>1, <1>2, <1>4, <1>6
<1>8. PICK h \in Nat : Day = 2 * h
  BY <1>1
<1>9. ASSUME NEW d \in Nat
      PROVE  /\ House!At(d) \in Nat /\ House!At(d) % 2 = 0
             /\ House!At(d + 1) = House!At(d) + Day
             /\ d * Day <= House!At(d) /\ House!At(d) < d * Day + Day
  <2>1. House!At(d) = d * Day + a /\ House!At(d + 1) = (d + 1) * Day + a
    BY <1>3 DEF House!At
  <2>2. d * Day \in Nat /\ (d + 1) * Day = d * Day + Day
    BY <1>1
  <2>3. d * h \in Nat /\ d * Day = 2 * (d * h)
    BY <1>8
  <2>4. (d * Day) % 2 = 0
    BY <2>3
  <2> QED
    BY <1>1, <1>4, <2>1, <2>2, <2>4
<1>10. ASSUME NEW d \in Nat, NEW e \in Nat, d < e
       PROVE  House!At(d) + Day <= House!At(e)
  <2>1. d * Day + Day <= e * Day /\ d * Day \in Nat /\ e * Day \in Nat
    BY <1>1, <1>10
  <2> QED
    BY <1>1, <1>3, <1>4, <2>1 DEF House!At
<1> QED
  BY <1>1, <1>3, <1>4, <1>5, <1>7, <1>9, <1>10

LEMMA DayOfFacts ==
  ASSUME schedule \in House!Schedules, NEW e \in Nat, NEW t \in Nat
  PROVE  /\ House!At(e) < t => e <= House!DayOf(t)
         /\ House!DayOf(House!At(e)) \in Nat /\ House!DayOf(House!At(e)) <= e
<1>1. /\ Day \in Nat \ {0} /\ House!At(e) \in Nat
      /\ e * Day <= House!At(e) /\ House!At(e) < e * Day + Day
  <2>1. /\ Day \in Nat /\ Day >= 2 /\ House!At(e) \in Nat
        /\ e * Day <= House!At(e) /\ House!At(e) < e * Day + Day
    BY DayFacts
  <2> QED
    BY <2>1
<1>2. e * Day \in Nat /\ (e + 1) * Day = e * Day + Day
  BY <1>1
<1>3. ASSUME House!At(e) < t PROVE e <= t \div Day
  BY <1>1, <1>2, <1>3
<1>4. House!At(e) < (e + 1) * Day
  BY <1>1, <1>2
<1>5. House!At(e) \div Day \in Nat /\ House!At(e) \div Day <= e
  BY <1>1, <1>4
<1> QED
  BY <1>3, <1>5 DEF House!DayOf

\* Windows of two days have nothing in common.
LEMMA WindowsApart ==
  ASSUME schedule \in House!Schedules, NEW d \in Nat, NEW e \in Nat, NEW p \in Nat, In(p, d), In(p, e)
  PROVE  d = e
<1>1. /\ House!Window \in Nat /\ House!Window < Day /\ Day \in Nat
      /\ House!At(d) \in Nat /\ House!At(e) \in Nat
      /\ d < e => House!At(d) + Day <= House!At(e)
      /\ e < d => House!At(e) + Day <= House!At(d)
  BY DayFacts
<1> QED
  BY <1>1 DEF In

\* The first moment does not change.
LEMMA FirstFacts ==
  ASSUME HouseType
  PROVE  House!First \in awake /\ House!First \in Nat /\ \A t \in awake : House!First <= t
<1>1. PICK f \in awake : \A t \in awake : f <= t
  BY DEF HouseType
<1>2. House!First \in awake /\ \A t \in awake : House!First <= t
  BY <1>1 DEF House!First
<1> QED
  BY <1>2 DEF HouseType

LEMMA HouseInit == House!Init => HouseInv
<1> SUFFICES ASSUME House!Init PROVE HouseInv
  OBVIOUS
<1>1. /\ schedule \in House!Schedules /\ houseNow \in 0..(Day - 1) /\ Odd(houseNow)
      /\ housekeepingTime = IF houseNow > House!At(0) THEN House!At(1) ELSE House!At(0)
      /\ housekeepingTimeLimit = housekeepingTime + House!Window
      /\ housekeepingId = House!DayOf(houseNow)
      /\ published = {} /\ awake = {houseNow}
  BY DEF House!Init, Odd
<1>2. /\ Day \in Nat /\ Day >= 2 /\ House!At(0) \in Nat /\ House!At(1) \in Nat
      /\ House!At(1) >= Day
  <2>1. Day \in Nat /\ Day >= 2 /\ House!At(0) \in Nat /\ House!At(0 + 1) = House!At(0) + Day
    BY <1>1, DayFacts
  <2>2. House!At(1) = House!At(0) + Day
    BY <2>1
  <2> QED
    BY <2>1, <2>2
<1>3. Day <= MaxDays * Day /\ MaxDays * Day \in Nat
  BY HouseAssumption
<1>4. HouseType
  BY <1>1, <1>2, <1>3 DEF HouseType
<1>5. House!First = houseNow
  BY <1>1, <1>4, FirstFacts
<1>6. housekeepingId = 0
  BY <1>1, <1>2 DEF House!DayOf
<1>7. DaysServed
  <2>1. ASSUME NEW d \in Nat, House!First < House!At(d), House!At(d) < houseNow PROVE FALSE
    <3>1. House!At(d) \in Nat
      BY <1>1, DayFacts
    <3> QED
      BY <1>1, <1>5, <2>1, <3>1
  <2> QED
    BY <2>1 DEF DaysServed
<1>8. housekeepingTime >= houseNow
  BY <1>1, <1>2
<1>9. PublishedOnce(0) /\ PublishedOnce(1) /\ CaughtUp(0) /\ CaughtUp(1)
  BY <1>1, <1>8 DEF PublishedOnce, CaughtUp
<1>10. CASE houseNow > House!At(0)
  <2>1. Turn(1)
    BY <1>1, <1>6, <1>10 DEF Turn
  <2> QED
    BY <1>4, <1>7, <1>9, <2>1 DEF HouseInv
<1>11. CASE ~(houseNow > House!At(0))
  <2>1. Turn(0)
    BY <1>1, <1>6, <1>11 DEF Turn
  <2> QED
    BY <1>4, <1>7, <1>9, <2>1 DEF HouseInv
<1> QED
  BY <1>10, <1>11

\* The next moment, of which nothing is known before it.
LEMMA HouseTick ==
  ASSUME HouseInv, NEW slept \in Nat, House!OnTick(slept)
  PROVE  /\ HouseType' /\ houseNow < houseNow' /\ houseNow' >= houseNow + 2
         /\ houseNow' = houseNow + 2 * (slept + 1)
         /\ House!First' = House!First /\ House!First \in awake
         /\ \A t \in 0..houseNow' : t \in awake' => t \in awake \/ t = houseNow'
         /\ awake' = awake \cup {houseNow'}
         /\ schedule' = schedule
<1>1. /\ houseNow' = houseNow + 2 * (slept + 1) /\ houseNow' < MaxDays * Day
      /\ awake' = awake \cup {houseNow'} /\ schedule' = schedule
  BY DEF House!OnTick
<1>2. /\ houseNow \in Nat /\ Odd(houseNow) /\ awake \subseteq 0..houseNow
      /\ \A t \in awake : Odd(t)
      /\ schedule \in House!Schedules
  BY DEF HouseInv, HouseType
<1>3. houseNow' \in Nat /\ houseNow' >= houseNow + 2 /\ Odd(houseNow')
  BY <1>1, <1>2 DEF Odd
<1>4. House!First \in awake /\ House!First \in Nat /\ \A t \in awake : House!First <= t
  BY FirstFacts DEF HouseInv
<1>5. House!First \in awake' /\ \A t \in awake' : House!First <= t
  BY <1>1, <1>2, <1>3, <1>4
<1>6. HouseType'
  <2>1. awake' \subseteq 0..houseNow' /\ houseNow' \in awake' /\ \A t \in awake' : Odd(t)
    BY <1>1, <1>2, <1>3
  <2>2. House!Schedules' = House!Schedules
    BY DEF House!Schedules
  <2> QED
    BY <1>1, <1>2, <1>3, <1>5, <2>1, <2>2 DEF HouseType
<1>7. House!First' \in awake' /\ \A t \in awake' : House!First' <= t
  BY <1>5 DEF House!First
<1>8. House!First' = House!First
  <2>1. House!First \in 0..houseNow' /\ House!First' \in 0..houseNow'
    BY <1>5, <1>6, <1>7 DEF HouseType
  <2>2. House!First' <= House!First /\ House!First <= House!First'
    BY <1>5, <1>7
  <2> QED
    BY <2>1, <2>2
<1> QED
  BY <1>1, <1>2, <1>3, <1>4, <1>6, <1>8

\* What was due before this tick was done then.
LEMMA DoneBefore ==
  ASSUME HouseInv, NEW slept \in Nat, House!OnTick(slept), published \subseteq published',
         NEW d \in Nat, House!First < House!At(d), House!At(d) < houseNow, d < MaxDays,
         \A t \in House!First..House!At(d) : t + Day > House!At(d) /\ Odd(t) => t \in awake',
         \A t \in 0..houseNow' : In(t, d) /\ Odd(t) => t \in awake'
  PROVE  \E p \in published' : In(p, d)
<1>1. /\ houseNow \in Nat /\ houseNow < houseNow' /\ awake' = awake \cup {houseNow'} /\ houseNow' \in Nat
      /\ House!First \in Nat
  BY HouseTick, FirstFacts DEF HouseInv, HouseType
<1>2. House!At(d) \in Nat
  BY DayFacts DEF HouseInv, HouseType
<1>3. AwakeBefore(d)
  BY <1>1, <1>2 DEF AwakeBefore
<1>4. AwakeIn(d)
  <2> SUFFICES ASSUME NEW t \in 0..houseNow, In(t, d), Odd(t) PROVE t \in awake
    BY DEF AwakeIn
  <2>1. t \in 0..houseNow' /\ t # houseNow'
    BY <1>1
  <2> QED
    BY <1>1, <2>1
<1>5. \E p \in published : In(p, d)
  BY <1>3, <1>4 DEF HouseInv, DaysServed
<1> QED
  BY <1>5

\* At and the window are those of the schedule, which does not change.
LEMMA SameDays ==
  ASSUME schedule' = schedule
  PROVE  /\ House!Window' = House!Window
         /\ \A d \in Nat : House!At(d)' = House!At(d)
         /\ \A p \in Nat, d \in Nat : In(p, d)' <=> In(p, d)
<1>1. House!Window' = House!Window
  BY DEF House!Window
<1>2. \A d \in Nat : House!At(d)' = House!At(d)
  BY DEF House!At
<1> QED
  BY <1>1, <1>2 DEF In

\* DaysServed is about the days before the next turn, if what was due after the last one is done, too.
LEMMA DoneStep ==
  ASSUME HouseInv, NEW slept \in Nat, House!OnTick(slept), published \subseteq published',
         \A d \in Nat :
           (/\ House!First < House!At(d) /\ House!At(d) < houseNow' /\ ~(House!At(d) < houseNow)
            /\ d < MaxDays
            /\ \A t \in House!First..House!At(d) : t + Day > House!At(d) /\ Odd(t) => t \in awake'
            /\ \A t \in 0..houseNow' : In(t, d) /\ Odd(t) => t \in awake')
           => \E p \in published' : In(p, d)
  PROVE  DaysServed'
<1>1. schedule' = schedule /\ House!First' = House!First
  BY HouseTick
<1>2. /\ \A d \in Nat : House!At(d)' = House!At(d)
      /\ \A p \in Nat, d \in Nat : In(p, d)' <=> In(p, d)
  BY <1>1, SameDays
<1>3. published' \subseteq Nat
  <2>1. published \subseteq Nat
    BY DEF HouseInv, HouseType, PublishedOnce
  <2>2. published' \subseteq published \cup {houseNow'} /\ houseNow' \in Nat
    BY HouseTick DEF House!OnTick, House!Publish, House!Miss, House!TooEarly, HouseType
  <2> QED
    BY <2>1, <2>2
<1>4. houseNow' \in Nat
  BY HouseTick DEF HouseType
<1> SUFFICES ASSUME NEW d \in Nat, House!First' < House!At(d)', House!At(d)' < houseNow', d < MaxDays,
                    AwakeBefore(d)', AwakeIn(d)'
             PROVE  \E p \in published' : In(p, d)'
  BY DEF DaysServed
<1>5. House!First < House!At(d) /\ House!At(d) < houseNow'
  BY <1>1, <1>2
<1>6. \A t \in House!First..House!At(d) : t + Day > House!At(d) /\ Odd(t) => t \in awake'
  BY <1>1, <1>2 DEF AwakeBefore, Odd
<1>7. \A t \in 0..houseNow' : In(t, d) /\ Odd(t) => t \in awake'
  BY <1>2, <1>4 DEF AwakeIn, Odd
<1>8. \E p \in published' : In(p, d)
  <2>1. CASE House!At(d) < houseNow
    BY <1>5, <1>6, <1>7, <2>1, DoneBefore
  <2>2. CASE ~(House!At(d) < houseNow)
    BY <1>5, <1>6, <1>7, <2>2
  <2> QED
    BY <2>1, <2>2
<1> QED
  BY <1>2, <1>3, <1>8

\* A tick before the time.
LEMMA EarlyKeeps ==
  ASSUME HouseInv, NEW slept \in Nat, House!OnTick(slept), House!TooEarly(houseNow')
  PROVE  HouseInv'
<1>1. /\ housekeepingTime >= houseNow' /\ published' = published
      /\ UNCHANGED <<housekeepingTime, housekeepingTimeLimit, housekeepingId>>
  BY DEF House!TooEarly
<1>2. PICK e \in Nat : Turn(e) /\ PublishedOnce(e) /\ CaughtUp(e)
  BY DEF HouseInv
<1>3. /\ HouseType' /\ houseNow < houseNow' /\ schedule' = schedule
      /\ houseNow \in Nat /\ houseNow' \in Nat /\ schedule \in House!Schedules
  BY HouseTick DEF HouseInv, HouseType
<1>4. /\ \A d \in Nat : House!At(d)' = House!At(d) /\ House!At(d) \in Nat
      /\ \A p \in Nat, d \in Nat : In(p, d)' <=> In(p, d)
      /\ House!Window' = House!Window
  BY <1>3, SameDays, DayFacts
<1>5. Turn(e)'
  <2>1. e # 0 => e - 1 \in Nat
    BY <1>2
  <2>2. e # 0 => House!At(e - 1) < houseNow'
    BY <1>2, <1>3, <1>4, <2>1 DEF Turn
  <2>3. e # 0 => House!At(e - 1)' < houseNow'
    BY <1>4, <2>1, <2>2
  <2> QED
    BY <1>1, <1>2, <1>4, <2>3 DEF Turn
<1>6. PublishedOnce(e)'
  <2>1. \A p \in published : p \in 0..houseNow' /\ p \in Nat /\ Odd(p) /\ \E d \in Nat : d < e /\ In(p, d)
    BY <1>2, <1>3 DEF PublishedOnce
  <2>2. \A p, q \in published, d \in Nat : In(p, d) /\ In(q, d) => p = q
    BY <1>2 DEF PublishedOnce
  <2> QED
    BY <1>1, <1>4, <2>1, <2>2 DEF PublishedOnce, Odd
<1>7. CaughtUp(e)'
  BY <1>1 DEF CaughtUp
<1>8. DaysServed'
  <2>1. ASSUME NEW d \in Nat, House!At(d) < houseNow', ~(House!At(d) < houseNow) PROVE FALSE
    <3>1. House!At(d) < House!At(e)
      BY <1>1, <1>2, <1>3, <1>4, <2>1 DEF Turn
    <3>2. d < e
      <4>1. CASE e < d
        BY <1>3, <1>4, <3>1, <4>1, DayFacts
      <4>2. CASE d = e
        BY <1>4, <3>1, <4>2
      <4> QED
        BY <1>2, <4>1, <4>2
    <3>3. e - 1 \in Nat /\ e # 0
      BY <1>2, <3>2
    <3>4. House!At(e - 1) < houseNow
      BY <1>2, <3>3 DEF Turn
    <3>5. House!At(d) <= House!At(e - 1)
      <4>1. CASE d = e - 1
        BY <1>4, <4>1
      <4>2. CASE d < e - 1
        BY <1>3, <1>4, <3>3, <4>2, DayFacts
      <4> QED
        BY <3>2, <3>3, <4>1, <4>2
    <3> QED
      BY <1>3, <1>4, <2>1, <3>3, <3>4, <3>5
  <2> QED
    BY <1>1, <2>1, DoneStep
<1> QED
  BY <1>3, <1>5, <1>6, <1>7, <1>8 DEF HouseInv

\* A tick at or after the time takes the turn of its day.
LEMMA TurnTaken ==
  ASSUME HouseInv, NEW slept \in Nat, House!OnTick(slept), NEW e \in Nat, Turn(e),
         House!At(e) < houseNow', House!NextDay
  PROVE  Turn(e + 1)'
<1>1. schedule' = schedule /\ schedule \in House!Schedules /\ houseNow' \in Nat
  BY HouseTick DEF HouseInv, HouseType
<1>2. /\ \A d \in Nat : House!At(d)' = House!At(d) /\ House!At(d) \in Nat
      /\ House!Window' = House!Window /\ House!Window \in Nat
  BY <1>1, SameDays, DayFacts
<1>3. e + 1 \in Nat /\ (e + 1) - 1 = e
  OBVIOUS
<1>4. House!At(e + 1) = House!At(e) + Day /\ Day \in Nat
  BY <1>1, DayFacts
<1>5. housekeepingTime' = House!At(e + 1)' /\ housekeepingTimeLimit' = House!At(e + 1)' + House!Window'
  BY <1>2, <1>3, <1>4 DEF Turn, House!NextDay
<1>6. housekeepingId' = House!DayOf(House!At(e + 1))
  <2>1. housekeepingTime' = House!At(e + 1)
    BY <1>2, <1>3, <1>5
  <2> QED
    BY <2>1 DEF House!NextDay, House!DayOf
<1>7. housekeepingId' \in Nat /\ housekeepingId' <= e + 1
  BY <1>1, <1>3, <1>6, DayOfFacts
<1>8. House!At((e + 1) - 1)' < houseNow'
  BY <1>2, <1>3
<1> QED
  BY <1>5, <1>7, <1>8 DEF Turn

\* What a tick at or after the time knows.
LEMMA TurnFacts ==
  ASSUME HouseInv, NEW slept \in Nat, House!OnTick(slept), NEW e \in Nat, Turn(e)
  PROVE  /\ housekeepingTime = House!At(e) /\ housekeepingTimeLimit = House!At(e) + House!Window
         /\ schedule \in House!Schedules /\ schedule' = schedule
         /\ houseNow \in Nat /\ Odd(houseNow) /\ houseNow' \in Nat /\ houseNow' >= houseNow + 2
         /\ House!Window \in Nat /\ House!Window >= 2 /\ House!Window < Day /\ Day \in Nat
         /\ \A d \in Nat : House!At(d) \in Nat /\ House!At(d)' = House!At(d)
         /\ \A p \in Nat, d \in Nat : In(p, d)' <=> In(p, d)
         /\ \A d \in Nat : d < e => House!At(d) < houseNow
<1>1. /\ schedule \in House!Schedules /\ schedule' = schedule /\ houseNow \in Nat /\ Odd(houseNow)
      /\ houseNow' \in Nat /\ houseNow' >= houseNow + 2
  BY HouseTick DEF HouseInv, HouseType
<1>2. /\ House!Window \in Nat /\ House!Window >= 2 /\ House!Window < Day /\ Day \in Nat
      /\ \A d \in Nat : House!At(d) \in Nat
  BY <1>1, DayFacts
<1>3. /\ \A d \in Nat : House!At(d)' = House!At(d)
      /\ \A p \in Nat, d \in Nat : In(p, d)' <=> In(p, d)
  BY <1>1, SameDays
<1>4. ASSUME NEW d \in Nat, d < e PROVE House!At(d) < houseNow
  <2>1. e - 1 \in Nat /\ e # 0 /\ (d = e - 1 \/ d < e - 1)
    BY <1>4
  <2>2. House!At(e - 1) < houseNow
    BY <2>1 DEF Turn
  <2>3. House!At(d) <= House!At(e - 1)
    <3>1. CASE d = e - 1
      BY <1>2, <3>1
    <3>2. CASE d < e - 1
      BY <1>1, <1>2, <2>1, <3>2, DayFacts
    <3> QED
      BY <2>1, <3>1, <3>2
  <2> QED
    BY <1>1, <1>2, <2>1, <2>2, <2>3
<1> QED
  BY <1>1, <1>2, <1>3, <1>4 DEF Turn

\* A tick in time.
LEMMA PublishKeeps ==
  ASSUME HouseInv, NEW slept \in Nat, House!OnTick(slept), House!Publish(houseNow')
  PROVE  HouseInv'
<1>1. /\ housekeepingTime < houseNow' /\ houseNow' < housekeepingTimeLimit
      /\ published' = published \cup {houseNow'} /\ House!NextDay
  BY DEF House!Publish
<1>2. PICK e \in Nat : Turn(e) /\ PublishedOnce(e) /\ CaughtUp(e)
  BY DEF HouseInv
<1>3. /\ housekeepingTime = House!At(e) /\ housekeepingTimeLimit = House!At(e) + House!Window
      /\ schedule \in House!Schedules /\ schedule' = schedule
      /\ houseNow \in Nat /\ houseNow' \in Nat /\ houseNow' >= houseNow + 2
      /\ House!Window \in Nat /\ House!Window >= 2 /\ House!Window < Day /\ Day \in Nat
      /\ \A d \in Nat : House!At(d) \in Nat /\ House!At(d)' = House!At(d)
      /\ \A p \in Nat, d \in Nat : In(p, d)' <=> In(p, d)
      /\ \A d \in Nat : d < e => House!At(d) < houseNow
  BY <1>2, TurnFacts
<1>4. In(houseNow', e) /\ House!At(e) < houseNow'
  BY <1>1, <1>3 DEF In
<1>5. HouseType' /\ Odd(houseNow')
  BY HouseTick DEF HouseType, Odd
<1>6. e + 1 \in Nat
  OBVIOUS
<1>7. Turn(e + 1)'
  BY <1>1, <1>2, <1>4, TurnTaken
<1>8. PublishedOnce(e + 1)'
  <2>1. ASSUME NEW p \in published'
        PROVE  p \in 0..houseNow' /\ p \in Nat /\ Odd(p) /\ \E d \in Nat : d < e + 1 /\ In(p, d)
    <3>1. CASE p = houseNow'
      BY <1>3, <1>4, <1>5, <3>1
    <3>2. CASE p \in published
      <4>1. p \in 0..houseNow /\ Odd(p)
        BY <1>2, <3>2 DEF PublishedOnce
      <4>2. PICK d \in Nat : d < e /\ In(p, d)
        BY <1>2, <3>2 DEF PublishedOnce
      <4>3. d < e + 1
        BY <4>2
      <4> QED
        BY <1>3, <4>1, <4>2, <4>3
    <3> QED
      BY <1>1, <3>1, <3>2
  <2>2. ASSUME NEW p \in published, NEW d \in Nat, In(p, d), In(houseNow', d) PROVE FALSE
    <3>1. d = e
      BY <1>3, <1>4, <2>2, WindowsApart
    <3>2. PICK c \in Nat : c < e /\ In(p, c)
      BY <1>2 DEF PublishedOnce
    <3>3. p \in Nat
      BY <1>1, <2>1
    <3>4. d = c
      BY <1>3, <2>2, <3>2, <3>3, WindowsApart
    <3> QED
      BY <3>1, <3>2, <3>4
  <2>3. ASSUME NEW p \in published', NEW q \in published', NEW d \in Nat, In(p, d), In(q, d)
        PROVE  p = q
    <3>1. CASE p \in published /\ q \in published
      BY <1>2, <2>3, <3>1 DEF PublishedOnce
    <3> QED
      BY <1>1, <2>2, <2>3, <3>1
  <2> QED
    BY <1>3, <2>1, <2>3 DEF PublishedOnce, Odd
<1>9. CaughtUp(e + 1)'
  <2>1. housekeepingTime' = House!At(e) + Day
    BY <1>1, <1>3 DEF House!NextDay
  <2>2. housekeepingTime' >= houseNow'
    BY <1>1, <1>2, <1>3, <2>1
  <2> QED
    BY <2>2 DEF CaughtUp
<1>10. DaysServed'
  <2>1. ASSUME NEW d \in Nat, House!At(d) < houseNow', ~(House!At(d) < houseNow)
        PROVE  d = e
    <3>1. ~(d < e)
      BY <1>3, <2>1
    <3>2. CASE e < d
      <4>1. House!At(e) + Day <= House!At(d)
        BY <1>3, <3>2, DayFacts
      <4> QED
        BY <1>1, <1>2, <1>3, <2>1, <4>1
    <3> QED
      BY <1>2, <3>1, <3>2
  <2>2. houseNow' \in published' /\ In(houseNow', e)
    BY <1>1, <1>4
  <2> QED
    BY <1>1, <2>1, <2>2, DoneStep
<1> QED
  BY <1>5, <1>6, <1>7, <1>8, <1>9, <1>10 DEF HouseInv

\* A tick too late.
LEMMA MissKeeps ==
  ASSUME HouseInv, NEW slept \in Nat, House!OnTick(slept), House!Miss(houseNow')
  PROVE  HouseInv'
<1>1. /\ housekeepingTime < houseNow'
      /\ ~(houseNow' < housekeepingTimeLimit /\ housekeepingId <= House!DayOf(houseNow'))
      /\ published' = published /\ House!NextDay
  BY DEF House!Miss
<1>2. PICK e \in Nat : Turn(e) /\ PublishedOnce(e) /\ CaughtUp(e)
  BY DEF HouseInv
<1>3. /\ housekeepingTime = House!At(e) /\ housekeepingTimeLimit = House!At(e) + House!Window
      /\ schedule \in House!Schedules /\ schedule' = schedule
      /\ houseNow \in Nat /\ Odd(houseNow) /\ houseNow' \in Nat /\ houseNow' >= houseNow + 2
      /\ House!Window \in Nat /\ House!Window >= 2 /\ House!Window < Day /\ Day \in Nat
      /\ \A d \in Nat : House!At(d) \in Nat /\ House!At(d)' = House!At(d)
      /\ \A p \in Nat, d \in Nat : In(p, d)' <=> In(p, d)
      /\ \A d \in Nat : d < e => House!At(d) < houseNow
  BY <1>2, TurnFacts
<1>4. /\ House!First' = House!First /\ House!First \in awake /\ awake' = awake \cup {houseNow'}
      /\ houseNow' = houseNow + 2 * (slept + 1)
      /\ \A t \in 0..houseNow' : t \in awake' => t \in awake \/ t = houseNow'
  BY HouseTick
<1>5. HouseType' /\ Odd(houseNow') /\ awake \subseteq 0..houseNow /\ \A t \in awake : Odd(t)
  BY HouseTick DEF HouseType, HouseInv, Odd
<1>6. House!At(e) + House!Window <= houseNow'
  <2>1. e <= House!DayOf(houseNow')
    BY <1>1, <1>3, DayOfFacts
  <2>2. House!DayOf(houseNow') \in Nat
    <3>1. Day \in Nat \ {0} /\ houseNow' \in Nat
      BY <1>3, HouseAssumption
    <3>2. \A t \in Nat, n \in Nat \ {0} : t \div n \in Nat
      OBVIOUS
    <3> QED
      BY <3>1, <3>2 DEF House!DayOf
  <2>3. housekeepingId \in Nat /\ housekeepingId <= e
    BY <1>2 DEF Turn
  <2>4. housekeepingId <= House!DayOf(houseNow')
    BY <1>2, <2>1, <2>2, <2>3
  <2>5. ~(houseNow' < housekeepingTimeLimit)
    BY <1>1, <2>4
  <2> QED
    BY <1>2, <1>3, <2>5
<1>7. e + 1 \in Nat
  OBVIOUS
<1>8. Turn(e + 1)'
  BY <1>1, <1>2, <1>3, TurnTaken
<1>9. PublishedOnce(e + 1)'
  <2>1. ASSUME NEW p \in published
        PROVE  p \in 0..houseNow' /\ p \in Nat /\ Odd(p) /\ \E d \in Nat : d < e + 1 /\ In(p, d)
    <3>1. p \in 0..houseNow /\ Odd(p)
      BY <1>2 DEF PublishedOnce
    <3>2. PICK d \in Nat : d < e /\ In(p, d)
      BY <1>2 DEF PublishedOnce
    <3>3. d < e + 1
      BY <3>2
    <3> QED
      BY <1>3, <3>1, <3>2, <3>3
  <2>2. \A p, q \in published, d \in Nat : In(p, d) /\ In(q, d) => p = q
    BY <1>2 DEF PublishedOnce
  <2> QED
    BY <1>1, <1>3, <2>1, <2>2 DEF PublishedOnce, Odd
<1>10. House!At(e) % 2 = 0
  BY <1>3, DayFacts
<1>11. CaughtUp(e + 1)'
  <2> SUFFICES ASSUME NEW a \in awake', \A t \in a..houseNow' : Odd(t) => t \in awake'
               PROVE  a # House!First /\ 2 * (e + 1) >= houseNow' - a
    BY <1>4 DEF CaughtUp, AwakeFrom, Odd
  <2>1. CASE a = houseNow'
    <3>1. House!First <= houseNow /\ House!First \in Nat
      BY <1>4, <1>5
    <3>2. a # House!First
      BY <1>3, <2>1, <3>1
    <3>3. \A t \in Nat : 2 * (e + 1) >= t - t
      BY <1>2
    <3> QED
      BY <1>3, <2>1, <3>2, <3>3
  <2>2. CASE a \in awake
    <3>1. a \in 0..houseNow /\ a \in Nat
      BY <1>3, <1>5, <2>2
    <3>2. houseNow' = houseNow + 2
      <4> SUFFICES ASSUME houseNow' # houseNow + 2 PROVE FALSE
        OBVIOUS
      <4>1. houseNow + 2 \in a..houseNow' /\ houseNow + 2 # houseNow'
        BY <1>3, <3>1
      <4>2. Odd(houseNow + 2)
        BY <1>3 DEF Odd
      <4>3. houseNow + 2 \in awake
        BY <1>4, <4>1, <4>2
      <4> QED
        BY <1>3, <1>5, <4>3
    <3>3. AwakeFrom(a)
      <4> SUFFICES ASSUME NEW t \in a..houseNow, Odd(t) PROVE t \in awake
        BY DEF AwakeFrom
      <4>1. t \in a..houseNow' /\ t # houseNow'
        BY <1>3, <3>1
      <4> QED
        BY <1>4, <4>1
    <3>4. housekeepingTime >= houseNow \/ (a # House!First /\ 2 * e >= houseNow - a)
      BY <1>2, <2>2, <3>3 DEF CaughtUp
    <3>5. ~(housekeepingTime >= houseNow)
      <4>1. House!At(e) \in Nat /\ House!At(e) + 2 <= houseNow + 2
        BY <1>2, <1>3, <1>6, <3>2
      <4>2. House!At(e) # houseNow
        BY <1>3, <1>10 DEF Odd
      <4> QED
        BY <1>3, <4>1, <4>2
    <3> QED
      BY <1>2, <1>3, <3>1, <3>2, <3>4, <3>5
  <2> QED
    BY <1>4, <2>1, <2>2
<1>12. DaysServed'
  <2> SUFFICES ASSUME NEW d \in Nat, House!First < House!At(d), House!At(d) < houseNow',
                      ~(House!At(d) < houseNow), d < MaxDays,
                      \A t \in House!First..House!At(d) :
                        t + Day > House!At(d) /\ Odd(t) => t \in awake',
                      \A t \in 0..houseNow' : In(t, d) /\ Odd(t) => t \in awake'
               PROVE  FALSE
    BY <1>1, DoneStep
  <2>1. House!At(d) \in Nat /\ House!At(d) % 2 = 0
    BY <1>3, DayFacts
  <2>2. House!At(d) > houseNow
    BY <1>3, <2>1 DEF Odd
  <2>3. ~(d < e)
    BY <1>3, <2>1
  <2>4. CASE d = e
    <3>1. /\ House!At(d) + 1 \in 0..houseNow' /\ House!At(d) + 1 # houseNow'
          /\ House!At(d) + 1 < House!At(d) + House!Window /\ House!At(d) < House!At(d) + 1
      BY <1>2, <1>3, <1>6, <2>1, <2>4
    <3>2. Odd(House!At(d) + 1)
      BY <2>1 DEF Odd
    <3>3. In(House!At(d) + 1, d)
      BY <3>1 DEF In
    <3>4. House!At(d) + 1 \in awake
      BY <1>4, <3>1, <3>2, <3>3
    <3> QED
      BY <1>3, <1>5, <2>1, <2>2, <3>4
  <2>5. CASE e < d
    <3>1. House!First \in Nat /\ House!First <= houseNow /\ Odd(House!First)
      BY <1>4, <1>5
    <3>2. \A t \in House!First..House!At(d) : t + Day > House!At(d) /\ Odd(t) => t \in awake
      <4> SUFFICES ASSUME NEW t \in House!First..House!At(d), t + Day > House!At(d), Odd(t)
                   PROVE  t \in awake
        OBVIOUS
      <4>1. t \in 0..houseNow' /\ t # houseNow'
        BY <1>3, <2>1, <3>1
      <4> QED
        BY <1>4, <4>1
    <3>3. Day \in Nat /\ Day >= 3 /\ Day % 2 = 0 /\ House!At(e) + Day <= House!At(d)
      BY <1>2, <1>3, <2>5, DayFacts, HouseAssumption
    <3>4. houseNow = House!At(d) - 1
      <4>1. House!At(d) - 1 \in House!First..House!At(d) /\ (House!At(d) - 1) + Day > House!At(d)
        BY <2>1, <2>2, <3>1, <3>3, <1>3
      <4>2. Odd(House!At(d) - 1)
        <5>1. \A x \in Nat : x % 2 = 0 /\ x > 0 => (x - 1) % 2 = 1
          OBVIOUS
        <5>2. House!At(d) > 0
          BY <1>3, <2>1, <2>2
        <5> QED
          BY <2>1, <5>1, <5>2 DEF Odd
      <4>3. House!At(d) - 1 \in awake
        BY <3>2, <4>1, <4>2
      <4>4. House!At(d) - 1 \in 0..houseNow
        BY <1>5, <4>3
      <4>5. houseNow \in Nat
        BY <1>3
      <4> QED
        BY <2>1, <2>2, <4>4, <4>5
    <3> DEFINE a == IF House!First + Day > House!At(d) THEN House!First ELSE (House!At(d) - Day) + 1
    <3>5. /\ a \in House!First..House!At(d) /\ a + Day > House!At(d) /\ a <= houseNow
          /\ (a = House!First \/ a = (House!At(d) - Day) + 1)
      <4>1. CASE House!First + Day > House!At(d)
        BY <1>3, <2>1, <2>2, <3>1, <3>3, <4>1
      <4>2. CASE ~(House!First + Day > House!At(d))
        BY <1>3, <2>1, <2>2, <3>1, <3>3, <3>4, <4>2
      <4> QED
        BY <4>1, <4>2
    <3>6. Odd(a)
      <4>1. Odd((House!At(d) - Day) + 1)
        BY <2>1, <3>3 DEF Odd
      <4> QED
        BY <3>1, <4>1
    <3> HIDE DEF a
    <3>7. a \in awake /\ a \in Nat
      BY <3>1, <3>2, <3>5, <3>6, <2>1
    <3>8. AwakeFrom(a)
      <4> SUFFICES ASSUME NEW t \in a..houseNow, Odd(t) PROVE t \in awake
        BY DEF AwakeFrom
      <4>1. t \in House!First..House!At(d) /\ t + Day > House!At(d)
        BY <1>3, <2>1, <2>2, <3>1, <3>3, <3>5, <3>7
      <4> QED
        BY <3>2, <4>1
    <3>9. housekeepingTime >= houseNow \/ (a # House!First /\ 2 * e >= houseNow - a)
      BY <1>2, <3>7, <3>8 DEF CaughtUp
    <3>10. ~(housekeepingTime >= houseNow)
      BY <1>2, <1>3, <2>1, <3>3, <3>4
    <3>11. a = (House!At(d) - Day) + 1 /\ 2 * e >= houseNow - a
      BY <3>5, <3>9, <3>10
    <3>12. 2 * e >= Day - 2
      BY <1>2, <1>3, <2>1, <3>3, <3>4, <3>11
    <3>13. MaxDays \in Nat /\ 2 * MaxDays <= Day
      BY HouseAssumption
    <3> QED
      BY <1>2, <2>5, <3>3, <3>12, <3>13
  <2> QED
    BY <1>2, <2>3, <2>4, <2>5
<1> QED
  BY <1>5, <1>7, <1>8, <1>9, <1>11, <1>12 DEF HouseInv

LEMMA HouseStep == HouseInv /\ [House!Next]_houseVars => HouseInv'
<1>1. ASSUME HouseInv, NEW slept \in 0..(MaxDays * Day), House!OnTick(slept) PROVE HouseInv'
  <2>1. slept \in Nat
    BY HouseAssumption
  <2>2. House!Publish(houseNow') \/ House!Miss(houseNow') \/ House!TooEarly(houseNow')
    BY <1>1 DEF House!OnTick
  <2> QED
    BY <1>1, <2>1, <2>2, PublishKeeps, MissKeeps, EarlyKeeps
<1>2. ASSUME HouseInv, UNCHANGED houseVars PROVE HouseInv'
  <2>1. /\ schedule' = schedule /\ houseNow' = houseNow /\ housekeepingTime' = housekeepingTime
        /\ housekeepingTimeLimit' = housekeepingTimeLimit /\ housekeepingId' = housekeepingId
        /\ published' = published /\ awake' = awake
    BY <1>2 DEF houseVars
  <2> QED
    BY <1>2, <2>1 DEF HouseInv, HouseType, Turn, PublishedOnce, CaughtUp, DaysServed, AwakeFrom, AwakeBefore, AwakeIn,
                      In, Odd, House!At, House!First, House!Window, House!Schedules
<1> QED
  BY <1>1, <1>2 DEF House!Next

LEMMA HouseCardinality == \A S : House!Cardinality(S) = Cardinality(S)
  BY DEF House!Cardinality, Cardinality

LEMMA HouseImplies == HouseInv => House!OncePerDay
<1> SUFFICES ASSUME HouseInv PROVE House!OncePerDay
  OBVIOUS
<1>1. /\ schedule \in House!Schedules /\ houseNow \in Nat /\ houseNow < MaxDays * Day
      /\ MaxDays \in Nat /\ Day \in Nat /\ MaxDays * Day \in Nat
  BY HouseAssumption DEF HouseInv, HouseType
<1>2. PICK e \in Nat : PublishedOnce(e)
  BY DEF HouseInv
<1>3. \A d \in Nat : House!At(d) < houseNow => d < MaxDays
  <2> SUFFICES ASSUME NEW d \in Nat, House!At(d) < houseNow, ~(d < MaxDays) PROVE FALSE
    OBVIOUS
  <2>1. d * Day <= House!At(d) /\ House!At(d) \in Nat /\ d * Day \in Nat
    BY <1>1, DayFacts
  <2>2. MaxDays * Day <= d * Day
    BY <1>1
  <2> QED
    BY <1>1, <2>1, <2>2
<1>4. \A d \in Nat : House!At(d) \in Nat /\ House!Window \in Nat
  BY <1>1, DayFacts
<1>5. \A t \in published : \E d \in 0..MaxDays : t \in House!InWindow(d)
  <2> SUFFICES ASSUME NEW t \in published PROVE \E d \in 0..MaxDays : t \in House!InWindow(d)
    OBVIOUS
  <2>1. t \in 0..houseNow /\ Odd(t)
    BY <1>2 DEF PublishedOnce
  <2>2. PICK d \in Nat : In(t, d)
    BY <1>2 DEF PublishedOnce
  <2>3. House!At(d) < houseNow
    BY <1>1, <1>4, <2>1, <2>2 DEF In
  <2>4. d \in 0..MaxDays
    BY <1>1, <1>3, <2>3
  <2>5. t \in House!InWindow(d)
    BY <2>1, <2>2 DEF House!InWindow, In, Odd
  <2> QED
    BY <2>4, <2>5
<1>6. ASSUME NEW d \in 0..MaxDays PROVE Cardinality(published \cap House!InWindow(d)) <= 1
  <2> DEFINE P == published \cap House!InWindow(d)
  <2>1. \A p, q \in P : p = q
    BY <1>1, <1>2, <1>6 DEF PublishedOnce, House!InWindow, In
  <2> HIDE DEF P
  <2>2. CASE P = {}
    BY <2>2, FS_EmptySet DEF P
  <2>3. CASE P # {}
    <3>1. PICK p : P = {p}
      BY <2>1, <2>3
    <3>2. Cardinality(P) = 1
      BY <3>1, FS_Singleton
    <3> QED
      BY <3>2 DEF P
  <2> QED
    BY <2>2, <2>3
<1>7. ASSUME NEW d \in 0..MaxDays, House!First < House!At(d), houseNow > House!At(d) + House!Window,
             House!InWindow(d) \cup House!DayBefore(d) \subseteq awake
      PROVE  published \cap House!InWindow(d) # {}
  <2>1. d \in Nat /\ House!At(d) < houseNow /\ d < MaxDays
    BY <1>1, <1>3, <1>4, <1>7
  <2>2. AwakeBefore(d)
    BY <1>7 DEF AwakeBefore, House!DayBefore, Odd
  <2>3. AwakeIn(d)
    BY <1>7 DEF AwakeIn, House!InWindow, In, Odd
  <2>4. PICK p \in published : In(p, d)
    BY <1>7, <2>1, <2>2, <2>3 DEF HouseInv, DaysServed
  <2>5. p \in 0..houseNow /\ Odd(p)
    BY <1>2 DEF PublishedOnce
  <2>6. p \in House!InWindow(d)
    BY <2>4, <2>5 DEF House!InWindow, In, Odd
  <2> QED
    BY <2>6
<1>8. \A d \in 0..MaxDays :
        (/\ House!First < House!At(d) /\ houseNow > House!At(d) + House!Window
         /\ House!InWindow(d) # {}
         /\ House!InWindow(d) \cup House!DayBefore(d) \subseteq awake)
          => published \cap House!InWindow(d) # {}
  BY <1>7
<1> QED
  BY <1>5, <1>6, <1>8, HouseCardinality DEF House!OncePerDay

-----------------------------------------------------------------------------
(* Metrics.  First greatest and least elements.                            *)

LEMMA LeastExists ==
  ASSUME NEW S, S \subseteq Nat, S # {}
  PROVE  \E x \in S : \A y \in S : x <= y
<1> DEFINE R == OpToRel(<, Nat)
<1>1. IsWellFoundedOn(R, Nat)
  BY NatLessThanWellFounded
<1>2. \A x, y : <<x, y>> \in R <=> x \in Nat /\ y \in Nat /\ x < y
  BY Zenon DEF OpToRel
<1> HIDE DEF R
<1>3. PICK x \in S : \A y \in S : ~(<<y, x>> \in R)
  BY <1>1, WFMin
<1>4. \A y \in S : ~(y < x)
  BY <1>2, <1>3
<1> QED
  BY <1>3, <1>4

LEMMA MeasuredCardinality == \A S : Meter!Cardinality(S) = Cardinality(S)
  BY DEF Cardinality, Meter!Cardinality

LEMMA MaxIs ==
  ASSUME NEW S, S \subseteq Int, NEW x \in S, \A y \in S : y <= x
  PROVE  Meter!Max(S) = x
<1> DEFINE P(z) == \A y \in S : z >= y
<1>1. x \in S /\ P(x)
  OBVIOUS
<1>2. Meter!Max(S) = CHOOSE z \in S : P(z)
  BY Zenon DEF Meter!Max
<1>3. Meter!Max(S) \in S /\ P(Meter!Max(S))
  <2> HIDE DEF P
  <2> QED
    BY <1>1, <1>2
<1>4. Meter!Max(S) \in Int /\ x \in Int
  BY <1>3
<1> QED
  BY <1>3, <1>4

LEMMA MinIs ==
  ASSUME NEW S, S \subseteq Int, NEW x \in S, \A y \in S : x <= y
  PROVE  Meter!Min(S) = x
<1> DEFINE P(z) == \A y \in S : z =< y
<1>1. x \in S /\ P(x)
  OBVIOUS
<1>2. Meter!Min(S) = CHOOSE z \in S : P(z)
  BY Zenon DEF Meter!Min
<1>3. Meter!Min(S) \in S /\ P(Meter!Min(S))
  <2> HIDE DEF P
  <2> QED
    BY <1>1, <1>2
<1>4. Meter!Min(S) \in Int /\ x \in Int
  BY <1>3
<1> QED
  BY <1>3, <1>4

LEMMA MinFacts ==
  ASSUME NEW S, S \subseteq Nat, S # {}
  PROVE  Meter!Min(S) \in S /\ \A y \in S : Meter!Min(S) <= y
<1>1. PICK x \in S : \A y \in S : x <= y
  BY LeastExists
<1>2. S \subseteq Int /\ x \in S
  OBVIOUS
<1>3. Meter!Min(S) = x
  BY <1>1, <1>2, MinIs
<1> QED
  BY <1>1, <1>3

LEMMA MaxFacts ==
  ASSUME NEW S, S \subseteq Nat, S # {}, NEW n \in Nat, \A y \in S : y <= n
  PROVE  Meter!Max(S) \in S /\ \A y \in S : y <= Meter!Max(S)
<1> DEFINE B == {b \in Nat : \A y \in S : y <= b}
<1>1. B \subseteq Nat /\ n \in B
  OBVIOUS
<1>2. PICK b \in B : \A c \in B : b <= c
  BY <1>1, LeastExists
<1>3. b \in Nat /\ \A y \in S : y <= b
  BY <1>2
<1>4. b \in S
  <2> SUFFICES ASSUME b \notin S PROVE FALSE
    OBVIOUS
  <2>1. \A y \in S : y \in Nat /\ y <= b /\ y # b
    BY <1>3
  <2>2. \A y \in S : y <= b - 1
    BY <2>1, <1>3
  <2>3. b - 1 \in Nat
    <3>1. PICK y \in S : TRUE
      OBVIOUS
    <3>2. y \in Nat /\ y <= b /\ y # b
      BY <2>1, <3>1
    <3> QED
      BY <3>2, <1>3
  <2>4. b - 1 \in B
    BY <2>2, <2>3
  <2> HIDE DEF B
  <2>5. b <= b - 1
    BY <2>4, <1>2
  <2> QED
    BY <2>5, <1>3
<1>5. S \subseteq Int
  OBVIOUS
<1>6. Meter!Max(S) = b
  BY <1>3, <1>4, <1>5, MaxIs
<1> QED
  BY <1>3, <1>4, <1>6

LEMMA MaxOfTwo ==
  ASSUME NEW a \in Int, NEW b \in Int
  PROVE  Meter!Max({a, b}) = IF a <= b THEN b ELSE a
<1>1. CASE a <= b
  <2>1. {a, b} \subseteq Int /\ b \in {a, b} /\ \A y \in {a, b} : y <= b
    BY <1>1
  <2> QED
    BY <2>1, <1>1, MaxIs
<1>2. CASE ~(a <= b)
  <2>1. {a, b} \subseteq Int /\ a \in {a, b} /\ \A y \in {a, b} : y <= a
    BY <1>2
  <2> QED
    BY <2>1, <1>2, MaxIs
<1> QED
  BY <1>1, <1>2

-----------------------------------------------------------------------------
(* What updates amount to.                                                 *)

LEMMA KindLike ==
  ASSUME NEW k \in Kind, k \notin Meter!NoReset
  PROVE  Meter!Like(k) \in {"sum", "max", "histogram"}
  BY MetricAssumption DEF Meter!NoReset, Meter!Like

LEMMA EmptyTally ==
  ASSUME NEW k \in Kind, k \notin Meter!NoReset
  PROVE  Meter!Tally(k, {}) = Meter!Zero(k)
<1>1. Meter!Cardinality({}) = 0
  BY FS_EmptySet, MeasuredCardinality
<1>2. Meter!Names({}) = {}
  BY DEF Meter!Names
<1>3. \A v : Meter!Times({}, v) = 0
  <2> TAKE v
  <2>1. {u \in {} : u.v = v} = {}
    OBVIOUS
  <2> QED
    BY <2>1, <1>1 DEF Meter!Times
<1>4. Meter!Total({}) = 0
  <2>1. Meter!Times({}, 1) = 0 /\ Meter!Times({}, 2) = 0 /\ Meter!Times({}, -1) = 0
    BY <1>3
  <2> QED
    BY <2>1 DEF Meter!Total
<1>5. CASE Meter!Like(k) = "sum"
  <2>1. Meter!Tally(k, {}) = [n \in Meter!Names({}) |-> Meter!Total(Meter!Named({}, n))]
    BY <1>5 DEF Meter!Tally
  <2>2. Meter!Zero(k) = [x \in {} |-> 0]
    BY <1>5 DEF Meter!Zero, Meter!NoEntry
  <2> QED
    BY <2>1, <2>2, <1>2
<1>6. CASE Meter!Like(k) = "max"
  <2>1. Meter!Tally(k, {}) = [n \in Meter!Names({}) |-> Meter!Max({u.v : u \in Meter!Named({}, n)})]
    BY <1>6 DEF Meter!Tally
  <2>2. Meter!Zero(k) = [x \in {} |-> 0]
    BY <1>6 DEF Meter!Zero, Meter!NoEntry
  <2> QED
    BY <2>1, <2>2, <1>2
<1>7. CASE Meter!Like(k) = "histogram"
  <2> DEFINE Part(b) == {u \in {} : u.v <= b}
             dict(b) == [n \in Meter!Names(Part(b)) |-> Meter!Cardinality(Meter!Named(Part(b), n))]
  <2>1. Meter!Tally(k, {}) = [buckets |-> [b \in Meter!Bound |-> dict(b)], sum |->
          Meter!Total({}), count |-> Meter!Cardinality({})]
    BY <1>7 DEF Meter!Tally
  <2>2. Meter!Zero(k) = [buckets |-> [b \in Meter!Bound |-> Meter!NoEntry], sum |-> 0, count |-> 0]
    BY <1>7 DEF Meter!Zero
  <2>3. \A b : Part(b) = {}
    OBVIOUS
  <2>4. \A b : dict(b) = Meter!NoEntry
    <3> TAKE b
    <3>1. Meter!Names(Part(b)) = {}
      BY <2>3, <1>2
    <3> HIDE DEF Part
    <3> QED
      BY <3>1 DEF Meter!NoEntry
  <2> HIDE DEF dict
  <2> QED
    BY <2>1, <2>2, <2>4, <1>1, <1>4
<1> QED
  BY <1>5, <1>6, <1>7, KindLike

LEMMA TimesOneMore ==
  ASSUME NEW U, IsFiniteSet(U), NEW u, u \notin U, NEW v
  PROVE  /\ Meter!Times(U, v) \in Nat
         /\ Meter!Times(U \cup {u}, v) = Meter!Times(U, v) + (IF u.v = v THEN 1 ELSE 0)
<1> DEFINE V == {w \in U : w.v = v}
<1>1. IsFiniteSet(V)
  BY FS_Subset
<1>2. Meter!Cardinality(V) \in Nat
  BY <1>1, FS_CardinalityType, MeasuredCardinality
<1>3. CASE u.v = v
  <2>1. {w \in U \cup {u} : w.v = v} = V \cup {u} /\ u \notin V
    BY <1>3
  <2>2. Meter!Cardinality(V \cup {u}) = Meter!Cardinality(V) + 1
    BY <2>1, <1>1, FS_AddElement, MeasuredCardinality
  <2> QED
    BY <2>1, <2>2, <1>2, <1>3 DEF Meter!Times
<1>4. CASE u.v # v
  <2>1. {w \in U \cup {u} : w.v = v} = V
    BY <1>4
  <2> HIDE DEF V
  <2>2. Meter!Times(U, v) = Meter!Cardinality(V)
    BY DEF Meter!Times, V
  <2>3. Meter!Times(U \cup {u}, v) = Meter!Cardinality(V)
    BY <2>1 DEF Meter!Times
  <2> QED
    BY <2>2, <2>3, <1>2, <1>4
<1> QED
  BY <1>3, <1>4

LEMMA TotalOneMore ==
  ASSUME NEW U, IsFiniteSet(U), NEW u, u \notin U, u.v \in {1, 2, -1}
  PROVE  Meter!Total(U) \in Int /\ Meter!Total(U \cup {u}) = Meter!Total(U) + u.v
<1>1. /\ Meter!Times(U, 1) \in Nat
      /\ Meter!Times(U \cup {u}, 1) = Meter!Times(U, 1) + (IF u.v = 1 THEN 1 ELSE 0)
  BY TimesOneMore
<1>2. /\ Meter!Times(U, 2) \in Nat
      /\ Meter!Times(U \cup {u}, 2) = Meter!Times(U, 2) + (IF u.v = 2 THEN 1 ELSE 0)
  BY TimesOneMore
<1>3. /\ Meter!Times(U, -1) \in Nat
      /\ Meter!Times(U \cup {u}, -1) = Meter!Times(U, -1) + (IF u.v = -1 THEN 1 ELSE 0)
  BY TimesOneMore
<1> QED
  BY <1>1, <1>2, <1>3 DEF Meter!Total

LEMMA NamedOneMore ==
  ASSUME NEW U, NEW u
  PROVE  /\ Meter!Names(U \cup {u}) = Meter!Names(U) \cup {u.n}
         /\ \A n : n # u.n => Meter!Named(U \cup {u}, n) = Meter!Named(U, n)
         /\ Meter!Named(U \cup {u}, u.n) = Meter!Named(U, u.n) \cup {u}
         /\ u.n \notin Meter!Names(U) => Meter!Named(U, u.n) = {}
         /\ \A n : n \in Meter!Names(U) => Meter!Named(U, n) # {}
  BY DEF Meter!Names, Meter!Named

\* Counting one update more is what Counted does.
LEMMA SumOneMore ==
  ASSUME NEW k, Meter!Like(k) = "sum", NEW U, IsFiniteSet(U), NEW u, u \notin U, u.v \in {1, 2, -1}
  PROVE  Meter!Tally(k, U \cup {u}) = Meter!Counted(k, Meter!Tally(k, U), u.n, u.v)
<1> DEFINE n == u.n
           N == Meter!Named(U, n)
           d == [x \in Meter!Names(U) |-> Meter!Total(Meter!Named(U, x))]
           e == IF n \in DOMAIN d THEN d[n] + u.v ELSE u.v
<1>1. Meter!Tally(k, U) = d
        /\ Meter!Tally(k, U \cup {u}) =
             [x \in Meter!Names(U \cup {u}) |-> Meter!Total(Meter!Named(U \cup {u}, x))]
  BY DEF Meter!Tally
<1>2. DOMAIN d = Meter!Names(U) /\ \A x \in Meter!Names(U) : d[x] = Meter!Total(Meter!Named(U, x))
  OBVIOUS
<1>3. IsFiniteSet(N) /\ u \notin N
  BY FS_Subset DEF Meter!Named
<1>4. Meter!Total(N) \in Int /\ Meter!Total(N \cup {u}) = Meter!Total(N) + u.v
  BY <1>3, TotalOneMore
<1>5. Meter!Total({}) = 0
  <2>1. \A v : Meter!Times({}, v) = 0
    <3> TAKE v
    <3>1. {w \in {} : w.v = v} = {}
      OBVIOUS
    <3> QED
      BY <3>1, FS_EmptySet, MeasuredCardinality DEF Meter!Times
  <2>2. Meter!Times({}, 1) = 0 /\ Meter!Times({}, 2) = 0 /\ Meter!Times({}, -1) = 0
    BY <2>1
  <2> QED
    BY <2>2 DEF Meter!Total
<1> HIDE DEF d, N
<1>6. Meter!Total(N \cup {u}) = e
  <2>1. CASE n \in Meter!Names(U)
    <3>1. d[n] = Meter!Total(N)
      BY <2>1, <1>2 DEF N
    <3> QED
      BY <3>1, <2>1, <1>2, <1>4
  <2>2. CASE n \notin Meter!Names(U)
    <3>1. N = {}
      BY <2>2, NamedOneMore DEF N
    <3> QED
      BY <3>1, <2>2, <1>2, <1>4, <1>5
  <2> QED
    BY <2>1, <2>2
<1>7. Meter!Counted(k, d, n, u.v) = Meter!Put(d, n, e)
  <2>1. CASE u.v > 0
    BY <2>1 DEF Meter!Counted, Meter!Added
  <2>2. CASE ~(u.v > 0)
    <3>1. u.v = -1
      BY <2>2
    <3>2. Meter!Counted(k, d, n, u.v) =
            Meter!Put(d, n, IF n \in DOMAIN d THEN d[n] - (0 - u.v) ELSE 0 - (0 - u.v))
      BY <2>2 DEF Meter!Counted, Meter!Subtracted
    <3>3. n \in DOMAIN d => d[n] \in Int
      BY <1>2, <1>4 DEF N
    <3>4. (IF n \in DOMAIN d THEN d[n] - (0 - u.v) ELSE 0 - (0 - u.v)) = e
      BY <3>1, <3>3
    <3> QED
      BY <3>2, <3>4
  <2> QED
    BY <2>1, <2>2
<1> HIDE DEF e
<1>8. Meter!Names(U \cup {u}) = Meter!Names(U) \cup {n}
        /\ (\A x : x # n => Meter!Named(U \cup {u}, x) = Meter!Named(U, x))
      /\ Meter!Named(U \cup {u}, n) = N \cup {u}
  BY NamedOneMore DEF N
<1>9. Meter!Put(d, n, e) = [x \in Meter!Names(U) \cup {n} |-> IF x = n THEN e ELSE d[x]]
  BY <1>2 DEF Meter!Put
<1>10. \A x \in Meter!Names(U) \cup {n} : Meter!Total(Meter!Named(U \cup {u}, x)) = IF x = n
         THEN e ELSE d[x]
  BY <1>2, <1>6, <1>8
<1> HIDE DEF n
<1> QED
  BY <1>1, <1>7, <1>8, <1>9, <1>10 DEF n

LEMMA MaxOneMore ==
  ASSUME NEW k, Meter!Like(k) = "max", NEW U, NEW u, \A w \in U \cup {u} : w.v \in {1, 2}
  PROVE  Meter!Tally(k, U \cup {u}) = Meter!Counted(k, Meter!Tally(k, U), u.n, u.v)
<1> DEFINE n == u.n
           N == Meter!Named(U, n)
           V == {w.v : w \in N}
           d == [x \in Meter!Names(U) |-> Meter!Max({w.v : w \in Meter!Named(U, x)})]
           e == IF n \in DOMAIN d /\ d[n] > u.v THEN d[n] ELSE u.v
<1>1. /\ Meter!Tally(k, U) = d
      /\ Meter!Tally(k, U \cup {u}) =
           [x \in Meter!Names(U \cup {u}) |-> Meter!Max({w.v : w \in Meter!Named(U \cup {u}, x)})]
  BY DEF Meter!Tally
<1>2. DOMAIN d = Meter!Names(U)
        /\ \A x \in Meter!Names(U) : d[x] = Meter!Max({w.v : w \in Meter!Named(U, x)})
  OBVIOUS
<1>3. V \subseteq {1, 2} /\ u.v \in {1, 2}
  BY DEF Meter!Named
<1>4. {w.v : w \in N \cup {u}} = V \cup {u.v}
  OBVIOUS
<1> HIDE DEF d, N, V
<1>5. Meter!Max(V \cup {u.v}) = e
  <2>1. CASE n \in Meter!Names(U)
    <3>1. d[n] = Meter!Max(V)
      BY <2>1, <1>2 DEF N, V
    <3>2. V # {}
      <4>0. Meter!Named(U, n) # {}
        BY <2>1, NamedOneMore
      <4>1. PICK w \in Meter!Named(U, n) : TRUE
        BY <4>0
      <4>2. w.v \in V
        BY <4>1 DEF V, N
      <4> QED
        BY <4>2
    <3>3. V \subseteq Nat /\ \A y \in V : y <= 2
      BY <1>3
    <3>4. 2 \in Nat
      OBVIOUS
    <3>5. Meter!Max(V) \in V /\ \A y \in V : y <= Meter!Max(V)
      BY <3>2, <3>3, <3>4, MaxFacts
    <3>6. V \cup {u.v} \subseteq Int /\ Meter!Max(V) \in Int /\ u.v \in Int
      <4>1. Meter!Max(V) \in {1, 2}
        BY <1>3, <3>5
      <4>2. V \cup {u.v} \subseteq {1, 2}
        BY <1>3
      <4>3. {1, 2} \subseteq Int
        OBVIOUS
      <4> QED
        BY <1>3, <4>1, <4>2, <4>3
    <3>7. CASE Meter!Max(V) > u.v
      <4>1. Meter!Max(V) \in V \cup {u.v} /\ \A y \in V \cup {u.v} : y <= Meter!Max(V)
        BY <3>5, <3>6, <3>7
      <4>2. Meter!Max(V \cup {u.v}) = Meter!Max(V)
        BY <4>1, <3>6, MaxIs
      <4> QED
        BY <4>2, <3>1, <3>7, <2>1, <1>2
    <3>8. CASE ~(Meter!Max(V) > u.v)
      <4>1. u.v \in V \cup {u.v} /\ \A y \in V \cup {u.v} : y <= u.v
        BY <3>5, <3>6, <3>8
      <4>2. Meter!Max(V \cup {u.v}) = u.v
        BY <4>1, <3>6, MaxIs
      <4> QED
        BY <4>2, <3>1, <3>8, <2>1, <1>2
    <3> QED
      BY <3>7, <3>8
  <2>2. CASE n \notin Meter!Names(U)
    <3>1. V = {}
      BY <2>2, NamedOneMore DEF N, V
    <3>2. V \cup {u.v} \subseteq Int /\ u.v \in V \cup {u.v} /\ \A y \in V \cup {u.v} : y <= u.v
      BY <3>1, <1>3
    <3>3. Meter!Max(V \cup {u.v}) = u.v
      BY <3>2, MaxIs
    <3> QED
      BY <3>3, <2>2, <1>2
  <2> QED
    BY <2>1, <2>2
<1>6. Meter!Counted(k, d, n, u.v) = Meter!Put(d, n, e)
  BY DEF Meter!Counted, Meter!Maximum
<1> HIDE DEF e
<1>7. Meter!Names(U \cup {u}) = Meter!Names(U) \cup {n}
        /\ (\A x : x # n => Meter!Named(U \cup {u}, x) = Meter!Named(U, x))
      /\ Meter!Named(U \cup {u}, n) = N \cup {u}
  BY NamedOneMore DEF N
<1>8. Meter!Put(d, n, e) = [x \in Meter!Names(U) \cup {n} |-> IF x = n THEN e ELSE d[x]]
  BY <1>2 DEF Meter!Put
<1>9. \A x \in Meter!Names(U) \cup {n} :
        Meter!Max({w.v : w \in Meter!Named(U \cup {u}, x)}) = IF x = n THEN e ELSE d[x]
  <2> TAKE x \in Meter!Names(U) \cup {n}
  <2>1. CASE x = n
    BY <2>1, <1>4, <1>5, <1>7
  <2>2. CASE x # n
    BY <2>2, <1>2, <1>7
  <2> QED
    BY <2>1, <2>2
<1> HIDE DEF n
<1> QED
  BY <1>1, <1>6, <1>7, <1>8, <1>9 DEF n

\* The updates in a bucket, by names.
InBucket(U, b) == {u \in U : u.v <= b}
Bucket(U, b) == [n \in Meter!Names(InBucket(U, b)) |->
  Meter!Cardinality(Meter!Named(InBucket(U, b), n))]

LEMMA BucketOneMore ==
  ASSUME NEW U, IsFiniteSet(U), NEW u, u \notin U, NEW b, u.v <= b
  PROVE  Bucket(U \cup {u}, b) = Meter!Added(Bucket(U, b), u.n, 1)
<1> DEFINE V == InBucket(U, b)
           n == u.n
           d == Bucket(U, b)
           e == IF n \in DOMAIN d THEN d[n] + 1 ELSE 1
<1>1. InBucket(U \cup {u}, b) = V \cup {u} /\ u \notin V /\ IsFiniteSet(V)
  BY FS_Subset DEF InBucket
<1> HIDE DEF V
<1>2. Bucket(U \cup {u}, b) =
        [x \in Meter!Names(V \cup {u}) |-> Meter!Cardinality(Meter!Named(V \cup {u}, x))]
  BY <1>1 DEF Bucket
<1>3. d = [x \in Meter!Names(V) |-> Meter!Cardinality(Meter!Named(V, x))]
  BY DEF Bucket, V
<1> HIDE DEF d
<1>4. /\ Meter!Names(V \cup {u}) = Meter!Names(V) \cup {n}
      /\ \A x : x # n => Meter!Named(V \cup {u}, x) = Meter!Named(V, x)
      /\ Meter!Named(V \cup {u}, n) = Meter!Named(V, n) \cup {u}
      /\ n \notin Meter!Names(V) => Meter!Named(V, n) = {}
  BY NamedOneMore
<1>5. IsFiniteSet(Meter!Named(V, n)) /\ u \notin Meter!Named(V, n)
  BY <1>1, FS_Subset DEF Meter!Named
<1>6. Meter!Cardinality(Meter!Named(V, n) \cup {u}) = Meter!Cardinality(Meter!Named(V, n)) + 1
        /\ Meter!Cardinality(Meter!Named(V, n)) \in Nat
  BY <1>5, FS_AddElement, FS_CardinalityType, MeasuredCardinality
<1>7. Meter!Cardinality(Meter!Named(V \cup {u}, n)) = e
  <2>1. CASE n \in Meter!Names(V)
    BY <2>1, <1>3, <1>4, <1>6
  <2>2. CASE n \notin Meter!Names(V)
    <3>1. Meter!Cardinality(Meter!Named(V, n)) = 0
      BY <2>2, <1>4, FS_EmptySet, MeasuredCardinality
    <3> QED
      BY <2>2, <3>1, <1>3, <1>4, <1>6
  <2> QED
    BY <2>1, <2>2
<1>8. Meter!Added(d, n, 1) = Meter!Put(d, n, e)
  BY DEF Meter!Added
<1> HIDE DEF e
<1>9. Meter!Put(d, n, e) = [x \in Meter!Names(V) \cup {n} |-> IF x = n THEN e ELSE d[x]]
  BY <1>3 DEF Meter!Put
<1>10. \A x \in Meter!Names(V) \cup {n} :
         Meter!Cardinality(Meter!Named(V \cup {u}, x)) = IF x = n THEN e ELSE d[x]
  <2> TAKE x \in Meter!Names(V) \cup {n}
  <2>1. CASE x = n
    BY <2>1, <1>7
  <2>2. CASE x # n
    BY <2>2, <1>3, <1>4
  <2> QED
    BY <2>1, <2>2
<1> HIDE DEF n
<1> QED
  BY <1>2, <1>4, <1>8, <1>9, <1>10 DEF n, d

LEMMA HistogramOneMore ==
  ASSUME NEW k, Meter!Like(k) = "histogram", NEW U, IsFiniteSet(U), NEW u, u \notin U,
         u.v \in {1, 2}
  PROVE  Meter!Tally(k, U \cup {u}) = Meter!Counted(k, Meter!Tally(k, U), u.n, u.v)
<1>1. \A W : Meter!Tally(k, W) =
        [buckets |-> [b \in Meter!Bound |-> Bucket(W, b)], sum |-> Meter!Total(W),
                            count |-> Meter!Cardinality(W)]
  BY DEF Meter!Tally, Bucket, InBucket
<1> DEFINE h == Meter!Tally(k, U)
<1>2. h.buckets = [b \in Meter!Bound |-> Bucket(U, b)] /\ h.sum = Meter!Total(U)
        /\ h.count = Meter!Cardinality(U)
  BY <1>1
<1>3. Meter!Total(U \cup {u}) = Meter!Total(U) + u.v
  BY TotalOneMore
<1>4. Meter!Cardinality(U \cup {u}) = Meter!Cardinality(U) + 1
  BY FS_AddElement, MeasuredCardinality
<1>5. \A b \in Meter!Bound : Bucket(U \cup {u}, b) = IF u.v <= b
        THEN Meter!Added(Bucket(U, b), u.n, 1) ELSE Bucket(U, b)
  <2> TAKE b \in Meter!Bound
  <2>1. CASE u.v <= b
    BY <2>1, BucketOneMore
  <2>2. CASE ~(u.v <= b)
    <3>1. InBucket(U \cup {u}, b) = InBucket(U, b)
      BY <2>2 DEF InBucket
    <3> QED
      BY <3>1, <2>2 DEF Bucket
  <2> QED
    BY <2>1, <2>2
<1> HIDE DEF h
<1>6. Meter!Counted(k, h, u.n, u.v) = Meter!Observed(h, u.n, u.v)
  BY DEF Meter!Counted
<1>7. Meter!Observed(h, u.n, u.v) =
        [buckets |-> [b \in Meter!Bound |-> IF u.v <= b THEN Meter!Added(Bucket(U, b), u.n, 1)
          ELSE Bucket(U, b)],
         sum |-> Meter!Total(U) + u.v, count |-> Meter!Cardinality(U) + 1]
  BY <1>2 DEF Meter!Observed
<1>8. Meter!Tally(k, U \cup {u}) = [buckets |-> [b \in Meter!Bound |-> Bucket(U \cup {u}, b)],
                              sum |-> Meter!Total(U \cup {u}),
                                count |-> Meter!Cardinality(U \cup {u})]
  BY <1>1
<1> QED
  BY <1>3, <1>4, <1>5, <1>6, <1>7, <1>8 DEF h

LEMMA TallyOneMore ==
  ASSUME NEW k \in Kind, k \notin Meter!NoReset, NEW U, IsFiniteSet(U), NEW u, u \notin U,
         \A w \in U \cup {u} : w.v \in Meter!Amounts(k)
  PROVE  Meter!Tally(k, U \cup {u}) = Meter!Counted(k, Meter!Tally(k, U), u.n, u.v)
<1>1. CASE Meter!Like(k) = "sum"
  <2>1. u.v \in {1, 2, -1}
    BY <1>1 DEF Meter!Amounts, Meter!Value
  <2> QED
    BY <1>1, <2>1, SumOneMore
<1>2. CASE Meter!Like(k) = "max"
  <2>1. \A w \in U \cup {u} : w.v \in {1, 2}
    BY <1>2 DEF Meter!Amounts, Meter!Value
  <2> QED
    BY <1>2, <2>1, MaxOneMore
<1>3. CASE Meter!Like(k) = "histogram"
  <2>1. u.v \in {1, 2}
    BY <1>3 DEF Meter!Amounts, Meter!Value
  <2> QED
    BY <1>3, <2>1, HistogramOneMore
<1> QED
  BY <1>1, <1>2, <1>3, KindLike

-----------------------------------------------------------------------------
(* The invariant of metrics.                                               *)

\* Updates are numbered in the order of time, and belong to a metric that was made before.
HistoryInv ==
  /\ now \in Nat /\ class \in Kind
  /\ flushes \subseteq 1..now
  /\ IsFiniteSet(updates)
  /\ \A u \in updates :
       /\ u.at \in 0..now /\ u.no \in 1..Meter!Cardinality(updates) /\ u.v \in Meter!Amounts(class)
       /\ u.m \in DOMAIN made /\ made[u.m].created <= u.at
       /\ class \notin Meter!Dynamic => u.tags = NoTags
  /\ \A u, w \in updates : (u.no = w.no => u = w) /\ (u.no < w.no => u.at <= w.at)

MadeInv ==
  /\ metrics \subseteq DOMAIN made
  /\ \A m \in DOMAIN made :
       /\ made[m] = [key |-> made[m].key, reset |-> made[m].reset, created |-> made[m].created,
                     lastTime |-> made[m].lastTime, fields |-> made[m].fields]
       /\ made[m].reset \in BOOLEAN /\ made[m].created \in 0..now /\ made[m].lastTime \in 0..now
       /\ class \notin Meter!Dynamic => DOMAIN made[m].fields = {NoTags}

\* What is counted is what came since the flush that the next interval begins with.
From(m, g) == Meter!Max({IF made[m].reset THEN Meter!LastFlush ELSE 0, Meter!Forgotten(m, g)})
Counting(m, g) == {u \in Meter!Of(m, g) : From(m, g) <= u.at}

CountInv(m) ==
  class \notin Meter!NoReset =>
    /\ \A g \in DOMAIN made[m].fields :
         /\ made[m].fields[g].actuals = Meter!Tally(class, Counting(m, g))
         /\ made[m].fields[g].values = Meter!RightValues(m, g)
    /\ class = "eps" =>
         made[m].lastTime = Meter!Max({made[m].created, IF made[m].reset THEN Meter!LastFlush
           ELSE 0})

\* Dynamic tags expire with their last update.
ExpiryInv(m) ==
  class \in Meter!Dynamic =>
    /\ Meter!FieldsAreRight(m)
    /\ \A g \in DOMAIN made[m].fields :
         /\ \E u \in Meter!Of(m, g) : made[m].fields[g].expires = u.at + Expiration
         /\ \A u \in Meter!Of(m, g) : u.at + Expiration <= made[m].fields[g].expires

CycleSet == [name : Name, on : BOOLEAN, since : Nat, off : Int, up : Int]

\* The last cycle knows how long it was on since the last flush, or since its first update,
\* until it was switched, and what it is since then.
Since(U, t) == Meter!Max({t, Meter!Min({u.at : u \in U})})
UpTime(U, s, t) == Meter!Cardinality({x \in s..(t - 1) : Meter!On(U, x)})
LastInv(U, c, flushed, t) ==
  /\ c.since \in Since(U, flushed)..t
  /\ c.up + c.off = c.since - Since(U, flushed)
  /\ c.up = UpTime(U, Since(U, flushed), c.since)
  /\ \A x \in Nat : c.since <= x => (Meter!On(U, x) <=> c.on)

CycleNames(a) == {a[i].name : i \in DOMAIN a}
NamedOf(m, n) == {u \in Meter!UpdatesOf(m) : u.n = n}
DutyInv(m) ==
  class = "duty" =>
    LET a == made[m].fields[NoTags].actuals
    IN /\ a \in Seq(CycleSet)
       /\ CycleNames(a) = Meter!Names(Meter!UpdatesOf(m))
       /\ \A i, j \in DOMAIN a : a[i].name = a[j].name => i = j
       /\ a # <<>> => LastInv(NamedOf(m, a[Len(a)].name), a[Len(a)], Meter!LastFlush, now)
       /\ Meter!DutyIsRight(m)

MetricInv(m) == CountInv(m) /\ ExpiryInv(m) /\ DutyInv(m)

MetricsInv ==
  HistoryInv /\ MadeInv /\ Meter!ListedOnce /\ \A m \in metrics : MetricInv(m)

-----------------------------------------------------------------------------
(* Flushes and what they forget.                                           *)

LEMMA FlushTimes ==
  ASSUME now \in Nat, flushes \subseteq 1..now
  PROVE  /\ Meter!LastFlush \in 0..now /\ Meter!LastFlush \in flushes \cup {0}
         /\ \A e \in flushes : e <= Meter!LastFlush
         /\ Meter!FlushBefore \in 0..Meter!LastFlush
         /\ Meter!LastFlush # 0 => Meter!FlushBefore < Meter!LastFlush
<1> DEFINE S == flushes \cup {0}
           B == (flushes \ {Meter!LastFlush}) \cup {0}
<1>1. S \subseteq Nat /\ S # {} /\ \A y \in S : y <= now
  OBVIOUS
<1>2. Meter!Max(S) \in S /\ \A y \in S : y <= Meter!Max(S)
  <2> HIDE DEF S
  <2> QED
    BY <1>1, MaxFacts
<1>3. Meter!LastFlush = Meter!Max(S)
  BY DEF Meter!LastFlush
<1>4. Meter!LastFlush \in S /\ \A y \in S : y <= Meter!LastFlush
  BY <1>2, <1>3
<1>5. B \subseteq Nat /\ B # {} /\ \A y \in B : y <= now
  <2>1. B \subseteq S /\ B # {}
    OBVIOUS
  <2> HIDE DEF B, S
  <2> QED
    BY <2>1, <1>1
<1>6. Meter!Max(B) \in B /\ \A y \in B : y <= Meter!Max(B)
  <2> HIDE DEF B
  <2> QED
    BY <1>5, MaxFacts
<1>7. Meter!FlushBefore = Meter!Max(B)
  BY DEF Meter!FlushBefore
<1>8. Meter!FlushBefore \in B
  BY <1>6, <1>7
<1>9. Meter!LastFlush \in 0..now
  BY <1>4
<1>10. Meter!FlushBefore \in 0..Meter!LastFlush
         /\ (Meter!LastFlush # 0 => Meter!FlushBefore < Meter!LastFlush)
  BY <1>4, <1>8, <1>9
<1> QED
  BY <1>4, <1>9, <1>10

LEMMA AfterFlush ==
  ASSUME now \in Nat, flushes \subseteq 1..now, flushes' = flushes \cup {now + 1}
  PROVE  Meter!LastFlush' = now + 1 /\ Meter!FlushBefore' = Meter!LastFlush
<1> DEFINE S == flushes' \cup {0}
           B == (flushes' \ {Meter!LastFlush'}) \cup {0}
<1>1. S \subseteq Int /\ now + 1 \in S /\ \A y \in S : y <= now + 1
  <2>1. \A y \in flushes : y \in Int /\ y <= now + 1
    <3>1. \A y \in 1..now : y \in Int /\ y <= now + 1
      OBVIOUS
    <3> QED
      BY <3>1
  <2>2. S = flushes \cup {now + 1, 0}
    OBVIOUS
  <2>3. now + 1 \in Int /\ 0 <= now + 1
    OBVIOUS
  <2> QED
    BY <2>1, <2>2, <2>3
<1>2. Meter!Max(S) = now + 1
  <2> HIDE DEF S
  <2> QED
    BY <1>1, MaxIs
<1>3. Meter!LastFlush' = now + 1
  BY <1>2 DEF Meter!LastFlush
<1>4. B = flushes \cup {0}
  BY <1>3
<1>5. Meter!FlushBefore' = Meter!Max(B)
  BY DEF Meter!FlushBefore
<1> QED
  BY <1>3, <1>4, <1>5 DEF Meter!LastFlush

Stale(m, g, e) == class \in Meter!Dynamic /\ \A u \in Meter!Of(m, g) : u.at < e
  => u.at + Expiration < e

LEMMA ForgottenFacts ==
  ASSUME now \in Nat, flushes \subseteq 1..now, NEW m, NEW g
  PROVE  /\ Meter!Forgotten(m, g) \in 0..Meter!LastFlush
         /\ class \notin Meter!Dynamic => Meter!Forgotten(m, g) = 0
         /\ (Meter!LastFlush # 0 /\ Stale(m, g, Meter!LastFlush))
              => Meter!Forgotten(m, g) = Meter!LastFlush
<1> DEFINE S == {0} \cup {e \in flushes : Stale(m, g, e)}
<1>1. Meter!Forgotten(m, g) = Meter!Max(S)
  BY DEF Meter!Forgotten, Stale
<1>2. Meter!LastFlush \in 0..now /\ Meter!LastFlush \in flushes \cup {0}
        /\ \A e \in flushes : e <= Meter!LastFlush
  BY FlushTimes
<1>4. Meter!LastFlush \in Nat
  BY <1>2
<1>3. S \subseteq Nat /\ S # {} /\ \A y \in S : y <= Meter!LastFlush
  <2>1. \A y \in flushes : y \in Nat /\ y <= Meter!LastFlush
    BY <1>2
  <2>2. 0 <= Meter!LastFlush
    BY <1>4
  <2>3. \A y \in S : y \in flushes \/ y = 0
    OBVIOUS
  <2>4. S # {}
    OBVIOUS
  <2> HIDE DEF S
  <2>5. \A y \in S : y \in Nat
    <3> TAKE y \in S
    <3>1. CASE y \in flushes
      BY <2>1, <3>1
    <3>2. CASE y = 0
      BY <3>2
    <3> QED
      BY <2>3, <3>1, <3>2
  <2>6. \A y \in S : y <= Meter!LastFlush
    BY <2>1, <2>2, <2>3
  <2> QED
    BY <2>4, <2>5, <2>6
<1>5. Meter!Max(S) \in S /\ \A y \in S : y <= Meter!Max(S)
  <2> HIDE DEF S
  <2> QED
    BY <1>3, <1>4, MaxFacts
<1>6. Meter!Max(S) \in 0..Meter!LastFlush
  <2> HIDE DEF S
  <2>1. Meter!Max(S) \in Nat
    BY <1>3, <1>5
  <2>2. Meter!Max(S) <= Meter!LastFlush
    BY <1>3, <1>5
  <2> QED
    BY <2>1, <2>2, <1>4
<1>7. ASSUME class \notin Meter!Dynamic PROVE Meter!Max(S) = 0
  <2>1. S = {0}
    BY <1>7 DEF Stale
  <2> QED
    BY <2>1, <1>5
<1>8. ASSUME Meter!LastFlush # 0, Stale(m, g, Meter!LastFlush) PROVE Meter!Max(S) = Meter!LastFlush
  <2>1. Meter!LastFlush \in S
    BY <1>2, <1>8
  <2> HIDE DEF S
  <2>2. Meter!LastFlush <= Meter!Max(S) /\ Meter!Max(S) <= Meter!LastFlush
    BY <2>1, <1>3, <1>5
  <2> QED
    BY <2>2, <1>4, <1>6
<1> HIDE DEF S
<1> QED
  BY <1>1, <1>6, <1>7, <1>8

\* Updates after the last flush do not change what was forgotten.
LEMMA ForgottenSame ==
  ASSUME NEW m, NEW g, now \in Nat, flushes \subseteq 1..now, class' = class, flushes' = flushes,
         Meter!Of(m, g) \subseteq Meter!Of(m, g)', \A u \in Meter!Of(m, g)' \ Meter!Of(m, g) :
           u.at = now
  PROVE  Meter!Forgotten(m, g)' = Meter!Forgotten(m, g)
<1>1. \A e \in flushes : Stale(m, g, e)' <=> Stale(m, g, e)
  <2> TAKE e \in flushes
  <2>1. e <= now /\ e \in Nat
    OBVIOUS
  <2>2. \A u \in Meter!Of(m, g)' \ Meter!Of(m, g) : ~(u.at < e)
    BY <2>1
  <2>3. (\A u \in Meter!Of(m, g)' : u.at < e => u.at + Expiration < e) <=>
        (\A u \in Meter!Of(m, g) : u.at < e => u.at + Expiration < e)
    BY <2>2
  <2> QED
    BY <2>3 DEF Stale
<1>2. {e \in flushes' : Stale(m, g, e)'} = {e \in flushes : Stale(m, g, e)}
  BY <1>1
<1>3. Meter!Forgotten(m, g) = Meter!Max({0} \cup {e \in flushes : Stale(m, g, e)})
  BY DEF Meter!Forgotten, Stale
<1>4. Meter!Forgotten(m, g)' = Meter!Max({0} \cup {e \in flushes' : Stale(m, g, e)'})
  BY DEF Meter!Forgotten, Stale
<1> QED
  BY <1>2, <1>3, <1>4

\* A flush at which the tags are not stale forgets nothing.
LEMMA ForgottenAtFlush ==
  ASSUME NEW m, NEW g, now \in Nat, class' = class, updates' = updates,
         flushes' = flushes \cup {now + 1}, ~Stale(m, g, now + 1)
  PROVE  Meter!Forgotten(m, g)' = Meter!Forgotten(m, g)
<1>1. \A e : Stale(m, g, e)' <=> Stale(m, g, e)
  BY DEF Stale, Meter!Of, Meter!UpdatesOf
<1>2. {e \in flushes' : Stale(m, g, e)'} = {e \in flushes : Stale(m, g, e)}
  BY <1>1
<1>3. Meter!Forgotten(m, g) = Meter!Max({0} \cup {e \in flushes : Stale(m, g, e)})
  BY DEF Meter!Forgotten, Stale
<1>4. Meter!Forgotten(m, g)' = Meter!Max({0} \cup {e \in flushes' : Stale(m, g, e)'})
  BY DEF Meter!Forgotten, Stale
<1> QED
  BY <1>2, <1>3, <1>4

-----------------------------------------------------------------------------
(* Duty cycles.                                                            *)

LEMMA OnBefore ==
  ASSUME NEW U, NEW u, u.at \in Nat, NEW t \in Nat, t < u.at
  PROVE  Meter!On(U \cup {u}, t) <=> Meter!On(U, t)
<1>1. ~(u.at <= t)
  OBVIOUS
<1> QED
  BY <1>1 DEF Meter!On

LEMMA OnAfter ==
  ASSUME NEW U, NEW u, u.no \in Nat, \A w \in U : w.no \in Nat /\ w.no < u.no,
         NEW t, u.at <= t
  PROVE  (Meter!On(U \cup {u}, t) <=> u.v = 2)
<1>1. ASSUME Meter!On(U \cup {u}, t) PROVE u.v = 2
  <2>1. PICK w \in U \cup {u} : w.v = 2 /\ (u.at <= t => u.no <= w.no)
    BY <1>1 DEF Meter!On
  <2>2. w \notin U
    BY <2>1
  <2> QED
    BY <2>1, <2>2
<1>2. ASSUME u.v = 2 PROVE Meter!On(U \cup {u}, t)
  <2>1. \A w \in U \cup {u} : w.no <= u.no
    OBVIOUS
  <2> QED
    BY <1>2, <2>1 DEF Meter!On
<1> QED
  BY <1>1, <1>2 DEF Meter!On

LEMMA UpTimeSame ==
  ASSUME NEW U, NEW W, NEW s, NEW t, \A x \in s..(t - 1) : (Meter!On(U, x) <=> Meter!On(W, x))
  PROVE  UpTime(U, s, t) = UpTime(W, s, t)
<1>1. {x \in s..(t - 1) : Meter!On(U, x)} = {x \in s..(t - 1) : Meter!On(W, x)}
  OBVIOUS
<1> QED
  BY <1>1 DEF UpTime

LEMMA NoUpTime ==
  ASSUME NEW U, NEW s \in Nat
  PROVE  UpTime(U, s, s) = 0
<1>1. s..(s - 1) = {}
  OBVIOUS
<1>2. {x \in s..(s - 1) : Meter!On(U, x)} = {}
  BY <1>1
<1> QED
  BY <1>2, FS_EmptySet, MeasuredCardinality DEF UpTime

\* The time up to t is that up to c and that from c on, when nothing is switched in between.
LEMMA UpTimeOn ==
  ASSUME NEW U, NEW s \in Nat, NEW c \in Nat, NEW t \in Nat, s <= c, c <= t
  PROVE  /\ UpTime(U, s, c) \in Nat
         /\ (\A x \in Nat : c <= x => Meter!On(U, x)) => UpTime(U, s, t) = UpTime(U, s, c) + (t - c)
         /\ (\A x \in Nat : c <= x => ~Meter!On(U, x)) => UpTime(U, s, t) = UpTime(U, s, c)
<1> DEFINE A == {x \in s..(c - 1) : Meter!On(U, x)}
           B == {x \in c..(t - 1) : Meter!On(U, x)}
           T == {x \in s..(t - 1) : Meter!On(U, x)}
<1>1. IsFiniteSet(s..(c - 1)) /\ IsFiniteSet(c..(t - 1)) /\ Meter!Cardinality(c..(t - 1)) = t - c
  <2>1. s \in Int /\ c \in Int /\ c - 1 \in Int /\ t - 1 \in Int
    OBVIOUS
  <2>2. IsFiniteSet(s..(c - 1)) /\ IsFiniteSet(c..(t - 1))
    BY <2>1, FS_Interval, MeasuredCardinality
  <2>3. Meter!Cardinality(c..(t - 1)) = IF c > t - 1 THEN 0 ELSE (t - 1) - c + 1
    BY <2>1, FS_Interval, MeasuredCardinality
  <2> QED
    BY <2>2, <2>3
<1>2. IsFiniteSet(A) /\ IsFiniteSet(B)
  BY <1>1, FS_Subset
<1>3. T = A \cup B
  OBVIOUS
<1>4. A \cap B = {}
  OBVIOUS
<1>5. Meter!Cardinality(A) \in Nat /\ Meter!Cardinality({}) = 0
  BY <1>2, FS_CardinalityType, FS_EmptySet, MeasuredCardinality
<1>6. /\ (\A x \in Nat : c <= x => Meter!On(U, x)) => Meter!Cardinality(B) = t - c
      /\ (\A x \in Nat : c <= x => ~Meter!On(U, x)) => Meter!Cardinality(B) = 0
  <2>1. \A x \in c..(t - 1) : x \in Nat /\ c <= x
    OBVIOUS
  <2>2. ASSUME \A x \in Nat : c <= x => Meter!On(U, x) PROVE Meter!Cardinality(B) = t - c
    <3>1. B = c..(t - 1)
      BY <2>1, <2>2
    <3> QED
      BY <3>1, <1>1
  <2>3. ASSUME \A x \in Nat : c <= x => ~Meter!On(U, x) PROVE Meter!Cardinality(B) = 0
    <3>1. B = {}
      BY <2>1, <2>3
    <3> QED
      BY <3>1, <1>5
  <2> QED
    BY <2>2, <2>3
<1>7. UpTime(U, s, c) = Meter!Cardinality(A) /\ UpTime(U, s, t) = Meter!Cardinality(T)
  BY DEF UpTime
<1> HIDE DEF A, B, T
<1>8. Meter!Cardinality(A \cup B) =
        Meter!Cardinality(A) + Meter!Cardinality(B) - Meter!Cardinality(A \cap B)
  BY <1>2, FS_Union, MeasuredCardinality
<1>9. Meter!Cardinality(T) = Meter!Cardinality(A) + Meter!Cardinality(B)
  <2>1. Meter!Cardinality(A \cap B) = 0 /\ Meter!Cardinality(T) = Meter!Cardinality(A \cup B)
    BY <1>3, <1>4, <1>5
  <2>2. Meter!Cardinality(B) \in Nat
    BY <1>2, FS_CardinalityType, MeasuredCardinality
  <2> QED
    BY <2>1, <2>2, <1>5, <1>8
<1> QED
  BY <1>5, <1>6, <1>7, <1>9

\* When it is known first what is on.
LEMMA SinceFacts ==
  ASSUME NEW U, U # {}, \A u \in U : u.at \in Nat, NEW f \in Nat
  PROVE  /\ Since(U, f) \in Nat /\ f <= Since(U, f)
         /\ \A n \in Nat : f <= n /\ (\A u \in U : u.at <= n) => Since(U, f) <= n
         /\ (\A u \in U : u.at <= f) => Since(U, f) = f
         /\ \A n \in Nat : f < n /\ (\E u \in U : u.at < n) => Since(U, f) < n
<1> DEFINE T == {u.at : u \in U}
<1>1. T \subseteq Nat /\ T # {}
  OBVIOUS
<1> HIDE DEF T
<1>2. Meter!Min(T) \in T /\ \A y \in T : Meter!Min(T) <= y
  BY <1>1, MinFacts
<1>3. Meter!Min(T) \in Nat
  BY <1>1, <1>2
<1>4. Since(U, f) = IF f <= Meter!Min(T) THEN Meter!Min(T) ELSE f
  <2>1. Since(U, f) = Meter!Max({f, Meter!Min(T)})
    BY DEF Since, T
  <2>2. f \in Int /\ Meter!Min(T) \in Int
    BY <1>3
  <2> QED
    BY <2>1, <2>2, MaxOfTwo
<1>5. PICK u0 \in U : u0.at = Meter!Min(T)
  BY <1>2 DEF T
<1>6. \A u \in U : Meter!Min(T) <= u.at
  BY <1>2 DEF T
<1>7. Since(U, f) \in Nat /\ f <= Since(U, f)
  BY <1>3, <1>4
<1>8. ASSUME NEW n \in Nat, f <= n, \A u \in U : u.at <= n PROVE Since(U, f) <= n
  <2>1. u0.at <= n
    BY <1>8
  <2> QED
    BY <2>1, <1>4, <1>5, <1>8
<1>9. ASSUME \A u \in U : u.at <= f PROVE Since(U, f) = f
  <2>1. u0.at <= f
    BY <1>9
  <2> QED
    BY <2>1, <1>3, <1>4, <1>5
<1>10. ASSUME NEW n \in Nat, f < n, NEW u \in U, u.at < n PROVE Since(U, f) < n
  <2>1. Meter!Min(T) <= u.at /\ u.at \in Nat
    BY <1>6
  <2>2. Meter!Min(T) < n
    BY <2>1, <1>3, <1>10
  <2> QED
    BY <2>2, <1>3, <1>4, <1>10
<1> QED
  BY <1>7, <1>8, <1>9, <1>10

\* Later updates leave the first one.
LEMMA SinceSame ==
  ASSUME NEW U, NEW W, NEW t, W # {}, W \subseteq U, \A u \in U : u.at \in Nat,
         \A u \in U \ W : \E w \in W : w.at <= u.at
  PROVE  Since(U, t) = Since(W, t)
<1> DEFINE A == {u.at : u \in U}
           B == {u.at : u \in W}
<1>1. B \subseteq Nat /\ B # {} /\ A \subseteq Int /\ B \subseteq A
  OBVIOUS
<1>2. \A y \in A : \E z \in B : z <= y /\ y \in Nat /\ z \in Nat
  <2> TAKE y \in A
  <2>1. PICK u \in U : y = u.at
    OBVIOUS
  <2>2. CASE u \in W
    <3>1. y \in B /\ y \in Nat /\ y <= y
      BY <2>1, <2>2
    <3> QED
      BY <3>1
  <2>3. CASE u \notin W
    <3>1. PICK w \in W : w.at <= u.at
      BY <2>3
    <3>2. w.at \in B /\ w.at \in Nat /\ y \in Nat /\ w.at <= y
      BY <2>1, <3>1
    <3> QED
      BY <3>2
  <2> QED
    BY <2>2, <2>3
<1>3. Since(U, t) = Meter!Max({t, Meter!Min(A)}) /\ Since(W, t) = Meter!Max({t, Meter!Min(B)})
  BY DEF Since
<1> HIDE DEF A, B
<1>4. Meter!Min(B) \in B /\ \A z \in B : Meter!Min(B) <= z
  BY <1>1, MinFacts
<1>5. \A y \in A : Meter!Min(B) <= y
  <2> TAKE y \in A
  <2>1. PICK z \in B : z <= y /\ y \in Nat /\ z \in Nat
    BY <1>2
  <2>2. Meter!Min(B) <= z /\ Meter!Min(B) \in Nat
    BY <1>1, <1>4
  <2> QED
    BY <2>1, <2>2
<1>6. Meter!Min(B) \in A
  BY <1>1, <1>4
<1>7. Meter!Min(A) = Meter!Min(B)
  BY <1>1, <1>5, <1>6, MinIs
<1> QED
  BY <1>3, <1>7

LEMMA CycleBegun ==
  ASSUME NEW n, NEW b \in BOOLEAN, NEW u, u.at = now, u.no \in Nat, (b <=> u.v = 2), now \in Nat,
         NEW f \in Nat, f <= now
  PROVE  LastInv({u}, Meter!Cycle(n, b), f, now)
<1> DEFINE U == {u}
           c == Meter!Cycle(n, b)
<1>1. c.since = now /\ c.off = 0 /\ c.up = 0 /\ c.on = b
  BY DEF Meter!Cycle
<1>2. Since(U, f) = now
  <2>1. {w.at : w \in U} = {now}
    OBVIOUS
  <2>2. now \in {now} /\ {now} \subseteq Int /\ \A y \in {now} : now <= y
    OBVIOUS
  <2>3. Meter!Min({now}) = now
    BY <2>2, MinIs
  <2>4. Since(U, f) = Meter!Max({f, now})
    BY <2>1, <2>3 DEF Since
  <2>5. f \in Int /\ now \in Int
    OBVIOUS
  <2>6. Meter!Max({f, now}) = now
    BY <2>5, MaxOfTwo
  <2> QED
    BY <2>4, <2>6
<1>3. UpTime(U, now, now) = 0
  BY NoUpTime
<1>4. \A x \in Nat : now <= x => (Meter!On(U, x) <=> b)
  <2> SUFFICES ASSUME NEW x \in Nat, now <= x PROVE (Meter!On(U, x) <=> b)
    OBVIOUS
  <2>1. u.at <= x /\ u.no <= u.no
    OBVIOUS
  <2>2. (Meter!On({u}, x) <=> u.v = 2)
    BY <2>1 DEF Meter!On
  <2> QED
    BY <2>2
<1> HIDE DEF U, c
<1>5. LastInv(U, c, f, now)
  BY <1>1, <1>2, <1>3, <1>4 DEF LastInv
<1> QED
  BY <1>5 DEF U, c

LEMMA CycleUpdated ==
  ASSUME NEW U, U # {}, NEW u, u.at = now, u.no \in Nat, now \in Nat, NEW b \in BOOLEAN,
         (b <=> u.v = 2),
         \A w \in U : w.at \in 0..now /\ w.no \in Nat /\ w.no < u.no,
         NEW c \in CycleSet, NEW f \in Nat, f <= now, LastInv(U, c, f, now)
  PROVE  LastInv(U \cup {u}, IF c.on = b THEN c ELSE Meter!Switch(c, b), f, now)
<1> DEFINE V == U \cup {u}
           s == Since(U, f)
<1>1. \A x \in Nat : x < now => (Meter!On(V, x) <=> Meter!On(U, x))
  BY OnBefore
<1>2. \A x \in Nat : now <= x => (Meter!On(V, x) <=> b)
  <2> SUFFICES ASSUME NEW x \in Nat, now <= x PROVE (Meter!On(V, x) <=> b)
    OBVIOUS
  <2>1. \A w \in U : w.no \in Nat /\ w.no < u.no
    OBVIOUS
  <2>2. u.at <= x
    OBVIOUS
  <2>3. (Meter!On(U \cup {u}, x) <=> u.v = 2)
    BY <2>1, <2>2, OnAfter
  <2> QED
    BY <2>3
<1>3. Since(V, f) = s
  <2>1. PICK w \in U : TRUE
    OBVIOUS
  <2>2. w.at <= u.at /\ U \subseteq V /\ \A x \in V : x.at \in Nat
    BY <2>1
  <2>3. \A x \in V \ U : \E y \in U : y.at <= x.at
    BY <2>2
  <2> QED
    BY <2>2, <2>3, SinceSame
<1>4. s \in Nat
  <2>1. \A w \in U : w.at \in Nat
    OBVIOUS
  <2> QED
    BY <2>1, SinceFacts
<1>5. /\ c.since \in s..now /\ c.up + c.off = c.since - s /\ c.up = UpTime(U, s, c.since)
      /\ \A x \in Nat : c.since <= x => (Meter!On(U, x) <=> c.on)
  BY DEF LastInv
<1>6. c.since \in Nat /\ c.up \in Int /\ c.off \in Int /\ c.on \in BOOLEAN /\ s <= c.since
        /\ c.since <= now
  BY <1>4, <1>5 DEF CycleSet
<1> HIDE DEF V, s
<1>7. \A y \in Nat : y <= now => UpTime(V, s, y) = UpTime(U, s, y)
  <2> SUFFICES ASSUME NEW y \in Nat, y <= now PROVE UpTime(V, s, y) = UpTime(U, s, y)
    OBVIOUS
  <2>1. \A x \in s..(y - 1) : x \in Nat /\ x < now
    BY <1>4
  <2>2. \A x \in s..(y - 1) : (Meter!On(V, x) <=> Meter!On(U, x))
    BY <2>1, <1>1
  <2> QED
    BY <2>2, UpTimeSame
<1>8. CASE c.on = b
  <2>1. \A x \in Nat : c.since <= x => (Meter!On(V, x) <=> c.on)
    <3> SUFFICES ASSUME NEW x \in Nat, c.since <= x PROVE (Meter!On(V, x) <=> c.on)
      OBVIOUS
    <3>1. CASE x < now
      BY <3>1, <1>1, <1>5
    <3>2. CASE ~(x < now)
      BY <3>2, <1>2, <1>8
    <3> QED
      BY <3>1, <3>2
  <2>2. c.up = UpTime(V, s, c.since)
    BY <1>5, <1>6, <1>7
  <2>3. LastInv(V, c, f, now)
    BY <2>1, <2>2, <1>3, <1>5 DEF LastInv
  <2> QED
    BY <2>3, <1>8 DEF V
<1>9. CASE c.on # b
  <2> DEFINE d == Meter!Switch(c, b)
  <2>1. /\ d.since = now /\ d.on = b
        /\ d.off = IF b THEN c.off + (now - c.since) ELSE c.off
        /\ d.up = IF b THEN c.up ELSE c.up + (now - c.since)
    BY DEF Meter!Switch
  <2> HIDE DEF d
  <2>2. UpTime(U, s, now) = UpTime(U, s, c.since) + (IF c.on THEN now - c.since ELSE 0)
    <3>1. s \in Nat /\ c.since \in Nat /\ now \in Nat /\ s <= c.since /\ c.since <= now
      BY <1>4, <1>6
    <3>2. /\ UpTime(U, s, c.since) \in Nat
          /\ (\A x \in Nat : c.since <= x => Meter!On(U, x)) =>
               UpTime(U, s, now) = UpTime(U, s, c.since) + (now - c.since)
          /\ (\A x \in Nat : c.since <= x => ~Meter!On(U, x))
               => UpTime(U, s, now) = UpTime(U, s, c.since)
      BY <3>1, UpTimeOn
    <3>3. CASE c.on
      <4>1. \A x \in Nat : c.since <= x => Meter!On(U, x)
        BY <1>5, <3>3
      <4> QED
        BY <3>2, <3>3, <4>1
    <3>4. CASE ~c.on
      <4>1. \A x \in Nat : c.since <= x => ~Meter!On(U, x)
        BY <1>5, <3>4
      <4> QED
        BY <3>2, <3>4, <4>1
    <3> QED
      BY <3>3, <3>4
  <2>3. UpTime(V, s, now) = UpTime(U, s, now)
    BY <1>7
  <2>4. c.on = ~b
    BY <1>6, <1>9
  <2>5. d.up = UpTime(V, s, d.since)
    <3>1. CASE b
      <4>1. UpTime(U, s, now) = UpTime(U, s, c.since) + 0
        BY <3>1, <2>2, <2>4
      <4> QED
        BY <4>1, <3>1, <2>1, <2>3, <1>5, <1>6
    <3>2. CASE ~b
      BY <3>2, <2>1, <2>2, <2>3, <2>4, <1>5, <1>6
    <3> QED
      BY <3>1, <3>2
  <2>6. d.up + d.off = d.since - s
    <3>1. CASE b
      BY <3>1, <2>1, <1>4, <1>5, <1>6
    <3>2. CASE ~b
      BY <3>2, <2>1, <1>4, <1>5, <1>6
    <3> QED
      BY <3>1, <3>2
  <2>7. d.since \in s..now
    BY <2>1, <1>4, <1>6
  <2>8. \A x \in Nat : d.since <= x => (Meter!On(V, x) <=> d.on)
    BY <2>1, <1>2
  <2>9. LastInv(V, d, f, now)
    BY <2>5, <2>6, <2>7, <2>8, <1>3 DEF LastInv
  <2> QED
    BY <2>9, <1>9 DEF V, d
<1> QED
  BY <1>8, <1>9

LEMMA CycleFlushed ==
  ASSUME NEW U, U # {}, NEW t \in Nat, \A w \in U : w.at \in 0..t,
         NEW c \in CycleSet, NEW f \in Nat, f <= t, LastInv(U, c, f, t),
         NEW e, e.since = t + 1, e.on = c.on, e.off = 0, e.up = 0
  PROVE  /\ LastInv(U, e, t + 1, t + 1)
         /\ c.up + (IF c.on THEN (t + 1) - c.since ELSE 0) = UpTime(U, Since(U, f), t + 1)
         /\ c.up + c.off + ((t + 1) - c.since) = (t + 1) - Since(U, f)
         /\ (t + 1) - Since(U, f) > 0
<1> DEFINE s == Since(U, f)
           z == t + 1
<1>1. \A w \in U : w.at \in Nat
  OBVIOUS
<1>2. s \in Nat /\ s <= t
  <2>1. \A w \in U : w.at <= t
    OBVIOUS
  <2> QED
    BY <2>1, <1>1, SinceFacts
<1>3. Since(U, z) = z
  <2>1. \A w \in U : w.at <= z
    OBVIOUS
  <2>2. z \in Nat
    OBVIOUS
  <2> HIDE DEF z
  <2> QED
    BY <2>1, <2>2, <1>1, SinceFacts
<1>4. /\ c.since \in s..t /\ c.up + c.off = c.since - s /\ c.up = UpTime(U, s, c.since)
      /\ \A x \in Nat : c.since <= x => (Meter!On(U, x) <=> c.on)
  BY DEF LastInv
<1>5. c.since \in Nat /\ c.up \in Int /\ c.off \in Int /\ c.on \in BOOLEAN /\ s <= c.since
        /\ c.since <= z /\ z \in Nat
  BY <1>2, <1>4 DEF CycleSet
<1>6. UpTime(U, z, z) = 0
  BY <1>5, NoUpTime
<1>7. \A x \in Nat : z <= x => (Meter!On(U, x) <=> c.on)
  BY <1>4, <1>5
<1> HIDE DEF z, s
<1>8. LastInv(U, e, z, z)
  <2>1. e.since = z
    BY DEF z
  <2>2. z \in z..z /\ z - z = 0
    BY <1>5
  <2> QED
    BY <2>1, <2>2, <1>3, <1>6, <1>7 DEF LastInv
<1>9. UpTime(U, s, z) = UpTime(U, s, c.since) + (IF c.on THEN z - c.since ELSE 0)
  <2>1. s \in Nat /\ c.since \in Nat /\ z \in Nat /\ s <= c.since /\ c.since <= z
    BY <1>2, <1>5
  <2>2. /\ UpTime(U, s, c.since) \in Nat
        /\ (\A x \in Nat : c.since <= x => Meter!On(U, x)) =>
             UpTime(U, s, z) = UpTime(U, s, c.since) + (z - c.since)
        /\ (\A x \in Nat : c.since <= x => ~Meter!On(U, x))
             => UpTime(U, s, z) = UpTime(U, s, c.since)
    BY <2>1, UpTimeOn
  <2>3. CASE c.on
    <3>1. \A x \in Nat : c.since <= x => Meter!On(U, x)
      BY <1>4, <2>3
    <3> QED
      BY <2>2, <2>3, <3>1
  <2>4. CASE ~c.on
    <3>1. \A x \in Nat : c.since <= x => ~Meter!On(U, x)
      BY <1>4, <2>4
    <3> QED
      BY <2>2, <2>4, <3>1
  <2> QED
    BY <2>3, <2>4
<1>10. c.up + c.off + (z - c.since) = z - s
  BY <1>2, <1>4, <1>5
<1>11. z - s > 0
  BY <1>2, <1>5 DEF z
<1> QED
  BY <1>4, <1>8, <1>9, <1>10, <1>11 DEF z, s

-----------------------------------------------------------------------------
(* Steps of metrics.                                                       *)

LEMMA DutyIs ==
  ASSUME NEW m, NEW n
  PROVE  LET U == {u \in NamedOf(m, n) : u.at < Meter!LastFlush}
         IN Meter!DutyOf(m, n) = <<UpTime(U, Since(U, Meter!FlushBefore), Meter!LastFlush),
                             Meter!LastFlush - Since(U, Meter!FlushBefore)>>
<1>1. {u \in Meter!UpdatesOf(m) : u.n = n /\ u.at < Meter!LastFlush} =
        {u \in NamedOf(m, n) : u.at < Meter!LastFlush}
  BY DEF NamedOf
<1> QED
  BY <1>1 DEF Meter!DutyOf, UpTime, Since

LEMMA LastInvLater ==
  ASSUME NEW U, NEW c, NEW f, NEW t \in Nat, NEW z \in Nat, t <= z, LastInv(U, c, f, t),
         U # {}, \A u \in U : u.at \in Nat, f \in Nat
  PROVE  LastInv(U, c, f, z)
<1>1. Since(U, f) \in Nat
  BY SinceFacts
<1>2. c.since \in Since(U, f)..t
  BY DEF LastInv
<1>3. c.since \in Since(U, f)..z
  BY <1>1, <1>2
<1> QED
  BY <1>3 DEF LastInv

\* What another metric's step leaves alone.
LEMMA Frame ==
  ASSUME HistoryInv, NEW k, MetricInv(k), class' = class, flushes' = flushes,
         Meter!UpdatesOf(k)' = Meter!UpdatesOf(k), made'[k] = made[k], now' \in Nat, now <= now'
  PROVE  MetricInv(k)'
<1>1. now \in Nat /\ flushes \subseteq 1..now
  BY DEF HistoryInv
<1>2. Meter!LastFlush' = Meter!LastFlush /\ Meter!FlushBefore' = Meter!FlushBefore
  BY DEF Meter!LastFlush, Meter!FlushBefore
<1>3. \A g : Meter!Of(k, g)' = Meter!Of(k, g)
  BY DEF Meter!Of
<1>4. \A g : Meter!Forgotten(k, g)' = Meter!Forgotten(k, g)
  <2> TAKE g
  <2>1. Meter!Of(k, g) \subseteq Meter!Of(k, g)'
          /\ \A u \in Meter!Of(k, g)' \ Meter!Of(k, g) : u.at = now
    BY <1>3
  <2> QED
    BY <2>1, <1>1, ForgottenSame
<1>5. \A g : Counting(k, g)' = Counting(k, g)
  BY <1>2, <1>3, <1>4 DEF Counting, From
<1>6. \A g : Meter!Covered(k, g)' = Meter!Covered(k, g)
  BY <1>2, <1>3, <1>4 DEF Meter!Covered
<1>7. Meter!Interval(k)' = Meter!Interval(k)
  BY <1>2 DEF Meter!Interval
<1>8. \A g : Meter!RightValues(k, g)' = Meter!RightValues(k, g)
  BY <1>6, <1>7 DEF Meter!RightValues
<1>9. CountInv(k)'
  BY <1>2, <1>5, <1>8 DEF CountInv, MetricInv
<1>10. ExpiryInv(k)'
  BY <1>2, <1>3 DEF ExpiryInv, MetricInv, Meter!FieldsAreRight
<1>11. DutyInv(k)'
  <2>1. \A n : NamedOf(k, n)' = NamedOf(k, n)
    BY DEF NamedOf
  <2>2. \A n : Meter!DutyOf(k, n)' = Meter!DutyOf(k, n)
    BY <1>2 DEF Meter!DutyOf
  <2>3. Meter!DutyIsRight(k)' <=> Meter!DutyIsRight(k)
    BY <1>2, <2>2 DEF Meter!DutyIsRight
  <2> SUFFICES ASSUME class = "duty" PROVE DutyInv(k)'
    BY DEF DutyInv
  <2> DEFINE a == made[k].fields[NoTags].actuals
             n == a[Len(a)].name
  <2>4. DutyInv(k)
    BY DEF MetricInv
  <2>5. ASSUME a # <<>> PROVE LastInv(NamedOf(k, n), a[Len(a)], Meter!LastFlush, now')
    <3>1. LastInv(NamedOf(k, n), a[Len(a)], Meter!LastFlush, now)
      BY <2>4, <2>5 DEF DutyInv
    <3>2. a \in Seq(CycleSet) /\ {a[i].name : i \in DOMAIN a} = {u.n : u \in Meter!UpdatesOf(k)}
      BY <2>4 DEF DutyInv, CycleNames, Meter!Names
    <3>3. Len(a) \in DOMAIN a
      BY <2>5, <3>2, EmptySeq, LenProperties
    <3>4. n \in {u.n : u \in Meter!UpdatesOf(k)}
      BY <3>2, <3>3
    <3>5. NamedOf(k, n) # {}
      BY <3>4 DEF NamedOf
    <3>6. \A u \in NamedOf(k, n) : u.at \in Nat
      BY DEF NamedOf, Meter!UpdatesOf, HistoryInv
    <3>7. Meter!LastFlush \in Nat
      BY <1>1, FlushTimes
    <3> HIDE DEF a, n
    <3> QED
      BY <3>1, <3>5, <3>6, <3>7, <1>1, LastInvLater
  <2>6. a' = a
    OBVIOUS
  <2> HIDE DEF a
  <2> QED
    BY <1>2, <2>1, <2>3, <2>4, <2>5, <2>6 DEF DutyInv, a
<1> QED
  BY <1>9, <1>10, <1>11 DEF MetricInv

LEMMA NoUpdates ==
  ASSUME NEW m, Meter!UpdatesOf(m)' = {}, NEW g
  PROVE  Meter!Of(m, g)' = {} /\ Counting(m, g)' = {} /\ Meter!Covered(m, g)' = {}
  BY DEF Meter!Of, Counting, Meter!Covered

\* A new metric has counted nothing.
LEMMA NewMetric ==
  ASSUME HistoryInv, NEW m, Meter!UpdatesOf(m)' = {}, NEW k, NEW b \in BOOLEAN,
         now' = now, class' = class, flushes' = flushes,
         made'[m] = [key |-> k, reset |-> b, created |-> now, lastTime |-> now,
                     fields |-> IF class \in Meter!Dynamic THEN Meter!NoEntry
                                ELSE Meter!Put(Meter!NoEntry, NoTags, Meter!Field(class))]
  PROVE  MetricInv(m)'
<1>1. now \in Nat /\ flushes \subseteq 1..now /\ class \in Kind
  BY DEF HistoryInv
<1>2. Meter!LastFlush \in 0..now /\ Meter!LastFlush' = Meter!LastFlush
  BY <1>1, FlushTimes DEF Meter!LastFlush
<1> DEFINE F == made'[m].fields
<1>3. class \in Meter!Dynamic => DOMAIN F = {}
  BY DEF Meter!NoEntry
<1>4. class \notin Meter!Dynamic => DOMAIN F = {NoTags} /\ F[NoTags] = Meter!Field(class)
  <2> SUFFICES ASSUME class \notin Meter!Dynamic
                      PROVE DOMAIN F = {NoTags} /\ F[NoTags] = Meter!Field(class)
    OBVIOUS
  <2>1. F = Meter!Put(Meter!NoEntry, NoTags, Meter!Field(class))
    OBVIOUS
  <2> QED
    BY <2>1 DEF Meter!Put, Meter!NoEntry
<1> HIDE DEF F
<1>5. \A g \in DOMAIN F : F[g] = Meter!Field(class)
  BY <1>3, <1>4
<1>6. CountInv(m)'
  <2> SUFFICES ASSUME class \notin Meter!NoReset PROVE CountInv(m)'
    BY DEF CountInv
  <2>1. Meter!Tally(class, {}) = Meter!Zero(class)
    BY <1>1, EmptyTally
  <2>2. Meter!Like(class) \in {"sum", "max", "histogram"}
    BY <1>1, KindLike
  <2>3. Meter!Field(class).actuals = Meter!Zero(class)
          /\ Meter!Field(class).values = Meter!Zero(class)
    BY <2>2 DEF Meter!Field
  <2>4. \A g : Meter!RightValues(m, g)' = Meter!Zero(class)
    <3> TAKE g
    <3>1. Meter!Tally(class, Meter!Covered(m, g)') = Meter!Zero(class)
      BY <2>1, NoUpdates
    <3>2. CASE class = "eps"
      <4>1. Meter!Zero(class) = Meter!NoEntry
        BY <3>2 DEF Meter!Zero, Meter!Like
      <4>2. DOMAIN Meter!NoEntry = {}
        BY DEF Meter!NoEntry
      <4>3. Meter!RightValues(m, g)' =
              [n \in DOMAIN Meter!NoEntry |-> Meter!Quotient(Meter!NoEntry[n], Meter!Interval(m)')]
        BY <3>1, <3>2, <4>1 DEF Meter!RightValues
      <4> QED
        BY <4>1, <4>2, <4>3 DEF Meter!NoEntry
    <3>3. CASE class # "eps"
      BY <3>1, <3>3 DEF Meter!RightValues
    <3> QED
      BY <3>2, <3>3
  <2>5. \A g : Meter!Tally(class, Counting(m, g)') = Meter!Zero(class)
    BY <2>1, NoUpdates
  <2>6. made'[m].lastTime = Meter!Max({made'[m].created, IF made'[m].reset
          THEN Meter!LastFlush ELSE 0})
    <3>1. made'[m].lastTime = now /\ made'[m].created = now
      OBVIOUS
    <3> DEFINE z == IF made'[m].reset THEN Meter!LastFlush ELSE 0
    <3>2. z \in Int /\ z <= now /\ now \in Int
      BY <1>1, <1>2
    <3> HIDE DEF z
    <3>3. Meter!Max({now, z}) = now
      BY <3>2, MaxOfTwo
    <3> QED
      BY <3>1, <3>3 DEF z
  <2> QED
    BY <1>2, <1>5, <2>3, <2>4, <2>5, <2>6 DEF CountInv, F
<1>7. ExpiryInv(m)'
  BY <1>3 DEF ExpiryInv, Meter!FieldsAreRight, F
<1>8. DutyInv(m)'
  <2> SUFFICES ASSUME class = "duty" PROVE DutyInv(m)'
    BY DEF DutyInv
  <2>1. F[NoTags].actuals = <<>>
    BY <1>4 DEF Meter!Field, Meter!Zero, Meter!Like, Meter!Dynamic
  <2>2. Meter!DutyIsRight(m)'
    BY DEF Meter!DutyIsRight
  <2>3. {u.n : u \in {}} = {} /\ <<>> \in Seq(CycleSet) /\ DOMAIN <<>> = {}
    OBVIOUS
  <2> DEFINE a == made'[m].fields[NoTags].actuals
  <2>4. a = <<>>
    BY <2>1 DEF F
  <2> HIDE DEF a
  <2> QED
    BY <2>2, <2>3, <2>4 DEF DutyInv, a, CycleNames, Meter!Names
<1> QED
  BY <1>6, <1>7, <1>8 DEF MetricInv

LEMMA Creates ==
  ASSUME MetricsInv, NEW m \in Meter!Metric, NEW key \in Key, NEW reset \in BOOLEAN,
         Meter!Create(m, key, reset)
  PROVE  MetricsInv'
<1> DEFINE nf == [key |-> key, reset |-> reset, created |-> now, lastTime |-> now,
                   fields |-> IF class \in Meter!Dynamic THEN Meter!NoEntry
                              ELSE Meter!Put(Meter!NoEntry, NoTags, Meter!Field(class))]
<1>1. HistoryInv /\ MadeInv /\ Meter!ListedOnce
  BY DEF MetricsInv
<1>2. /\ DOMAIN made = 1..(m - 1) /\ made' = Meter!Put(made, m, nf)
      /\ listed' = {l \in listed : made[l].key # key} \cup {m} /\ metrics' = metrics \cup {m}
      /\ now' = now /\ class' = class /\ updates' = updates /\ flushes' = flushes
  BY DEF Meter!Create
<1>3. m \notin DOMAIN made
  BY <1>2 DEF Meter!Metric
<1> HIDE DEF nf
<1>4. /\ DOMAIN made' = DOMAIN made \cup {m} /\ made'[m] = nf
      /\ \A k \in DOMAIN made : made'[k] = made[k]
  BY <1>2, <1>3 DEF Meter!Put
<1>5. HistoryInv'
  <2>1. now \in Nat /\ class \in Kind /\ flushes \subseteq 1..now /\ IsFiniteSet(updates)
    BY <1>1 DEF HistoryInv
  <2>2. \A u \in updates :
          /\ u.at \in 0..now /\ u.no \in 1..Meter!Cardinality(updates)
               /\ u.v \in Meter!Amounts(class)
          /\ u.m \in DOMAIN made' /\ made'[u.m].created <= u.at
          /\ class \notin Meter!Dynamic => u.tags = NoTags
    BY <1>1, <1>4 DEF HistoryInv
  <2>3. \A u, w \in updates : (u.no = w.no => u = w) /\ (u.no < w.no => u.at <= w.at)
    BY <1>1 DEF HistoryInv
  <2> QED
    BY <1>2, <2>1, <2>2, <2>3 DEF HistoryInv
<1>6. MadeInv'
  <2>1. metrics' \subseteq DOMAIN made'
    BY <1>1, <1>2, <1>4 DEF MadeInv
  <2>2. ASSUME NEW k \in DOMAIN made'
        PROVE  /\ made'[k] = [key |-> made'[k].key, reset |-> made'[k].reset,
                              created |-> made'[k].created, lastTime |-> made'[k].lastTime,
                              fields |-> made'[k].fields]
               /\ made'[k].reset \in BOOLEAN /\ made'[k].created \in 0..now
               /\ made'[k].lastTime \in 0..now
               /\ class \notin Meter!Dynamic => DOMAIN made'[k].fields = {NoTags}
    <3>1. CASE k \in DOMAIN made
      BY <3>1, <1>1, <1>4 DEF MadeInv
    <3>2. CASE k = m
      <4>1. now \in 0..now
        BY <1>1 DEF HistoryInv
      <4>2. DOMAIN Meter!Put(Meter!NoEntry, NoTags, Meter!Field(class)) = {NoTags}
        BY DEF Meter!Put, Meter!NoEntry
      <4> QED
        BY <3>2, <4>1, <4>2, <1>4 DEF nf
    <3> QED
      BY <3>1, <3>2, <1>4
  <2> QED
    BY <2>1, <2>2, <1>2 DEF MadeInv
<1>7. Meter!ListedOnce'
  <2>1. \A l \in listed : l \in metrics /\ l \in DOMAIN made /\ made'[l] = made[l]
    BY <1>1, <1>4 DEF Meter!ListedOnce, MadeInv
  <2>2. made'[m].key = key
    BY <1>4 DEF nf
  <2>3. listed' \subseteq metrics'
    BY <1>2, <2>1
  <2>4. \A k, l \in listed' : made'[k].key = made'[l].key => k = l
    BY <1>1, <1>2, <2>1, <2>2 DEF Meter!ListedOnce
  <2> QED
    BY <2>3, <2>4 DEF Meter!ListedOnce
<1>8. ASSUME NEW k \in metrics' PROVE MetricInv(k)'
  <2>1. \A j : Meter!UpdatesOf(j)' = Meter!UpdatesOf(j)
    BY <1>2 DEF Meter!UpdatesOf
  <2>2. CASE k \in metrics
    <3>1. k \in DOMAIN made
      BY <2>2, <1>1 DEF MadeInv
    <3>2. MetricInv(k)
      BY <2>2 DEF MetricsInv
    <3>3. now' \in Nat /\ now <= now'
      BY <1>1, <1>2 DEF HistoryInv
    <3> QED
      BY <3>1, <3>2, <3>3, <2>1, <1>1, <1>2, <1>4, Frame
  <2>3. CASE k = m
    <3>1. Meter!UpdatesOf(m)' = {}
      BY <2>1, <1>1, <1>3 DEF Meter!UpdatesOf, HistoryInv
    <3>2. MetricInv(m)'
      BY <3>1, <1>1, <1>2, <1>4, NewMetric DEF nf
    <3> QED
      BY <2>3, <3>2
  <2> QED
    BY <2>2, <2>3, <1>2
<1> QED
  BY <1>5, <1>6, <1>7, <1>8 DEF MetricsInv

\* Steps that change no metric.
LEMMA Removes ==
  ASSUME MetricsInv, (\E m \in Meter!Metric : Meter!Delete(m)) \/ Meter!Clear \/ Meter!Pass
         \/ UNCHANGED metricVars
  PROVE  MetricsInv'
<1>1. HistoryInv /\ MadeInv /\ Meter!ListedOnce
  BY DEF MetricsInv
<1>2. /\ made' = made /\ class' = class /\ updates' = updates /\ flushes' = flushes
      /\ metrics' \subseteq metrics /\ listed' \subseteq listed /\ now' \in {now, now + 1}
  BY DEF Meter!Delete, Meter!Clear, Meter!Pass, metricVars
<1>3. now \in Nat /\ now' \in Nat /\ now <= now'
  BY <1>1, <1>2 DEF HistoryInv
<1>4. listed' \subseteq metrics'
  <2>1. ASSUME NEW m \in Meter!Metric, Meter!Delete(m) PROVE listed' \subseteq metrics'
    BY <2>1, <1>1 DEF Meter!Delete, Meter!ListedOnce
  <2>2. CASE Meter!Clear
    BY <2>2 DEF Meter!Clear
  <2>3. CASE Meter!Pass \/ UNCHANGED metricVars
    BY <2>3, <1>1 DEF Meter!Pass, metricVars, Meter!ListedOnce
  <2> QED
    BY <2>1, <2>2, <2>3
<1>5. HistoryInv'
  <2>1. flushes \subseteq 1..now'
    <3>1. 1..now \subseteq 1..now'
      BY <1>3
    <3> QED
      BY <3>1, <1>1 DEF HistoryInv
  <2>2. \A u \in updates : u.at \in 0..now'
    BY <1>1, <1>3 DEF HistoryInv
  <2> QED
    BY <2>1, <2>2, <1>1, <1>2, <1>3 DEF HistoryInv
<1>6. MadeInv'
  <2>1. \A t \in 0..now : t \in 0..now'
    BY <1>3
  <2> QED
    BY <2>1, <1>1, <1>2 DEF MadeInv
<1>7. Meter!ListedOnce'
  BY <1>1, <1>2, <1>4 DEF Meter!ListedOnce
<1>8. ASSUME NEW k \in metrics' PROVE MetricInv(k)'
  <2>1. Meter!UpdatesOf(k)' = Meter!UpdatesOf(k)
    BY <1>2 DEF Meter!UpdatesOf
  <2>2. MetricInv(k) /\ made'[k] = made[k]
    BY <1>2 DEF MetricsInv
  <2> QED
    BY <2>1, <2>2, <1>1, <1>2, <1>3, Frame
<1> QED
  BY <1>5, <1>6, <1>7, <1>8 DEF MetricsInv

\* What is found for tags, or made for them, has counted what there is to count.
LEMMA LocatedCounts ==
  ASSUME HistoryInv, MadeInv, NEW m \in metrics, MetricInv(m), class \notin Meter!NoReset,
         NEW g, class \notin Meter!Dynamic => g = NoTags
  PROVE  /\ Meter!Located(m, g).actuals = Meter!Tally(class, Counting(m, g))
         /\ Meter!Located(m, g).values = Meter!RightValues(m, g)
<1>1. now \in Nat /\ flushes \subseteq 1..now /\ class \in Kind
  BY DEF HistoryInv
<1>2. CASE g \in DOMAIN made[m].fields
  BY <1>2 DEF Meter!Located, MetricInv, CountInv
<1>3. CASE g \notin DOMAIN made[m].fields
  <2>1. class \in Meter!Dynamic
    BY <1>3 DEF MadeInv
  <2>2. Meter!Located(m, g) = Meter!Field(class)
    BY <1>3 DEF Meter!Located
  <2>3. Meter!Like(class) \in {"sum", "max", "histogram"} /\ class # "eps"
    BY <2>1, <1>1, KindLike DEF Meter!Dynamic
  <2>4. Meter!Field(class).actuals = Meter!Zero(class)
          /\ Meter!Field(class).values = Meter!Zero(class)
    BY <2>3 DEF Meter!Field
  <2>5. \A u \in Meter!Of(m, g) : u.at < Meter!LastFlush /\ ~(u.at + Expiration >= Meter!LastFlush)
    <3>1. Meter!FieldsAreRight(m)
      BY <2>1 DEF MetricInv, ExpiryInv
    <3>2. DOMAIN made[m].fields =
            {u.tags : u \in {w \in Meter!UpdatesOf(m) : w.at < Meter!LastFlush
              => w.at + Expiration >= Meter!LastFlush}}
      BY <2>1, <3>1 DEF Meter!FieldsAreRight
    <3> QED
      BY <1>3, <3>2 DEF Meter!Of
  <2>6. Meter!LastFlush \in Nat
    BY <1>1, FlushTimes
  <2>7. \A u \in Meter!Of(m, g) : u.at \in Nat
    BY DEF Meter!Of, Meter!UpdatesOf, HistoryInv
  <2>8. \A u \in Meter!Of(m, g) : u.at < Meter!Forgotten(m, g)
    <3>1. CASE Meter!LastFlush = 0
      BY <3>1, <2>5, <2>7
    <3>2. CASE Meter!LastFlush # 0
      <4>1. \A u \in Meter!Of(m, g) : u.at + Expiration < Meter!LastFlush
        BY <2>5, <2>6, <2>7, MetricAssumption
      <4>2. Stale(m, g, Meter!LastFlush)
        BY <4>1, <2>1 DEF Stale
      <4>3. Meter!Forgotten(m, g) = Meter!LastFlush
        BY <4>2, <3>2, <1>1, ForgottenFacts
      <4> QED
        BY <4>3, <2>5
    <3> QED
      BY <3>1, <3>2
  <2>9. \A z \in Nat : \A u \in Meter!Of(m, g) : ~(Meter!Max({z, Meter!Forgotten(m, g)}) <= u.at)
    <3> SUFFICES ASSUME NEW z \in Nat, NEW u \in Meter!Of(m,
                        g) PROVE ~(Meter!Max({z, Meter!Forgotten(m, g)}) <= u.at)
      OBVIOUS
    <3>1. Meter!Forgotten(m, g) \in Int /\ z \in Int
      BY <1>1, <2>6, ForgottenFacts
    <3>2. Meter!Max({z, Meter!Forgotten(m, g)}) = IF z <= Meter!Forgotten(m, g)
            THEN Meter!Forgotten(m, g) ELSE z
      BY <3>1, MaxOfTwo
    <3>3. u.at < Meter!Forgotten(m, g) /\ u.at \in Int
      BY <2>7, <2>8
    <3> QED
      BY <3>1, <3>2, <3>3
  <2>10. (IF made[m].reset THEN Meter!LastFlush ELSE 0) \in Nat
           /\ (IF made[m].reset THEN Meter!FlushBefore ELSE 0) \in Nat
    BY <1>1, <2>6, FlushTimes
  <2>11. Counting(m, g) = {} /\ Meter!Covered(m, g) = {}
    BY <2>9, <2>10 DEF Counting, Meter!Covered, From
  <2>12. Meter!Tally(class, {}) = Meter!Zero(class)
    BY <1>1, EmptyTally
  <2>13. Meter!RightValues(m, g) = Meter!Zero(class)
    BY <2>3, <2>11, <2>12 DEF Meter!RightValues
  <2> QED
    BY <2>2, <2>4, <2>11, <2>12, <2>13
<1> QED
  BY <1>2, <1>3

LEMMA SwitchedFacts ==
  ASSUME NEW a \in Seq(CycleSet), NEW n \in Name, NEW b \in BOOLEAN, now \in Nat,
         \A i, j \in DOMAIN a : a[i].name = a[j].name => i = j
  PROVE  LET s == Meter!Switched(a, n, b) IN
         /\ s \in Seq(CycleSet) /\ s # <<>>
         /\ CycleNames(s) = CycleNames(a) \cup {n}
         /\ \A i, j \in DOMAIN s : s[i].name = s[j].name => i = j
         /\ n \notin CycleNames(a) => s[Len(s)] = Meter!Cycle(n, b)
         /\ n \in CycleNames(a) =>
              /\ a # <<>>
              /\ s[Len(s)] = LET c == a[Len(a)] IN IF c.name # n
                   \/ c.on = b THEN c ELSE Meter!Switch(c, b)
<1> DEFINE s == Meter!Switched(a, n, b)
           names == {a[i].name : i \in DOMAIN a}
<1>1. DOMAIN a = 1..Len(a) /\ Len(a) \in Nat /\ \A i \in DOMAIN a : a[i] \in CycleSet
  BY LenProperties, ElementOfSeq
<1>2. CASE n \notin names
  <2>1. s = Append(a, Meter!Cycle(n, b))
    BY <1>2 DEF Meter!Switched
  <2>2. Meter!Cycle(n, b) \in CycleSet /\ Meter!Cycle(n, b).name = n
    BY DEF Meter!Cycle, CycleSet
  <2> DEFINE c == Meter!Cycle(n, b)
  <2> HIDE DEF c, s
  <2>3. /\ Append(a, c) \in Seq(CycleSet)
        /\ Len(Append(a, c)) = Len(a) + 1
        /\ \A i \in 1..Len(a) : Append(a, c)[i] = a[i]
        /\ Append(a, c)[Len(a) + 1] = c
    BY <2>2, AppendProperties DEF c
  <2>4. s \in Seq(CycleSet) /\ Len(s) = Len(a) + 1 /\ (\A i \in 1..Len(a) : s[i] = a[i])
          /\ s[Len(a) + 1] = c
    BY <2>1, <2>3 DEF c
  <2>5. DOMAIN s = 1..(Len(a) + 1)
    BY <2>4, LenProperties
  <2>6. \A i \in DOMAIN s : (i \in DOMAIN a /\ s[i].name = a[i].name)
          \/ (i = Len(a) + 1 /\ s[i].name = n)
    BY <2>2, <2>4, <2>5, <1>1 DEF c
  <2>7. {s[i].name : i \in DOMAIN s} = names \cup {n}
    <3>1. DOMAIN s = DOMAIN a \cup {Len(a) + 1}
      BY <2>5, <1>1
    <3>2. \A i \in DOMAIN a : s[i].name = a[i].name
      BY <2>4, <1>1
    <3>3. s[Len(a) + 1].name = n
      BY <2>2, <2>4 DEF c
    <3> QED
      BY <3>1, <3>2, <3>3
  <2>8. \A i, j \in DOMAIN s : s[i].name = s[j].name => i = j
    <3>1. \A i \in DOMAIN a : a[i].name # n
      BY <1>2
    <3> QED
      BY <2>6, <3>1
  <2>9. s # <<>>
    BY <2>4, <1>1
  <2> QED
    BY <2>4, <2>7, <2>8, <2>9, <1>2 DEF c, s, CycleNames
<1>3. CASE n \in names
  <2> DEFINE nf(i) == IF a[i].name # n \/ a[i].on = b THEN a[i] ELSE Meter!Switch(a[i], b)
  <2>1. s = [i \in DOMAIN a |-> nf(i)]
    BY <1>3 DEF Meter!Switched
  <2>2. \A i \in DOMAIN a : nf(i) \in CycleSet /\ nf(i).name = a[i].name
    <3> TAKE i \in DOMAIN a
    <3>1. CASE a[i].name # n \/ a[i].on = b
      BY <3>1, <1>1
    <3>2. CASE ~(a[i].name # n \/ a[i].on = b)
      <4>1. nf(i) = Meter!Switch(a[i], b)
        BY <3>2
      <4>2. Meter!Switch(a[i], b).name = a[i].name
        BY DEF Meter!Switch
      <4>3. a[i].name \in Name /\ a[i].since \in Nat /\ a[i].off \in Int /\ a[i].up \in Int
        BY <1>1 DEF CycleSet
      <4> DEFINE off == IF b THEN a[i].off + (now - a[i].since) ELSE a[i].off
                 up == IF b THEN a[i].up ELSE a[i].up + (now - a[i].since)
      <4>5. off \in Int /\ up \in Int
        BY <4>3
      <4>6. Meter!Switch(a[i], b) =
              [name |-> a[i].name, on |-> b, since |-> now, off |-> off, up |-> up]
        BY DEF Meter!Switch
      <4> HIDE DEF off, up
      <4>4. Meter!Switch(a[i], b) \in CycleSet
        BY <4>3, <4>5, <4>6 DEF CycleSet
      <4> QED
        BY <4>1, <4>2, <4>4
    <3> QED
      BY <3>1, <3>2
  <2> HIDE DEF s, nf
  <2>3. DOMAIN s = DOMAIN a /\ \A i \in DOMAIN a : s[i] = nf(i)
    BY <2>1
  <2>4. s \in Seq(CycleSet) /\ Len(s) = Len(a)
    <3>1. s \in [1..Len(a) -> CycleSet]
      BY <2>1, <2>2, <1>1
    <3> QED
      BY <3>1, <1>1, SeqDef, LenProperties
  <2>5. a # <<>> /\ s # <<>> /\ Len(a) \in DOMAIN a
    <3>1. PICK i \in DOMAIN a : a[i].name = n
      BY <1>3
    <3>2. Len(a) >= 1
      BY <3>1, <1>1
    <3>3. a # <<>> /\ s # <<>>
      BY <3>2, <2>4
    <3> QED
      BY <3>2, <3>3, <1>1
  <2>6. \A i \in DOMAIN a : s[i].name = a[i].name
    BY <2>2, <2>3
  <2>7. {s[i].name : i \in DOMAIN s} = names /\ names = names \cup {n}
    BY <2>3, <2>6, <1>3
  <2>8. \A i, j \in DOMAIN s : s[i].name = s[j].name => i = j
    BY <2>3, <2>6
  <2>9. s[Len(s)] = LET c == a[Len(a)] IN IF c.name # n \/ c.on = b THEN c ELSE Meter!Switch(c, b)
    BY <2>3, <2>4, <2>5 DEF nf
  <2> QED
    BY <2>4, <2>5, <2>7, <2>8, <2>9, <1>3 DEF s, CycleNames
<1> QED
  BY <1>2, <1>3

LEMMA Updating ==
  ASSUME MetricsInv, NEW m \in Meter!Metric, NEW n \in Name, NEW v \in Meter!Amounts(class),
         NEW tags,
         Meter!Update(m, n, v, tags)
  PROVE  MetricsInv'
<1> DEFINE N == Meter!Cardinality(updates)
           u == [no |-> N + 1, m |-> m, n |-> n, v |-> v, tags |-> tags, at |-> now]
           f == Meter!Located(m, tags)
           nf == Meter!Updated(class, f, n, v)
           F == made[m].fields
           G == made'[m].fields
<1>1. HistoryInv /\ MadeInv /\ Meter!ListedOnce
  BY DEF MetricsInv
<1>2. /\ m \in DOMAIN made
      /\ class \notin Meter!Dynamic => tags = NoTags
      /\ made' = [made EXCEPT ![m].fields = Meter!Put(F, tags, nf)]
      /\ updates' = updates \cup {u}
      /\ now' = now /\ class' = class /\ flushes' = flushes /\ listed' = listed
           /\ metrics' = metrics
  BY DEF Meter!Update
<1>3. /\ now \in Nat /\ class \in Kind /\ flushes \subseteq 1..now /\ IsFiniteSet(updates)
  BY <1>1 DEF HistoryInv
<1>4. N \in Nat
  BY <1>3, FS_CardinalityType, MeasuredCardinality
<1>5. u.no = N + 1 /\ u.m = m /\ u.n = n /\ u.v = v /\ u.tags = tags /\ u.at = now
  OBVIOUS
<1> HIDE DEF u, N, f, nf
<1>6. /\ DOMAIN made' = DOMAIN made
      /\ \A k \in DOMAIN made : k # m => made'[k] = made[k]
      /\ made'[m] = [made[m] EXCEPT !.fields = Meter!Put(F, tags, nf)]
  BY <1>2
<1>7. /\ made[m] = [key |-> made[m].key, reset |-> made[m].reset, created |-> made[m].created,
                    lastTime |-> made[m].lastTime, fields |-> F]
      /\ made[m].reset \in BOOLEAN /\ made[m].created \in 0..now /\ made[m].lastTime \in 0..now
      /\ class \notin Meter!Dynamic => DOMAIN F = {NoTags}
  BY <1>1, <1>2 DEF MadeInv
<1>8. made'[m] = [key |-> made[m].key, reset |-> made[m].reset, created |-> made[m].created,
                  lastTime |-> made[m].lastTime, fields |-> Meter!Put(F, tags, nf)]
  BY <1>6, <1>7
<1>9. /\ made'[m].key = made[m].key /\ made'[m].reset = made[m].reset
      /\ made'[m].created = made[m].created /\ made'[m].lastTime = made[m].lastTime
      /\ G = Meter!Put(F, tags, nf)
  BY <1>8
<1> HIDE DEF F, G
<1>10. /\ DOMAIN G = DOMAIN F \cup {tags} /\ G[tags] = nf
       /\ \A g \in DOMAIN F : g # tags => G[g] = F[g]
  BY <1>9 DEF Meter!Put
<1>11. \A w \in updates : /\ w.no \in 1..N /\ w.no < u.no /\ w.no \in Nat /\ w.at \in 0..now
         /\ w.at <= now
                          /\ w.v \in Meter!Amounts(class) /\ w.m \in DOMAIN made
  <2>1. \A w \in updates : w.no \in 1..N /\ w.at \in 0..now /\ w.v \in Meter!Amounts(class)
          /\ w.m \in DOMAIN made
    BY <1>1 DEF HistoryInv, N
  <2> QED
    BY <2>1, <1>3, <1>4, <1>5
<1>12. u \notin updates
  <2>1. ~(u.no < u.no)
    BY <1>4, <1>5
  <2> QED
    BY <2>1, <1>11
<1>13. HistoryInv'
  <2>1. IsFiniteSet(updates') /\ Meter!Cardinality(updates') = N + 1
    BY <1>2, <1>3, <1>12, FS_AddElement, MeasuredCardinality DEF N
  <2>2. ASSUME NEW w \in updates'
        PROVE  /\ w.at \in 0..now /\ w.no \in 1..(N + 1) /\ w.v \in Meter!Amounts(class)
               /\ w.m \in DOMAIN made' /\ made'[w.m].created <= w.at
               /\ class \notin Meter!Dynamic => w.tags = NoTags
    <3>1. CASE w \in updates
      <4>1. w.no \in 1..(N + 1) /\ w.at \in 0..now /\ w.v \in Meter!Amounts(class)
              /\ w.m \in DOMAIN made'
        BY <3>1, <1>4, <1>6, <1>11
      <4>2. made[w.m].created <= w.at /\ (class \notin Meter!Dynamic => w.tags = NoTags)
        BY <3>1, <1>1 DEF HistoryInv
      <4>3. made'[w.m].created = made[w.m].created
        BY <1>6, <1>9, <1>11, <3>1
      <4> QED
        BY <4>1, <4>2, <4>3
    <3>2. CASE w = u
      <4>1. w.at \in 0..now /\ w.no \in 1..(N + 1)
        BY <3>2, <1>3, <1>4, <1>5
      <4>2. made'[m].created <= now
        BY <1>3, <1>7, <1>9
      <4> QED
        BY <3>2, <4>1, <4>2, <1>2, <1>5, <1>6
    <3> QED
      BY <3>1, <3>2, <1>2
  <2>3. ASSUME NEW w \in updates', NEW x \in updates'
        PROVE  (w.no = x.no => w = x) /\ (w.no < x.no => w.at <= x.at)
    <3>1. CASE w \in updates /\ x \in updates
      BY <3>1, <1>1 DEF HistoryInv
    <3>2. CASE w \in updates /\ x = u
      <4>1. w.no < x.no /\ w.at <= x.at /\ w.no \in Nat /\ x.no \in Nat
        BY <3>2, <1>4, <1>5, <1>11
      <4> QED
        BY <4>1
    <3>3. CASE w = u /\ x \in updates
      <4>1. x.no < w.no /\ w.no \in Nat /\ x.no \in Nat
        BY <3>3, <1>4, <1>5, <1>11
      <4> QED
        BY <4>1
    <3>4. CASE w = u /\ x = u
      BY <3>4, <1>4, <1>5
    <3> QED
      BY <3>1, <3>2, <3>3, <3>4, <1>2
  <2> QED
    BY <1>2, <1>3, <2>1, <2>2, <2>3 DEF HistoryInv
<1>14. MadeInv'
  <2>1. ASSUME NEW k \in DOMAIN made'
        PROVE  /\ made'[k] = [key |-> made'[k].key, reset |-> made'[k].reset,
                              created |-> made'[k].created, lastTime |-> made'[k].lastTime,
                              fields |-> made'[k].fields]
               /\ made'[k].reset \in BOOLEAN /\ made'[k].created \in 0..now
               /\ made'[k].lastTime \in 0..now
               /\ class \notin Meter!Dynamic => DOMAIN made'[k].fields = {NoTags}
    <3>1. CASE k # m
      BY <3>1, <1>1, <1>6 DEF MadeInv
    <3>2. CASE k = m
      <4>1. class \notin Meter!Dynamic => DOMAIN G = {NoTags}
        BY <1>2, <1>7, <1>10 DEF F
      <4>2. made'[m] = [key |-> made'[m].key, reset |-> made'[m].reset,
                        created |-> made'[m].created, lastTime |-> made'[m].lastTime,
                        fields |-> made'[m].fields]
        BY <1>8
      <4> QED
        BY <3>2, <4>1, <4>2, <1>7, <1>9 DEF G
    <3> QED
      BY <3>1, <3>2
  <2>2. metrics' \subseteq DOMAIN made'
    BY <1>1, <1>2, <1>6 DEF MadeInv
  <2> QED
    BY <2>1, <2>2, <1>2 DEF MadeInv
<1>15. Meter!ListedOnce'
  <2>1. \A k \in DOMAIN made : made'[k].key = made[k].key
    BY <1>6, <1>9
  <2>2. listed \subseteq DOMAIN made
    BY <1>1 DEF Meter!ListedOnce, MadeInv
  <2> QED
    BY <2>1, <2>2, <1>1, <1>2 DEF Meter!ListedOnce
<1>16. \A k : k # m => Meter!UpdatesOf(k)' = Meter!UpdatesOf(k)
  BY <1>2, <1>5 DEF Meter!UpdatesOf
<1>17. Meter!UpdatesOf(m)' = Meter!UpdatesOf(m) \cup {u}
  BY <1>2, <1>5 DEF Meter!UpdatesOf
<1>18. Meter!LastFlush' = Meter!LastFlush /\ Meter!FlushBefore' = Meter!FlushBefore
         /\ Meter!LastFlush \in 0..now
       /\ Meter!FlushBefore \in 0..Meter!LastFlush
  BY <1>2, <1>3, FlushTimes DEF Meter!LastFlush, Meter!FlushBefore
<1>19. ASSUME m \in metrics PROVE MetricInv(m)'
  <2>1. MetricInv(m)
    BY <1>19 DEF MetricsInv
  <2>2. \A g : Meter!Of(m, g)' = IF g = tags THEN Meter!Of(m, g) \cup {u} ELSE Meter!Of(m, g)
    BY <1>5, <1>17 DEF Meter!Of
  <2>3. \A g : Meter!Forgotten(m, g)' = Meter!Forgotten(m, g)
    <3> TAKE g
    <3>1. Meter!Of(m, g) \subseteq Meter!Of(m, g)'
            /\ \A w \in Meter!Of(m, g)' \ Meter!Of(m, g) : w.at = now
      BY <2>2, <1>5
    <3> QED
      BY <3>1, <1>2, <1>3, ForgottenSame
  <2>4. \A g : Meter!Forgotten(m, g) \in 0..Meter!LastFlush
    BY <1>3, ForgottenFacts
  <2>5. \A w \in Meter!UpdatesOf(m) : w \in updates /\ w # u /\ w.at \in 0..now
    BY <1>11, <1>12 DEF Meter!UpdatesOf
  <2>6. CountInv(m)'
    <3> SUFFICES ASSUME class \notin Meter!NoReset PROVE CountInv(m)'
      BY <1>2 DEF CountInv
    <3>1. f.actuals = Meter!Tally(class, Counting(m, tags)) /\ f.values = Meter!RightValues(m, tags)
      BY <2>1, <1>1, <1>2, <1>19, LocatedCounts DEF f
    <3>2. \A g : From(m, g)' = From(m, g) /\ From(m, g) <= now
      <4> TAKE g
      <4>1. From(m, g)' = From(m, g)
        BY <2>3, <1>9, <1>18 DEF From
      <4> DEFINE z == IF made[m].reset THEN Meter!LastFlush ELSE 0
      <4>2. z \in Int /\ Meter!Forgotten(m, g) \in Int /\ z <= now /\ Meter!Forgotten(m, g) <= now
        BY <2>4, <1>3, <1>18
      <4> HIDE DEF z
      <4>3. Meter!Max({z, Meter!Forgotten(m, g)}) <= now
        BY <4>2, MaxOfTwo
      <4> QED
        BY <4>1, <4>3 DEF From, z
    <3>3. \A g : Counting(m, g)' = IF g = tags THEN Counting(m, g) \cup {u} ELSE Counting(m, g)
      BY <2>2, <3>2, <1>5 DEF Counting
    <3>4. \A g : Meter!RightValues(m, g)' = Meter!RightValues(m, g)
      <4> TAKE g
      <4>1. ~(u.at < Meter!LastFlush)
        BY <1>3, <1>5, <1>18
      <4>2. Meter!Covered(m, g)' = Meter!Covered(m, g)
        BY <2>2, <2>3, <4>1, <1>9, <1>18 DEF Meter!Covered
      <4>3. Meter!Interval(m)' = Meter!Interval(m)
        BY <1>9, <1>18 DEF Meter!Interval
      <4> QED
        BY <4>2, <4>3, <1>2 DEF Meter!RightValues
    <3>5. nf.actuals = Meter!Counted(class, f.actuals, n, v) /\ nf.values = f.values
      BY DEF nf, Meter!Updated, Meter!NoReset
    <3>6. Meter!Tally(class, Counting(m, tags) \cup {u}) = Meter!Counted(class, f.actuals, n, v)
      <4> DEFINE U == Counting(m, tags)
      <4>1. U \subseteq updates
        BY DEF Counting, Meter!Of, Meter!UpdatesOf
      <4> HIDE DEF U
      <4>2. IsFiniteSet(U) /\ u \notin U
        BY <4>1, <1>3, <1>12, FS_Subset
      <4>3. \A w \in U \cup {u} : w.v \in Meter!Amounts(class)
        BY <4>1, <1>5, <1>11
      <4>4. Meter!Tally(class, U \cup {u}) = Meter!Counted(class, Meter!Tally(class, U), u.n, u.v)
        BY <4>2, <4>3, <1>3, TallyOneMore
      <4> QED
        BY <4>4, <3>1, <1>5 DEF U
    <3>7. ASSUME NEW g \in DOMAIN G
          PROVE  G[g].actuals = Meter!Tally(class, Counting(m, g)')
                   /\ G[g].values = Meter!RightValues(m, g)'
      <4>1. CASE g = tags
        BY <4>1, <3>1, <3>3, <3>4, <3>5, <3>6, <1>10
      <4>2. CASE g # tags
        <5>1. g \in DOMAIN F /\ G[g] = F[g]
          BY <4>2, <1>10
        <5>2. F[g].actuals = Meter!Tally(class, Counting(m, g))
                /\ F[g].values = Meter!RightValues(m, g)
          BY <5>1, <2>1 DEF MetricInv, CountInv, F
        <5> QED
          BY <5>1, <5>2, <4>2, <3>3, <3>4
      <4> QED
        BY <4>1, <4>2
    <3>8. class = "eps" =>
            made'[m].lastTime = Meter!Max({made'[m].created, IF made'[m].reset
              THEN Meter!LastFlush' ELSE 0})
      BY <2>1, <1>9, <1>18 DEF MetricInv, CountInv
    <3> QED
      BY <3>7, <3>8, <1>2 DEF CountInv, G
  <2>7. ExpiryInv(m)'
    <3> SUFFICES ASSUME class \in Meter!Dynamic PROVE ExpiryInv(m)'
      BY <1>2 DEF ExpiryInv
    <3>1. Meter!FieldsAreRight(m) /\
          \A g \in DOMAIN F : /\ \E w \in Meter!Of(m, g) : F[g].expires = w.at + Expiration
                              /\ \A w \in Meter!Of(m, g) : w.at + Expiration <= F[g].expires
      BY <2>1 DEF MetricInv, ExpiryInv, F
    <3>2. Meter!FieldsAreRight(m)'
      <4> DEFINE Alive(w) == w.at < Meter!LastFlush => w.at + Expiration >= Meter!LastFlush
      <4>1. DOMAIN F = {w.tags : w \in {x \in Meter!UpdatesOf(m) : Alive(x)}}
        BY <3>1 DEF Meter!FieldsAreRight, F
      <4>2. Alive(u)
        BY <1>3, <1>5, <1>18
      <4> HIDE DEF Alive
      <4>3. {w.tags : w \in {x \in Meter!UpdatesOf(m) \cup {u} : Alive(x)}} = DOMAIN F \cup {tags}
        BY <4>1, <4>2, <1>5
      <4> QED
        BY <4>3, <1>2, <1>10, <1>17, <1>18 DEF Meter!FieldsAreRight, Alive, G
    <3>3. ASSUME NEW g \in DOMAIN G
          PROVE  /\ \E w \in Meter!Of(m, g)' : G[g].expires = w.at + Expiration
                 /\ \A w \in Meter!Of(m, g)' : w.at + Expiration <= G[g].expires
      <4>1. CASE g = tags
        <5>1. G[g].expires = now + Expiration
          BY <4>1, <1>10 DEF nf, Meter!Updated
        <5>2. u \in Meter!Of(m, g)' /\ u.at + Expiration = now + Expiration
          BY <4>1, <2>2, <1>5
        <5>3. \A w \in Meter!Of(m, g)' : w.at \in Nat /\ w.at <= now
          <6>1. \A w \in Meter!Of(m, g) : w.at \in 0..now
            BY <2>5 DEF Meter!Of
          <6>2. \A w \in Meter!Of(m, g)' : w \in Meter!Of(m, g) \/ w = u
            BY <2>2
          <6> QED
            BY <6>1, <6>2, <1>3, <1>5
        <5>4. \A w \in Meter!Of(m, g)' : w.at + Expiration <= now + Expiration
          BY <5>3, <1>3, MetricAssumption
        <5> QED
          BY <5>1, <5>2, <5>4
      <4>2. CASE g # tags
        <5>1. g \in DOMAIN F /\ G[g] = F[g] /\ Meter!Of(m, g)' = Meter!Of(m, g)
          BY <4>2, <2>2, <1>10
        <5> QED
          BY <5>1, <3>1
      <4> QED
        BY <4>1, <4>2
    <3> QED
      BY <3>2, <3>3, <1>2 DEF ExpiryInv, G
  <2>8. DutyInv(m)'
    <3> SUFFICES ASSUME class = "duty" PROVE DutyInv(m)'
      BY <1>2 DEF DutyInv
    <3> DEFINE a == F[NoTags].actuals
               b == (v = 2)
               s == Meter!Switched(a, n, b)
               names == CycleNames(a)
    <3>1. tags = NoTags /\ NoTags \in DOMAIN F
      BY <1>2, <1>7 DEF Meter!Dynamic
    <3>2. f = F[NoTags]
      BY <3>1 DEF f, Meter!Located, F
    <3>3. nf.actuals = s /\ nf.values = F[NoTags].values
      BY <3>2 DEF nf, Meter!Updated, Meter!Counted, Meter!Like
    <3>4. G[NoTags].actuals = s /\ G[NoTags].values = F[NoTags].values
      BY <3>1, <3>3, <1>10
    <3>5. /\ a \in Seq(CycleSet)
          /\ names = Meter!Names(Meter!UpdatesOf(m))
          /\ \A i, j \in DOMAIN a : a[i].name = a[j].name => i = j
          /\ a # <<>> => LastInv(NamedOf(m, a[Len(a)].name), a[Len(a)], Meter!LastFlush, now)
          /\ Meter!DutyIsRight(m)
      BY <2>1 DEF MetricInv, DutyInv, F
    <3>6. b \in BOOLEAN /\ (b <=> u.v = 2)
      BY <1>5
    <3> HIDE DEF a, b
    <3>7. /\ s \in Seq(CycleSet) /\ s # <<>>
          /\ CycleNames(s) = names \cup {n}
          /\ \A i, j \in DOMAIN s : s[i].name = s[j].name => i = j
          /\ n \notin names => s[Len(s)] = Meter!Cycle(n, b)
          /\ n \in names =>
               /\ a # <<>>
               /\ s[Len(s)] = LET c == a[Len(a)] IN IF c.name # n
                    \/ c.on = b THEN c ELSE Meter!Switch(c, b)
      <4>1. a \in Seq(CycleSet) /\ \A i, j \in DOMAIN a : a[i].name = a[j].name => i = j
        BY <3>5
      <4>2. b \in BOOLEAN /\ now \in Nat
        BY <3>6, <1>3
      <4> QED
        BY <4>1, <4>2, SwitchedFacts
    <3> HIDE DEF s, names
    <3>8. Meter!Names(Meter!UpdatesOf(m)') = names \cup {n}
      BY <3>5, <1>5, <1>17 DEF Meter!Names
    <3>9. \A x : {w \in Meter!UpdatesOf(m)' : w.n = x} =
                 IF x = n THEN NamedOf(m, x) \cup {u} ELSE NamedOf(m, x)
      BY <1>5, <1>17 DEF NamedOf
    <3>10. \A x : \A w \in NamedOf(m, x) : w.at \in 0..now /\ w.no \in Nat /\ w.no < u.no
      BY <1>11 DEF NamedOf, Meter!UpdatesOf
    <3>11. Meter!LastFlush \in Nat /\ Meter!LastFlush <= now /\ u.no \in Nat
      BY <1>3, <1>4, <1>5, <1>18
    <3>12. n \in names => Len(a) \in DOMAIN a /\ a[Len(a)] \in CycleSet
      BY <3>5, <3>7, EmptySeq, LenProperties, ElementOfSeq
    <3>13. /\ n \notin names => s[Len(s)].name = n
           /\ n \in names => s[Len(s)].name = a[Len(a)].name
      BY <3>7 DEF Meter!Cycle, Meter!Switch
    <3>14. LastInv({w \in Meter!UpdatesOf(m)' : w.n = s[Len(s)].name}, s[Len(s)], Meter!LastFlush,
             now)
      <4>1. CASE n \notin names
        <5>1. NamedOf(m, n) = {}
          BY <4>1, <3>5 DEF NamedOf, Meter!Names
        <5>2. {w \in Meter!UpdatesOf(m)' : w.n = n} = {u}
          BY <5>1, <3>9
        <5>3. LastInv({u}, Meter!Cycle(n, b), Meter!LastFlush, now)
          BY <3>6, <3>11, <1>3, <1>5, CycleBegun
        <5> QED
          BY <4>1, <5>2, <5>3, <3>7, <3>13
      <4>2. CASE n \in names
        <5> DEFINE c == a[Len(a)]
        <5>1. LastInv(NamedOf(m, c.name), c, Meter!LastFlush, now) /\ c \in CycleSet
          BY <4>2, <3>5, <3>7, <3>12
        <5>2. s[Len(s)] = IF c.name # n \/ c.on = b THEN c ELSE Meter!Switch(c, b)
          BY <4>2, <3>7
        <5>3. s[Len(s)].name = c.name
          BY <4>2, <3>13
        <5> HIDE DEF c
        <5>4. CASE c.name # n
          BY <5>1, <5>2, <5>3, <5>4, <3>9
        <5>5. CASE c.name = n
          <6>1. NamedOf(m, n) # {}
            BY <4>2, <3>5 DEF NamedOf, Meter!Names
          <6>2. LastInv(NamedOf(m, n) \cup {u}, IF c.on = b THEN c
                  ELSE Meter!Switch(c, b), Meter!LastFlush, now)
            <7>1. \A w \in NamedOf(m, n) : w.at \in 0..now /\ w.no \in Nat /\ w.no < u.no
              BY <3>10
            <7>2. LastInv(NamedOf(m, n), c, Meter!LastFlush, now)
              BY <5>1, <5>5
            <7> QED
              BY <7>1, <7>2, <6>1, <5>1, <3>6, <3>11, <1>3, <1>5, CycleUpdated
          <6> QED
            BY <6>2, <5>2, <5>3, <5>5, <3>9
        <5> QED
          BY <5>4, <5>5
      <4> QED
        BY <4>1, <4>2
    <3>15. Meter!DutyIsRight(m)'
      <4>1. ~(u.at < Meter!LastFlush)
        BY <3>11, <1>3, <1>5
      <4>2. \A x : {w \in Meter!UpdatesOf(m)' : w.n = x /\ w.at < Meter!LastFlush} =
                   {w \in Meter!UpdatesOf(m) : w.n = x /\ w.at < Meter!LastFlush}
        BY <4>1, <1>17
      <4>3. \A x : Meter!DutyOf(m, x)' = Meter!DutyOf(m, x)
        BY <4>2, <1>18 DEF Meter!DutyOf
      <4>4. ASSUME NEW w \in Meter!UpdatesOf(m)', w.at < Meter!LastFlush, w.n = s[Len(s)].name
            PROVE  F[NoTags].values[w.n] = Meter!DutyOf(m, w.n)
        <5>1. w \in Meter!UpdatesOf(m)
          BY <4>4, <1>3, <1>5, <1>17, <3>11
        <5>2. w.n \in names
          BY <5>1, <3>5 DEF Meter!Names
        <5>3. n \in names
          BY <5>2, <4>4, <3>13
        <5>4. w.n = a[Len(a)].name
          BY <5>3, <4>4, <3>13
        <5> QED
          BY <5>1, <5>4, <4>4, <3>5 DEF Meter!DutyIsRight, a, F
      <4> QED
        BY <4>3, <4>4, <3>4, <1>2, <1>18 DEF Meter!DutyIsRight, G
    <3>16. made'[m].fields[NoTags].actuals = s
      BY <3>4 DEF G
    <3> QED
      BY <3>7, <3>8, <3>14, <3>15, <3>16, <1>2, <1>18 DEF DutyInv, NamedOf
  <2> QED
    BY <2>6, <2>7, <2>8 DEF MetricInv
<1>20. ASSUME NEW k \in metrics' PROVE MetricInv(k)'
  <2>1. CASE k = m
    BY <2>1, <1>2, <1>19, <1>20
  <2>2. CASE k # m
    <3>1. k \in DOMAIN made /\ MetricInv(k)
      BY <1>1, <1>2 DEF MadeInv, MetricsInv
    <3>2. Meter!UpdatesOf(k)' = Meter!UpdatesOf(k) /\ made'[k] = made[k]
      BY <2>2, <3>1, <1>6, <1>16
    <3>3. now' \in Nat /\ now <= now'
      BY <1>2, <1>3
    <3> QED
      BY <3>1, <3>2, <3>3, <1>1, <1>2, Frame
  <2> QED
    BY <2>1, <2>2
<1> QED
  BY <1>13, <1>14, <1>15, <1>20 DEF MetricsInv

\* What the flush of a duty cycle relies on, and what it makes.
DutyReady(f, t, U, s) ==
  /\ U # {} /\ \A w \in U : w.at \in 0..t
  /\ s \in Nat /\ s <= t
  /\ f.actuals \in Seq(CycleSet) /\ f.actuals # <<>>
  /\ \A i, j \in DOMAIN f.actuals : f.actuals[i].name = f.actuals[j].name => i = j
  /\ LastInv(U, f.actuals[Len(f.actuals)], s, t)

DutyFlushed(f, g, t, U, s) ==
  /\ g.actuals \in Seq(CycleSet) /\ g.actuals # <<>>
  /\ CycleNames(g.actuals) = CycleNames(f.actuals)
  /\ \A i, j \in DOMAIN g.actuals : g.actuals[i].name = g.actuals[j].name => i = j
  /\ g.actuals[Len(g.actuals)].name = f.actuals[Len(f.actuals)].name
  /\ LastInv(U, g.actuals[Len(g.actuals)], t, t)
  /\ g.values[f.actuals[Len(f.actuals)].name] = <<UpTime(U, Since(U, s), t), t - Since(U, s)>>

LEMMA FlushingDuty ==
  ASSUME NEW f, NEW t \in Nat, NEW U, NEW s, DutyReady(f, t, U, s)
  PROVE  DutyFlushed(f, Meter!FlushedDuty(f, t + 1), t + 1, U, s)
<1> SUFFICES ASSUME U # {}, \A w \in U : w.at \in 0..t, s \in Nat, s <= t,
                    f.actuals \in Seq(CycleSet), f.actuals # <<>>,
                    \A i, j \in DOMAIN f.actuals : f.actuals[i].name = f.actuals[j].name => i = j,
                    LastInv(U, f.actuals[Len(f.actuals)], s, t)
             PROVE  DutyFlushed(f, Meter!FlushedDuty(f, t + 1), t + 1, U, s)
  BY DEF DutyReady
<1> DEFINE a == f.actuals
           l == Len(a)
           c == a[l]
           z == t + 1
           e == [name |-> c.name, on |-> c.on, since |-> z, off |-> 0, up |-> 0]
           up == c.up + (IF c.on THEN z - c.since ELSE 0)
           full == c.up + c.off + (z - c.since)
           d == [a EXCEPT ![l] = e]
           g == Meter!FlushedDuty(f, z)
<1>1. l \in Nat /\ DOMAIN a = 1..l /\ l \in DOMAIN a
  BY EmptySeq, LenProperties
<1>2. \A i \in DOMAIN a : a[i] \in CycleSet
  BY ElementOfSeq
<1>3. c \in CycleSet
  BY <1>1, <1>2
<1>4. g.actuals = d /\ g.values = IF full > 0 THEN Meter!Put(f.values, c.name, <<up, full>>)
        ELSE f.values
  BY DEF Meter!FlushedDuty
<1>5. e.since = t + 1 /\ e.on = c.on /\ e.off = 0 /\ e.up = 0 /\ e.name = c.name
  OBVIOUS
<1>6. e \in CycleSet
  <2>1. z \in Nat /\ c.name \in Name /\ c.on \in BOOLEAN
    BY <1>3 DEF CycleSet
  <2> HIDE DEF c, z
  <2> QED
    BY <2>1 DEF CycleSet
<1> HIDE DEF e
<1>7. /\ d \in Seq(CycleSet) /\ Len(d) = l /\ DOMAIN d = DOMAIN a
      /\ d[l] = e /\ \A i \in DOMAIN a : i # l => d[i] = a[i]
  <2>1. DOMAIN d = 1..l /\ d[l] = e /\ \A i \in DOMAIN a : i # l => d[i] = a[i]
    BY <1>1
  <2>2. d \in [1..l -> CycleSet]
    BY <1>1, <1>2, <1>6
  <2> HIDE DEF d
  <2> QED
    BY <2>1, <2>2, <1>1, SeqDef, LenProperties
<1>8. d # <<>>
  BY <1>1, <1>7
<1>9. \A i \in DOMAIN a : d[i].name = a[i].name
  BY <1>1, <1>5, <1>7
<1>10. CycleNames(d) = CycleNames(a)
  BY <1>7, <1>9 DEF CycleNames
<1>11. \A i, j \in DOMAIN d : d[i].name = d[j].name => i = j
  BY <1>7, <1>9
<1>12. /\ LastInv(U, e, t + 1, t + 1)
       /\ c.up + (IF c.on THEN (t + 1) - c.since ELSE 0) = UpTime(U, Since(U, s), t + 1)
       /\ c.up + c.off + ((t + 1) - c.since) = (t + 1) - Since(U, s)
       /\ (t + 1) - Since(U, s) > 0
  <2>1. LastInv(U, c, s, t)
    OBVIOUS
  <2> HIDE DEF c
  <2> QED
    BY <2>1, <1>3, <1>5, CycleFlushed
<1>13. up = UpTime(U, Since(U, s), t + 1) /\ full = (t + 1) - Since(U, s) /\ full > 0
  BY <1>12
<1> HIDE DEF up, full, g, d, c
<1>14. g.values = Meter!Put(f.values, c.name, <<up, full>>)
  BY <1>4, <1>13
<1>15. g.values[c.name] = <<up, full>>
  BY <1>14 DEF Meter!Put
<1>16. g.actuals[Len(g.actuals)] = e
  BY <1>4, <1>7
<1> QED
  BY <1>4, <1>5, <1>7, <1>8, <1>10, <1>11, <1>12, <1>13, <1>15, <1>16 DEF g, c, DutyFlushed

LEMMA Flushes ==
  ASSUME MetricsInv, Meter!Flush
  PROVE  MetricsInv'
<1> DEFINE t == now + 1
<1>1. HistoryInv /\ MadeInv /\ Meter!ListedOnce
  BY DEF MetricsInv
<1>2. /\ now' = t /\ flushes' = flushes \cup {t}
      /\ listed' = listed /\ metrics' = metrics /\ class' = class /\ updates' = updates
      /\ made' = [m \in DOMAIN made |-> IF m \in metrics THEN Meter!Flushed(made[m], t)
           ELSE made[m]]
  BY DEF Meter!Flush
<1>3. /\ now \in Nat /\ class \in Kind /\ flushes \subseteq 1..now /\ t \in Nat /\ now < t
  BY <1>1 DEF HistoryInv
<1>4. Meter!LastFlush' = t /\ Meter!FlushBefore' = Meter!LastFlush
  BY <1>2, <1>3, AfterFlush
<1>5. Meter!LastFlush \in 0..now /\ Meter!FlushBefore \in 0..Meter!LastFlush
  BY <1>3, FlushTimes
<1>6. \A u \in updates : u.at \in 0..now /\ u.at < t /\ u.at \in Nat
  <2>1. \A u \in updates : u.at \in 0..now
    BY <1>1 DEF HistoryInv
  <2> QED
    BY <2>1, <1>3
<1> HIDE DEF t
<1>7. /\ DOMAIN made' = DOMAIN made
      /\ \A m \in DOMAIN made : made'[m] = IF m \in metrics THEN Meter!Flushed(made[m], t)
           ELSE made[m]
  BY <1>2
<1>8. \A m \in DOMAIN made :
        /\ made[m] = [key |-> made[m].key, reset |-> made[m].reset, created |-> made[m].created,
                      lastTime |-> made[m].lastTime, fields |-> made[m].fields]
        /\ made[m].reset \in BOOLEAN /\ made[m].created \in 0..now /\ made[m].lastTime \in 0..now
        /\ class \notin Meter!Dynamic => DOMAIN made[m].fields = {NoTags}
  BY <1>1 DEF MadeInv
<1>9. ASSUME NEW m \in metrics
      PROVE  /\ m \in DOMAIN made
             /\ made'[m] = [key |-> made[m].key, reset |-> made[m].reset,
                  created |-> made[m].created,
                            lastTime |-> IF class = "eps" /\ made[m].reset THEN t
                                         ELSE made[m].lastTime,
                            fields |-> [g \in Meter!Kept(made[m], t) |->
                                          Meter!FlushedField(made[m], made[m].fields[g], t)]]
  <2>1. m \in DOMAIN made
    BY <1>1 DEF MadeInv
  <2>2. made'[m] = Meter!Flushed(made[m], t)
    BY <2>1, <1>7
  <2>3. made[m] = [key |-> made[m].key, reset |-> made[m].reset, created |-> made[m].created,
                   lastTime |-> made[m].lastTime, fields |-> made[m].fields]
    BY <2>1, <1>8
  <2> QED
    BY <2>1, <2>2, <2>3 DEF Meter!Flushed
<1>10. ASSUME NEW m \in metrics
       PROVE  /\ made'[m] = [key |-> made'[m].key, reset |-> made'[m].reset,
                             created |-> made'[m].created, lastTime |-> made'[m].lastTime,
                             fields |-> made'[m].fields]
              /\ made'[m].key = made[m].key /\ made'[m].reset = made[m].reset
              /\ made'[m].created = made[m].created
              /\ made'[m].lastTime \in {t, made[m].lastTime}
              /\ DOMAIN made'[m].fields = Meter!Kept(made[m], t)
  <2> DEFINE x == IF class = "eps" /\ made[m].reset THEN t ELSE made[m].lastTime
             r == [g \in Meter!Kept(made[m], t) |->
               Meter!FlushedField(made[m], made[m].fields[g], t)]
             p == made'[m]
             q == made[m]
             K == Meter!Kept(made[m], t)
  <2>1. p = [key |-> q.key, reset |-> q.reset, created |-> q.created, lastTime |-> x, fields |-> r]
    BY <1>9
  <2>2. x \in {t, q.lastTime} /\ DOMAIN r = K
    OBVIOUS
  <2> HIDE DEF x, r, p, q, K
  <2>3. /\ p = [key |-> p.key, reset |-> p.reset, created |-> p.created,
                lastTime |-> p.lastTime, fields |-> p.fields]
        /\ p.key = q.key /\ p.reset = q.reset /\ p.created = q.created
        /\ p.lastTime = x /\ p.fields = r
    BY <2>1
  <2>4. p.lastTime \in {t, q.lastTime} /\ DOMAIN p.fields = K
    BY <2>2, <2>3
  <2> QED
    BY <2>3, <2>4 DEF p, q, K
<1>11. HistoryInv'
  <2>1. flushes' \subseteq 1..t
    <3>1. \A e \in 1..now : e \in 1..t
      BY <1>3
    <3>2. t \in 1..t
      BY <1>3
    <3> QED
      BY <3>1, <3>2, <1>2, <1>3
  <2>2. \A k \in DOMAIN made : made'[k].created = made[k].created
    <3> TAKE k \in DOMAIN made
    <3>1. CASE k \in metrics
      BY <3>1, <1>10
    <3>2. CASE k \notin metrics
      BY <3>2, <1>7
    <3> QED
      BY <3>1, <3>2
  <2>3. \A u \in updates : u.at \in 0..t
    BY <1>3, <1>6
  <2>4. \A u \in updates : u.m \in DOMAIN made' /\ made'[u.m].created <= u.at
    BY <2>2, <1>1, <1>7 DEF HistoryInv
  <2> QED
    BY <2>1, <2>3, <2>4, <1>1, <1>2, <1>3 DEF HistoryInv
<1>12. MadeInv'
  <2>1. ASSUME NEW k \in DOMAIN made'
        PROVE  /\ made'[k] = [key |-> made'[k].key, reset |-> made'[k].reset,
                              created |-> made'[k].created, lastTime |-> made'[k].lastTime,
                              fields |-> made'[k].fields]
               /\ made'[k].reset \in BOOLEAN /\ made'[k].created \in 0..t
               /\ made'[k].lastTime \in 0..t
               /\ class \notin Meter!Dynamic => DOMAIN made'[k].fields = {NoTags}
    <3>1. k \in DOMAIN made
      BY <1>7
    <3>2. \A x \in 0..now : x \in 0..t
      BY <1>3
    <3>3. CASE k \notin metrics
      <4>1. made'[k] = made[k]
        BY <3>1, <3>3, <1>7
      <4> QED
        BY <3>1, <3>2, <4>1, <1>8
    <3>4. CASE k \in metrics
      <4>1. made'[k] = [key |-> made'[k].key, reset |-> made'[k].reset,
                        created |-> made'[k].created, lastTime |-> made'[k].lastTime,
                        fields |-> made'[k].fields]
        BY <3>4, <1>10
      <4>2. /\ made'[k].reset = made[k].reset /\ made'[k].created = made[k].created
            /\ made'[k].lastTime \in {t, made[k].lastTime}
            /\ DOMAIN made'[k].fields = Meter!Kept(made[k], t)
        BY <3>4, <1>10
      <4>3. t \in 0..t
        BY <1>3
      <4>4. class \notin Meter!Dynamic => Meter!Kept(made[k], t) = {NoTags}
        BY <3>1, <1>8 DEF Meter!Kept
      <4> QED
        BY <3>1, <3>2, <4>1, <4>2, <4>3, <4>4, <1>8
    <3> QED
      BY <3>3, <3>4
  <2> QED
    BY <2>1, <1>1, <1>2, <1>7 DEF MadeInv
<1>13. Meter!ListedOnce'
  <2>1. \A k \in DOMAIN made : made'[k].key = made[k].key
    <3> TAKE k \in DOMAIN made
    <3>1. CASE k \in metrics
      BY <3>1, <1>10
    <3>2. CASE k \notin metrics
      BY <3>2, <1>7
    <3> QED
      BY <3>1, <3>2
  <2>2. listed \subseteq DOMAIN made
    BY <1>1 DEF Meter!ListedOnce, MadeInv
  <2> QED
    BY <2>1, <2>2, <1>1, <1>2 DEF Meter!ListedOnce
<1>14. ASSUME NEW m \in metrics PROVE MetricInv(m)'
  <2> DEFINE F == made[m].fields
             G == made'[m].fields
             K == Meter!Kept(made[m], t)
  <2>1. MetricInv(m) /\ m \in DOMAIN made
    BY <1>9 DEF MetricsInv
  <2>2. made'[m] = [key |-> made[m].key, reset |-> made[m].reset, created |-> made[m].created,
                    lastTime |-> IF class = "eps" /\ made[m].reset THEN t ELSE made[m].lastTime,
                    fields |-> [g \in K |-> Meter!FlushedField(made[m], F[g], t)]]
    BY <1>9
  <2>3. /\ made'[m].reset = made[m].reset /\ made'[m].created = made[m].created
        /\ made'[m].lastTime = IF class = "eps" /\ made[m].reset THEN t ELSE made[m].lastTime
        /\ DOMAIN G = K /\ \A g \in K : G[g] = Meter!FlushedField(made[m], F[g], t)
    BY <2>2
  <2>4. made[m].reset \in BOOLEAN /\ made[m].created \in 0..now /\ made[m].lastTime \in 0..now
        /\ (class \notin Meter!Dynamic => DOMAIN F = {NoTags})
    BY <2>1, <1>8
  <2> HIDE DEF G
  <2>5. K = {g \in DOMAIN F : class \in Meter!Dynamic => ~(F[g].expires < t)}
    BY DEF Meter!Kept
  <2> HIDE DEF F, K
  <2>6. Meter!UpdatesOf(m)' = Meter!UpdatesOf(m) /\ \A g : Meter!Of(m, g)' = Meter!Of(m, g)
    BY <1>2 DEF Meter!Of, Meter!UpdatesOf
  <2>7. \A g : Meter!Of(m, g) \subseteq updates /\ Meter!UpdatesOf(m) \subseteq updates
    BY DEF Meter!Of, Meter!UpdatesOf
  <2>8. CountInv(m)'
    <3> SUFFICES ASSUME class \notin Meter!NoReset PROVE CountInv(m)'
      BY <1>2 DEF CountInv
    <3>1. ASSUME NEW g \in K PROVE Meter!Forgotten(m, g)' = Meter!Forgotten(m, g)
      <4>1. ~Stale(m, g, t)
        <5>1. CASE class \notin Meter!Dynamic
          BY <5>1 DEF Stale
        <5>2. CASE class \in Meter!Dynamic
          <6>1. g \in DOMAIN F /\ ~(F[g].expires < t)
            BY <5>2, <2>5
          <6>2. PICK u \in Meter!Of(m, g) : F[g].expires = u.at + Expiration
            BY <5>2, <6>1, <2>1 DEF MetricInv, ExpiryInv, F
          <6>3. u.at < t /\ ~(u.at + Expiration < t)
            BY <6>1, <6>2, <1>6, <2>7
          <6> QED
            BY <6>3 DEF Stale
        <5> QED
          BY <5>1, <5>2
      <4> QED
        BY <4>1, <1>2, <1>3, ForgottenAtFlush DEF t
    <3>2. \A g : Meter!Forgotten(m, g) \in 0..Meter!LastFlush
      BY <1>3, ForgottenFacts
    <3>3. ASSUME NEW g \in K PROVE Meter!Covered(m, g)' = Counting(m, g)
      <4>1. Meter!Covered(m, g)' = {u \in Meter!Of(m, g) : From(m, g) <= u.at /\ u.at < t}
        BY <2>3, <2>6, <3>1, <1>4 DEF Meter!Covered, From
      <4>2. \A u \in Meter!Of(m, g) : u.at < t
        BY <1>6, <2>7
      <4> QED
        BY <4>1, <4>2 DEF Counting
    <3>4. ASSUME NEW g \in K
          PROVE Counting(m, g)' = IF made[m].reset THEN {} ELSE Counting(m, g)
      <4> DEFINE z == IF made[m].reset THEN t ELSE 0
      <4>1. Counting(m, g)' = {u \in Meter!Of(m, g) : Meter!Max({z, Meter!Forgotten(m, g)}) <= u.at}
        BY <2>3, <2>6, <3>1, <1>4 DEF Counting, From
      <4>2. CASE made[m].reset
        <5>1. t \in Int /\ Meter!Forgotten(m, g) \in Int /\ Meter!Forgotten(m, g) <= t
          BY <3>2, <1>3, <1>5
        <5>2. Meter!Max({t, Meter!Forgotten(m, g)}) = t
          BY <5>1, MaxOfTwo
        <5>3. \A u \in Meter!Of(m, g) : ~(t <= u.at)
          BY <1>3, <1>6, <2>7
        <5> QED
          BY <4>1, <4>2, <5>2, <5>3
      <4>3. CASE ~made[m].reset
        BY <4>1, <4>3 DEF Counting, From
      <4> QED
        BY <4>2, <4>3
    <3>5. class = "eps" => Meter!Interval(m)' = t - made[m].lastTime
      <4>1. Meter!Interval(m)' = t -
              Meter!Max({made[m].created, IF made[m].reset THEN Meter!LastFlush ELSE 0})
        BY <2>3, <1>4 DEF Meter!Interval
      <4> QED
        BY <4>1, <2>1 DEF MetricInv, CountInv
    <3>6. ASSUME NEW g \in K
          PROVE  /\ G[g].actuals = Meter!Tally(class, Counting(m, g)')
                 /\ G[g].values = Meter!RightValues(m, g)'
      <4>1. F[g].actuals = Meter!Tally(class, Counting(m, g))
        BY <2>1, <2>5 DEF MetricInv, CountInv, F
      <4>2. /\ G[g].actuals = IF made[m].reset THEN Meter!Zero(class) ELSE F[g].actuals
            /\ G[g].values = IF class = "eps"
                 THEN [n \in DOMAIN F[g].actuals |->
                   Meter!Quotient(F[g].actuals[n], t - made[m].lastTime)]
                 ELSE F[g].actuals
        BY <2>3 DEF Meter!FlushedField, Meter!NoReset
      <4>3. Meter!Tally(class, {}) = Meter!Zero(class)
        BY <1>3, EmptyTally
      <4>4. G[g].actuals = Meter!Tally(class, Counting(m, g)')
        BY <3>4, <4>1, <4>2, <4>3, <2>4
      <4>5. Meter!Tally(class, Meter!Covered(m, g)') = F[g].actuals
        BY <3>3, <4>1
      <4>6. Meter!RightValues(m, g)' = IF class = "eps"
                 THEN [n \in DOMAIN F[g].actuals |->
                   Meter!Quotient(F[g].actuals[n], Meter!Interval(m)')]
                 ELSE F[g].actuals
        BY <4>5, <1>2 DEF Meter!RightValues
      <4>7. G[g].values = Meter!RightValues(m, g)'
        BY <4>2, <4>6, <3>5
      <4> QED
        BY <4>4, <4>7
    <3>7. class = "eps" =>
            made'[m].lastTime = Meter!Max({made[m].created, IF made[m].reset THEN t ELSE 0})
      <4> SUFFICES ASSUME class = "eps"
                   PROVE  made'[m].lastTime = Meter!Max({made[m].created, IF made[m].reset
                            THEN t ELSE 0})
        OBVIOUS
      <4>1. CASE made[m].reset
        <5>1. made[m].created \in Int /\ t \in Int /\ made[m].created <= t
          BY <2>4, <1>3
        <5>2. Meter!Max({made[m].created, t}) = t
          BY <5>1, MaxOfTwo
        <5> QED
          BY <4>1, <5>2, <2>3
      <4>2. CASE ~made[m].reset
        BY <4>2, <2>1, <2>3 DEF MetricInv, CountInv
      <4> QED
        BY <4>1, <4>2
    <3> QED
      BY <3>6, <3>7, <2>3, <1>2, <1>4 DEF CountInv, G
  <2>9. ExpiryInv(m)'
    <3> SUFFICES ASSUME class \in Meter!Dynamic PROVE ExpiryInv(m)'
      BY <1>2 DEF ExpiryInv
    <3>1. /\ DOMAIN F = {u.tags : u \in {w \in Meter!UpdatesOf(m) :
                                          w.at < Meter!LastFlush
                                            => w.at + Expiration >= Meter!LastFlush}}
          /\ \A g \in DOMAIN F : /\ \E w \in Meter!Of(m, g) : F[g].expires = w.at + Expiration
                                 /\ \A w \in Meter!Of(m, g) : w.at + Expiration <= F[g].expires
      BY <2>1 DEF MetricInv, ExpiryInv, Meter!FieldsAreRight, F
    <3>2. \A g \in K : G[g].expires = F[g].expires
      <4>1. class # "gauge" /\ class # "duty"
        BY DEF Meter!Dynamic
      <4> QED
        BY <4>1, <2>3 DEF Meter!FlushedField
    <3> DEFINE A == {w \in Meter!UpdatesOf(m) : w.at < t => w.at + Expiration >= t}
    <3>3. K \subseteq {u.tags : u \in A}
      <4> SUFFICES ASSUME NEW g \in K PROVE \E u \in A : g = u.tags
        OBVIOUS
      <4>1. g \in DOMAIN F /\ ~(F[g].expires < t)
        BY <2>5
      <4>2. PICK u \in Meter!Of(m, g) : F[g].expires = u.at + Expiration
        BY <3>1, <4>1
      <4>3. u.at + Expiration >= t
        BY <4>1, <4>2, <1>3, <1>6, <2>7, MetricAssumption
      <4> QED
        BY <4>3 DEF Meter!Of
    <3>4. {u.tags : u \in A} \subseteq K
      <4> SUFFICES ASSUME NEW u \in A PROVE u.tags \in K
        OBVIOUS
      <4>1. u \in Meter!UpdatesOf(m) /\ u.at + Expiration >= t /\ u.at \in Nat
        BY <1>6, <2>7
      <4>2. u.at + Expiration >= Meter!LastFlush
        BY <4>1, <1>3, <1>5, MetricAssumption
      <4>3. u.tags \in DOMAIN F
        BY <3>1, <4>1, <4>2
      <4>4. u \in Meter!Of(m, u.tags)
        BY <4>1 DEF Meter!Of
      <4>5. PICK w \in Meter!Of(m, u.tags) : F[u.tags].expires = w.at + Expiration
        BY <3>1, <4>3
      <4>6. w.at \in Nat
        BY <1>6, <2>7
      <4>7. ~(F[u.tags].expires < t)
        <5>1. u.at + Expiration <= F[u.tags].expires
          BY <3>1, <4>3, <4>4
        <5> QED
          BY <5>1, <4>1, <4>5, <4>6, <1>3, MetricAssumption
      <4> QED
        BY <4>3, <4>7, <2>5
    <3>5. Meter!FieldsAreRight(m)'
      BY <3>3, <3>4, <2>3, <2>6, <1>4 DEF Meter!FieldsAreRight, G
    <3>6. \A g \in K : /\ \E w \in Meter!Of(m, g)' : G[g].expires = w.at + Expiration
                       /\ \A w \in Meter!Of(m, g)' : w.at + Expiration <= G[g].expires
      BY <3>1, <3>2, <2>5, <2>6
    <3> QED
      BY <3>5, <3>6, <2>3 DEF ExpiryInv, G
  <2>10. DutyInv(m)'
    <3> SUFFICES ASSUME class = "duty" PROVE DutyInv(m)'
      BY <1>2 DEF DutyInv
    <3> DEFINE f == F[NoTags]
               a == f.actuals
               n == a[Len(a)].name
               h == Meter!FlushedDuty(f, t)
               U == NamedOf(m, n)
    <3>1. NoTags \in K /\ G[NoTags] = h
      BY <2>3, <2>4, <2>5 DEF Meter!Dynamic, Meter!FlushedField
    <3>2. /\ a \in Seq(CycleSet)
          /\ CycleNames(a) = Meter!Names(Meter!UpdatesOf(m))
          /\ \A i, j \in DOMAIN a : a[i].name = a[j].name => i = j
          /\ a # <<>> => LastInv(U, a[Len(a)], Meter!LastFlush, now)
      BY <2>1 DEF MetricInv, DutyInv, F
    <3>3. made'[m].fields[NoTags] = h
      BY <3>1 DEF G
    <3>4. CASE a = <<>>
      <4>1. h = f
        BY <3>4 DEF Meter!FlushedDuty
      <4>2. Meter!UpdatesOf(m) = {}
        <5>1. CycleNames(<<>>) = {}
          BY DEF CycleNames
        <5>2. Meter!Names(Meter!UpdatesOf(m)) = {}
          BY <5>1, <3>2, <3>4
        <5> QED
          BY <5>2 DEF Meter!Names
      <4>3. Meter!DutyIsRight(m)'
        BY <4>2, <2>6 DEF Meter!DutyIsRight
      <4>4. made'[m].fields[NoTags].actuals = a
        BY <4>1, <3>3
      <4> HIDE DEF a
      <4> QED
        BY <3>2, <3>4, <4>3, <4>4, <2>6 DEF DutyInv
    <3>5. CASE a # <<>>
      <4>1. n \in Meter!Names(Meter!UpdatesOf(m))
        <5>1. Len(a) \in DOMAIN a
          BY <3>2, <3>5, EmptySeq, LenProperties
        <5> QED
          BY <5>1, <3>2 DEF CycleNames
      <4>2. U # {} /\ U = {w \in Meter!UpdatesOf(m) : w.n = n}
        BY <4>1 DEF Meter!Names, NamedOf
      <4>3. \A w \in U : w.at \in 0..now
        BY <1>6, <2>7 DEF NamedOf
      <4>4. Meter!LastFlush \in Nat /\ Meter!LastFlush <= now
        BY <1>3, <1>5
      <4>5. /\ h.actuals \in Seq(CycleSet) /\ h.actuals # <<>>
            /\ CycleNames(h.actuals) = CycleNames(a)
            /\ \A i, j \in DOMAIN h.actuals : h.actuals[i].name = h.actuals[j].name => i = j
            /\ h.actuals[Len(h.actuals)].name = n
            /\ LastInv(U, h.actuals[Len(h.actuals)], t, t)
            /\ h.values[n] = <<UpTime(U, Since(U, Meter!LastFlush), t),
                 t - Since(U, Meter!LastFlush)>>
        <5>1. /\ f.actuals \in Seq(CycleSet) /\ f.actuals # <<>>
              /\ \A i, j \in DOMAIN f.actuals : f.actuals[i].name = f.actuals[j].name => i = j
              /\ LastInv(U, f.actuals[Len(f.actuals)], Meter!LastFlush, now)
          BY <3>2, <3>5
        <5> HIDE DEF f, U, h
        <5>2. now \in Nat
          BY <1>3
        <5>3. DutyReady(f, now, U, Meter!LastFlush)
          BY <5>1, <4>2, <4>3, <4>4 DEF DutyReady
        <5>4. DutyFlushed(f, Meter!FlushedDuty(f, now + 1), now + 1, U, Meter!LastFlush)
          BY <5>2, <5>3, FlushingDuty
        <5> QED
          BY <5>4 DEF h, t, DutyFlushed
      <4> HIDE DEF h, U, n, a, f
      <4>6. {w \in Meter!UpdatesOf(m) : w.n = n /\ w.at < t} = U
        BY <4>2, <1>6, <2>7
      <4>7. \A x : x = n => Meter!DutyOf(m, x)' =
              <<UpTime(U, Since(U, Meter!LastFlush), t), t - Since(U, Meter!LastFlush)>>
        BY <4>6, <2>6, <1>4 DEF Meter!DutyOf, UpTime, Since
      <4>8. Meter!DutyIsRight(m)'
        BY <4>5, <4>7, <3>3, <2>6 DEF Meter!DutyIsRight
      <4>9. made'[m].fields[NoTags].actuals = h.actuals
        BY <3>3
      <4> DEFINE b == h.actuals
      <4>10. b # <<>> => LastInv({w \in Meter!UpdatesOf(m)' : w.n = b[Len(b)].name}, b[Len(b)],
               Meter!LastFlush', now')
        BY <4>2, <4>5, <2>6, <1>2, <1>4
      <4>11. b \in Seq(CycleSet) /\ CycleNames(b) = Meter!Names(Meter!UpdatesOf(m)')
             /\ \A i, j \in DOMAIN b : b[i].name = b[j].name => i = j
        BY <4>5, <3>2, <2>6
      <4>12. made'[m].fields[NoTags].actuals = b
        BY <4>9
      <4> HIDE DEF b
      <4> QED
        BY <4>8, <4>10, <4>11, <4>12 DEF DutyInv, NamedOf
    <3> QED
      BY <3>4, <3>5
  <2> QED
    BY <2>8, <2>9, <2>10 DEF MetricInv
<1> QED
  BY <1>2, <1>11, <1>12, <1>13, <1>14 DEF MetricsInv

LEMMA MetricsStep ==
  ASSUME MetricsInv, [Meter!Next]_metricVars
  PROVE  MetricsInv'
<1>1. ASSUME NEW m \in Meter!Metric, NEW key \in Key, NEW reset \in BOOLEAN,
             Meter!Create(m, key, reset)
      PROVE  MetricsInv'
  BY <1>1, Creates
<1>2. ASSUME NEW m \in Meter!Metric, NEW n \in Name, NEW v \in Meter!Amounts(class),
             NEW tags \in DynTags \cup {NoTags}, Meter!Update(m, n, v, tags)
      PROVE  MetricsInv'
  BY <1>2, Updating
<1>3. CASE (\E m \in Meter!Metric : Meter!Delete(m)) \/ Meter!Clear \/ Meter!Pass
             \/ UNCHANGED metricVars
  BY <1>3, Removes
<1>4. CASE Meter!Flush
  BY <1>4, Flushes
<1> QED
  BY <1>1, <1>2, <1>3, <1>4 DEF Meter!Next

LEMMA MetricsInit ==
  ASSUME Meter!Init
  PROVE  MetricsInv
<1>1. HistoryInv
  <2>1. IsFiniteSet({})
    BY FS_EmptySet, MeasuredCardinality
  <2> QED
    BY <2>1 DEF Meter!Init, HistoryInv
<1>2. MadeInv
  BY DEF Meter!Init, MadeInv, Meter!NoEntry
<1>3. Meter!ListedOnce
  BY DEF Meter!Init, Meter!ListedOnce
<1> QED
  BY <1>1, <1>2, <1>3 DEF Meter!Init, MetricsInv

LEMMA MetricsImply ==
  ASSUME MetricsInv
  PROVE  Meter!ListedOnce /\ Meter!ExportsAreRight
<1>1. ASSUME NEW m \in metrics PROVE Meter!ValuesAreRight(m) /\ Meter!FieldsAreRight(m)
             /\ Meter!DutyIsRight(m)
  <2>1. MetricInv(m)
    BY DEF MetricsInv
  <2>2. Meter!ValuesAreRight(m)
    BY <2>1 DEF MetricInv, CountInv, Meter!ValuesAreRight
  <2>3. Meter!FieldsAreRight(m)
    BY <2>1 DEF MetricInv, ExpiryInv, Meter!FieldsAreRight
  <2>4. Meter!DutyIsRight(m)
    BY <2>1 DEF MetricInv, DutyInv, Meter!DutyIsRight
  <2> QED
    BY <2>2, <2>3, <2>4
<1> QED
  BY <1>1 DEF MetricsInv, Meter!ExportsAreRight

-----------------------------------------------------------------------------
(* The invariant of the run-time.                                          *)

RuntimeInv == /\ TypeOK /\ TaskInv
              /\ MessageInv /\ TimerInv /\ LogInv /\ StreamInv /\ ConfigInv /\ AppInv
              /\ HouseInv /\ MetricsInv

LEMMA RuntimeInvHolds == RuntimeSpec => []RuntimeInv
<1>1. RuntimeInit => RuntimeInv
  <2>1. Timers!Init => TimerInv
    <3> SUFFICES ASSUME Timers!Init PROVE TimerInv
      OBVIOUS
    <3>1. autoRestart \in BOOLEAN /\ wanted \in BOOLEAN
      BY DEF Timers!Init
    <3>2. Timers!TypeOK
      BY <3>1, TimerAssumption DEF Timers!Init, Timers!TypeOK
    <3> QED
      BY <3>2, TimerAssumption DEF Timers!Init, TimerInv, Timers!OneArmed
  <2> QED
    BY <2>1, TaskInit, LogInit, StreamInit, AppInit, ConfigInit, MessageInit, HouseInit,
       MetricsInit
    DEF RuntimeInit, RuntimeInv
<1>2. RuntimeInv /\ [RuntimeNext /\ UNCHANGED part]_runtimeVars => RuntimeInv'
  <2> SUFFICES ASSUME RuntimeInv, [RuntimeNext /\ UNCHANGED part]_runtimeVars PROVE RuntimeInv'
    OBVIOUS
  <2>1. TypeOK' /\ TaskInv'
    BY PartSteps, TypeStep, TaskStep DEF RuntimeInv
  <2>2. TimerInv'
    BY PartSteps, TimerStep DEF RuntimeInv
  <2>3. LogInv'
    BY PartSteps, LogTypeStep, KeptStep, OrderStep DEF RuntimeInv, LogInv
  <2>4. StreamInv'
    BY PartSteps, StreamStep DEF RuntimeInv
  <2>5. ConfigInv'
    BY PartSteps, ConfigStep DEF RuntimeInv
  <2>6. AppInv'
    BY PartSteps, AppStep DEF RuntimeInv
  <2>7. MessageInv'
    BY PartSteps, MessageStep DEF RuntimeInv
  <2>8. HouseInv'
    BY PartSteps, HouseStep DEF RuntimeInv
  <2>9. MetricsInv'
    BY PartSteps, MetricsStep DEF RuntimeInv
  <2> QED
    BY <2>1, <2>2, <2>3, <2>4, <2>5, <2>6, <2>7, <2>8, <2>9 DEF RuntimeInv
<1> QED
  BY <1>1, <1>2, PTL DEF RuntimeSpec

-----------------------------------------------------------------------------
(* The theorems.                                                           *)

\* The state of the task service is well typed throughout.
THEOREM TaskTypeCorrect == RuntimeSpec => []TypeOK
<1>1. RuntimeInv => TypeOK
  BY DEF RuntimeInv
<1> QED
  BY <1>1, RuntimeInvHolds, PTL

\* A task that runs is held in PendingTasks, through deaths of the main task and
\* finalize() alike.
THEOREM RunningTasksHeld == RuntimeSpec => []RunningHeld
<1>1. RuntimeInv => RunningHeld
  BY DEF RuntimeInv, TaskInv
<1> QED
  BY <1>1, RuntimeInvHolds, PTL

\* TaskService.task_done! is published at most once for a task, and only when it is
\* done.
THEOREM TaskReportedOnce == RuntimeSpec => []ReportedOnce
<1>1. RuntimeInv => ReportedOnce
  BY DEF RuntimeInv, TaskInv
<1> QED
  BY <1>1, RuntimeInvHolds, PTL

\* No task runs when finalize() has ended, and none can be started any more.
THEOREM NothingRunsAfterFinalize == RuntimeSpec => []FinalizedIsFinal
<1>1. RuntimeInv => FinalizedIsFinal
  BY DEF RuntimeInv, TaskInv, FinalizeInv, FinalizedIsFinal, Running
<1> QED
  BY <1>1, RuntimeInvHolds, PTL

\* A timer has one job that may call its handler, no log record vanishes or overtakes
\* another unless the socket failed, a web socket misses no record but those that were pushed
\* out of the buffer while it read it, and the files of the configuration are read once,
\* whatever they name.
THEOREM NothingSlipsThrough == RuntimeSpec => []NothingSlips
<1>1. RuntimeInv => NothingSlips
  <2> SUFFICES ASSUME RuntimeInv PROVE NothingSlips
    OBVIOUS
  <2>1. Timers!OneArmed
    BY DEF RuntimeInv, TimerInv
  <2>2. Logging!RecordsKept /\ Logging!SentInOrder
    BY DEF RuntimeInv, LogInv, KeptInv, OrderInv, Logging!SentInOrder
  <2>3. Streams!RecordsStreamed
    BY StreamImplies DEF RuntimeInv
  <2>4. Config!IncludedOnce
    BY ConfigImplies DEF RuntimeInv
  <2> QED
    BY <2>1, <2>2, <2>3, <2>4 DEF NothingSlips
<1> QED
  BY <1>1, RuntimeInvHolds, PTL

\* Services are finalized before modules, each kind in the reverse order of registration,
\* though more are registered while that goes on.
THEOREM FinalizedBackwards == RuntimeSpec => []FinalizedInReverse
<1>1. RuntimeInv => FinalizedInReverse
  BY AppImplies DEF RuntimeInv, FinalizedInReverse
<1> QED
  BY <1>1, RuntimeInvHolds, PTL

\* A publication that has come to the end of its list misses at most as many subscribers as
\* were removed from the list under it, by whatever its callbacks call.
THEOREM MissedOnlyByShifts == RuntimeSpec => []MissedAreShifted
<1>1. RuntimeInv => MissedAreShifted
  BY MessageImplies DEF RuntimeInv, MissedAreShifted
<1> QED
  BY <1>1, RuntimeInvHolds, PTL

\* Whoever is called is subscribed at that moment.
THEOREM CalledAreSubscribed == RuntimeSpec => OnlySubscribed
<1>1. RuntimeInv /\ [RuntimeNext /\ UNCHANGED part]_runtimeVars =>
        [Messages!Call => current # 0 /\ Messages!NextRef \in Messages!Range(lists[current])]_(Messages!vars)
  BY CalledIsSubscribed DEF RuntimeInv
<1> QED
  BY <1>1, RuntimeInvHolds, PTL DEF RuntimeSpec, OnlySubscribed, Messages!OnlySubscribed

\* Housekeeping comes once for a day, in its window, unless the machine slept through it; and
\* what is exported of a metric is what happened in its interval, each series once.
THEOREM DoneOncePerInterval == RuntimeSpec => []OncePerInterval
<1>1. RuntimeInv => OncePerInterval
  BY HouseImplies, MetricsImply DEF RuntimeInv, OncePerInterval
<1> QED
  BY <1>1, RuntimeInvHolds, PTL
=============================================================================
