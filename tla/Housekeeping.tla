------------------------------ MODULE Housekeeping ------------------------------
(***************************************************************************)
(* The schedule of Application.housekeeping! (asab/application.py:758-836).*)
(*                                                                         *)
(* Time is counted so that the loop ticks at odd moments and the schedule  *)
(* is at even ones; two units are the ten minutes of a tick, and a day has *)
(* a few of them.  Nothing ticks while the machine sleeps or the loop is   *)
(* blocked.  The publication of [housekeeping] run_at_startup, which the   *)
(* schedule knows nothing of (application.py:621-623), is left out.        *)
(***************************************************************************)
EXTENDS Naturals, FiniteSets

CONSTANTS
  Day,          \* units of a day
  Hours,        \* those of a day that [housekeeping] at and limit may be
  MaxDays

VARIABLES
  schedule,     \* the configured pair
  now,
  housekeepingTime, housekeepingTimeLimit, housekeepingId,
  missed,       \* HousekeepingMissedEvents
  published,    \* history: when a tick published Application.housekeeping!
  awake         \* history: the moments at which the loop ticked

houseVars == <<schedule, now, housekeepingTime, housekeepingTimeLimit, housekeepingId, missed,
               published, awake>>

\* Pairs of at and limit.
Schedules == {s \in Hours \X Hours : s[1] # s[2]}

DayOf(time) == time \div Day      \* _housekeeping_id()
At(day) == day * Day + schedule[1]

\* A limit that is earlier in the day than the start is that of the next day.
Window == IF schedule[2] < schedule[1] THEN schedule[2] + Day - schedule[1]
          ELSE schedule[2] - schedule[1]

TypeOK ==
  /\ schedule \in Schedules /\ now \in Nat
  /\ {housekeepingTime, housekeepingTimeLimit, housekeepingId} \subseteq Nat
  /\ missed \subseteq Nat /\ published \subseteq Nat /\ awake \subseteq Nat

\* _initialize_housekeeping_schedule(): of the next day, if the time of today is over.
Init ==
  /\ schedule \in Schedules /\ now \in {t \in 0..(Day - 1) : t % 2 = 1}
  /\ housekeepingTime = IF now > At(0) THEN At(1) ELSE At(0)
  /\ housekeepingTimeLimit = housekeepingTime + Window
  /\ housekeepingId = DayOf(now)
  /\ missed = {} /\ published = {} /\ awake = {now}

\* The rest of a tick that found the time over.
NextDay ==
  /\ housekeepingTime' = housekeepingTime + Day
  /\ housekeepingTimeLimit' = housekeepingTimeLimit + Day
  /\ housekeepingId' = DayOf(housekeepingTime')

Publish(time) ==
  /\ housekeepingTime < time /\ time < housekeepingTimeLimit /\ housekeepingId <= DayOf(time)
  /\ published' = published \cup {time}
  /\ NextDay /\ UNCHANGED missed

Miss(time) ==
  /\ housekeepingTime < time /\ ~(time < housekeepingTimeLimit /\ housekeepingId <= DayOf(time))
  /\ missed' = missed \cup {DayOf(time)}
  /\ NextDay /\ UNCHANGED published

TooEarly(time) ==
  /\ housekeepingTime >= time
  /\ UNCHANGED <<housekeepingTime, housekeepingTimeLimit, housekeepingId, missed, published>>

\* _on_housekeeping_tick(), after the loop slept for some ticks.
OnTick(slept) ==
  /\ now + 2 * (slept + 1) < MaxDays * Day
  /\ now' = now + 2 * (slept + 1)
  /\ awake' = awake \cup {now'}
  /\ Publish(now') \/ Miss(now') \/ TooEarly(now')
  /\ UNCHANGED schedule

Next == \E slept \in 0..(MaxDays * Day) : OnTick(slept)
-----------------------------------------------------------------------------
(* Property.                                                               *)

InWindow(day) == {t \in 0..now : At(day) < t /\ t < At(day) + Window /\ t % 2 = 1}

\* When the schedule was made, and the ticks of the day before the time of a day.
First == CHOOSE t \in awake : \A u \in awake : t <= u
DayBefore(day) == {t \in First..At(day) : t + Day > At(day) /\ t % 2 = 1}

\* The ticks publish housekeeping once in the window of a day and never outside; and they do so
\* if the loop was awake for the whole window and for the day before, in which it takes, tick by
\* tick, the turns of the days that it slept through (application.py:794-826).
OncePerDay ==
  /\ \A t \in published : \E d \in 0..MaxDays : t \in InWindow(d)
  /\ \A d \in 0..MaxDays :
       /\ Cardinality(published \cap InWindow(d)) <= 1
       /\ (/\ First < At(d) /\ now > At(d) + Window /\ InWindow(d) # {}
           /\ InWindow(d) \cup DayBefore(d) \subseteq awake)
            => published \cap InWindow(d) # {}
=============================================================================
