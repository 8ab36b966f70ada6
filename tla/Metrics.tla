------------------------------ MODULE Metrics ------------------------------
(***************************************************************************)
(* MetricsService with its storage and the classes of metrics              *)
(* (src/asab/metrics/service.py, storage.py and metrics.py).               *)
(*                                                                         *)
(* An application creates metrics and updates them; a flush, on a tick or  *)
(* on demand, turns what was counted ("actuals") into what the targets are *)
(* sent ("values").  What a flush makes is compared with a definition over *)
(* the history of updates.                                                 *)
(*                                                                         *)
(* A metric owns its entry of the storage (Metric.Storage), so the storage *)
(* is a set of owners; a name and its tags are one key.  init_values are   *)
(* left out; the aggregator is max.                                        *)
(***************************************************************************)
EXTENDS Integers, Sequences, FiniteSets, FiniteSetsExt

CONSTANTS
  MaxMetrics,   \* bound: metrics created in the course of a behaviour, numbered
  Key,          \* names with static tags
  Kind,         \* the classes among "gauge", "counter", "eps", "aggregation",
                \* "histogram", "duty", and those with dynamic tags: "dynCounter",
                \* "dynAggregation", "dynHistogram"
  Name,         \* names of values
  DynTags,      \* dynamic tags; the others have NoTags
  NoTags,
  Expiration,   \* [asab:metrics] expiration
  MaxTime,      \* bound: time
  MaxUpdates    \* bound: updates

Value == {1, 2}          \* what is counted; to a duty cycle 2 means on
Bound == {1, 2}          \* the buckets of a histogram: up to 1, and up to infinity
Dynamic == {"dynCounter", "dynAggregation", "dynHistogram"}
NoReset == {"gauge", "duty"}

Metric == 1..MaxMetrics

VARIABLES
  now,          \* App.time()
  listed,       \* Storage.Metrics, by owner
  metrics,      \* Metrics
  made,         \* the metrics ever made, with their fields by tags
  class,        \* the class of all of them: metrics of two classes do not meet
  updates,      \* history: the updates, numbered
  flushes       \* history: when metrics were flushed

metricVars == <<now, listed, metrics, made, class, updates, flushes>>

\* d[k] = v of a dictionary, and one without entries.
Put(d, k, v) == [x \in DOMAIN d \cup {k} |-> IF x = k THEN v ELSE d[x]]
NoEntry == [x \in {} |-> 0]

Init ==
  /\ now = 0
  /\ listed = {}
  /\ metrics = {}
  /\ made = NoEntry
  /\ class \in Kind
  /\ updates = {}
  /\ flushes = {}

-----------------------------------------------------------------------------
(* Fields.                                                                 *)

Like(kind) ==
  CASE kind \in {"counter", "eps", "dynCounter"}         -> "sum"
    [] kind \in {"aggregation", "dynAggregation"}        -> "max"
    [] kind \in {"histogram", "dynHistogram"}            -> "histogram"
    [] OTHER                                             -> kind

Zero(kind) ==
  CASE Like(kind) = "histogram" -> [buckets |-> [b \in Bound |-> NoEntry], sum |-> 0, count |-> 0]
    [] Like(kind) = "duty"      -> <<>>
    [] OTHER                    -> NoEntry

Field(kind) ==
  [actuals |-> Zero(kind), expires |-> now + Expiration,
   values |-> IF Like(kind) = "duty" THEN NoEntry ELSE Zero(kind)]

\* Counter.add(): d[n] += v, or d[n] = v where that raises KeyError.
Added(d, n, v) == Put(d, n, IF n \in DOMAIN d THEN d[n] + v ELSE v)

\* Counter.sub(), likewise.
Subtracted(d, n, v) == Put(d, n, IF n \in DOMAIN d THEN d[n] - v ELSE 0 - v)

\* AggregationCounter.set() with the aggregator max.
Maximum(d, n, v) == Put(d, n, IF n \in DOMAIN d /\ d[n] > v THEN d[n] ELSE v)

\* Mutant of Observed: only the first bucket that is large enough counts the value.
ObservedOnce(h, n, v) ==
  [buckets |-> [b \in Bound |-> IF b = v THEN Added(h.buckets[b], n, 1) ELSE h.buckets[b]],
   sum |-> h.sum + v, count |-> h.count + 1]

\* Histogram.set(): every bucket that is large enough.
Observed(h, n, v) ==
  [buckets |-> [b \in Bound |-> IF v <= b THEN Added(h.buckets[b], n, 1) ELSE h.buckets[b]],
   sum |-> h.sum + v, count |-> h.count + 1]

\* DutyCycle.set(): of each name, in the order of the dictionary, whether it is on and
\* since when, and how long it was off and on before.
Cycle(n, on) == [name |-> n, on |-> on, since |-> now, off |-> 0, up |-> 0]
Switch(c, on) ==
  [name |-> c.name, on |-> on, since |-> now,
   off |-> IF on THEN c.off + (now - c.since) ELSE c.off,
   up |-> IF on THEN c.up ELSE c.up + (now - c.since)]
Switched(cycles, n, on) ==
  IF \A i \in DOMAIN cycles : cycles[i].name # n
    THEN Append(cycles, Cycle(n, on))
    ELSE [i \in DOMAIN cycles |-> IF cycles[i].name # n \/ cycles[i].on = on
                                   THEN cycles[i] ELSE Switch(cycles[i], on)]

\* What a counter is told to subtract is negative here; the other classes have no sub().
Amounts(kind) == Value \cup (IF Like(kind) = "sum" THEN {-1} ELSE {})

\* What is counted; a gauge has values alone.
Counted(kind, a, n, v) ==
  CASE Like(kind) = "sum"       -> IF v > 0 THEN Added(a, n, v) ELSE Subtracted(a, n, 0 - v)
    [] Like(kind) = "max"       -> Maximum(a, n, v)
    [] Like(kind) = "histogram" -> Observed(a, n, v)
    [] Like(kind) = "duty"      -> Switched(a, n, v = 2)
    [] OTHER                    -> a

Updated(kind, f, n, v) ==
  [actuals |-> Counted(kind, f.actuals, n, v), expires |-> now + Expiration,
   values |-> IF kind = "gauge" THEN Put(f.values, n, v) ELSE f.values]

\* DutyCycle.flush(): the code behind its inner loop sees the last name only; of a duty
\* cycle that was never set it raises, which the service logs.
FlushedDuty(f, t) ==
  IF f.actuals = <<>> THEN f
  ELSE LET c == f.actuals[Len(f.actuals)]
           d == t - c.since
           up == c.up + (IF c.on THEN d ELSE 0)
           full == c.up + c.off + d
       IN [actuals |-> [f.actuals EXCEPT ![Len(f.actuals)] =
                          [name |-> c.name, on |-> c.on, since |-> t, off |-> 0, up |-> 0]],
           expires |-> f.expires,
           values |-> IF full > 0 THEN Put(f.values, c.name, <<up, full>>) ELSE f.values]

\* int(v / d) drops the fraction, whatever the sign.
Quotient(v, d) == IF v < 0 THEN 0 - ((0 - v) \div d) ELSE v \div d

FlushedField(m, f, t) ==
  CASE class = "gauge" -> f
    [] class = "duty"  -> FlushedDuty(f, t)
    [] OTHER ->
         [actuals |-> IF m.reset THEN Zero(class) ELSE f.actuals, expires |-> f.expires,
          values |-> IF class = "eps"
                       THEN [n \in DOMAIN f.actuals |-> Quotient(f.actuals[n], t - m.lastTime)]
                       ELSE f.actuals]

\* Of dynamic tags, the fields that nobody has updated for a while go first.
Kept(m, t) == {g \in DOMAIN m.fields : class \in Dynamic => ~(m.fields[g].expires < t)}

Flushed(m, t) ==
  [m EXCEPT !.fields = [g \in Kept(m, t) |-> FlushedField(m, m.fields[g], t)],
            !.lastTime = IF class = "eps" /\ m.reset THEN t ELSE m.lastTime]

-----------------------------------------------------------------------------
(* Operations.                                                             *)

\* An entry with the same name and tags is replaced, whoever owns it.
Create(m, key, reset) ==
  /\ DOMAIN made = 1..(m - 1)
  /\ class \in NoReset => ~reset
  /\ made' = Put(made, m, [key |-> key, reset |-> reset, created |-> now, lastTime |-> now,
                           fields |-> IF class \in Dynamic THEN NoEntry
                                      ELSE Put(NoEntry, NoTags, Field(class))])
  /\ listed' = {l \in listed : made[l].key # key} \cup {m}
  /\ metrics' = metrics \cup {m}
  /\ UNCHANGED <<now, class, updates, flushes>>

\* del_metric() removes the entry with the name and tags of m, whoever owns it.
Delete(m) ==
  /\ m \in metrics
  /\ listed' = {l \in listed : made[l].key # made[m].key}
  /\ metrics' = metrics \ {m}
  /\ UNCHANGED <<now, made, class, updates, flushes>>

Clear ==
  /\ metrics # {}
  /\ listed' = {}
  /\ metrics' = {}
  /\ UNCHANGED <<now, made, class, updates, flushes>>

\* add(), set(); those of dynamic tags find their field or make it.
Located(m, tags) ==
  IF tags \in DOMAIN made[m].fields THEN made[m].fields[tags] ELSE Field(class)

Update(m, n, v, tags) ==
  /\ m \in DOMAIN made
  /\ Cardinality(updates) < MaxUpdates
  /\ tags \in IF class \in Dynamic THEN DynTags ELSE {NoTags}
  /\ made' = [made EXCEPT ![m].fields =
                Put(made[m].fields, tags, Updated(class, Located(m, tags), n, v))]
  /\ updates' = updates \cup {[no |-> Cardinality(updates) + 1, m |-> m, n |-> n, v |-> v,
                               tags |-> tags, at |-> now]}
  /\ UNCHANGED <<now, listed, metrics, class, flushes>>

Pass ==
  /\ now < MaxTime
  /\ now' = now + 1
  /\ UNCHANGED <<listed, metrics, made, class, updates, flushes>>

\* _on_flushing_event(): on the tick, by flush() or by finalize().  The clock is never the
\* same twice.
Flush ==
  /\ now < MaxTime
  /\ now' = now + 1
  /\ metrics # {}
  /\ made' = [m \in DOMAIN made |-> IF m \in metrics THEN Flushed(made[m], now') ELSE made[m]]
  /\ flushes' = flushes \cup {now'}
  /\ UNCHANGED <<listed, metrics, class, updates>>

Next ==
  \/ \E m \in Metric :
       \/ \E key \in Key, reset \in BOOLEAN : Create(m, key, reset)
       \/ \E n \in Name, v \in Amounts(class), tags \in DynTags \cup {NoTags} : Update(m, n, v, tags)
       \/ Delete(m)
  \/ Clear \/ Pass \/ Flush

-----------------------------------------------------------------------------
(* What a flush is to make of the updates of an interval.  A flush is      *)
(* about the updates before its time, the next one about the others.       *)

LastFlush == Max(flushes \cup {0})
FlushBefore == Max((flushes \ {LastFlush}) \cup {0})

UpdatesOf(m) == {u \in updates : u.m = m}
Of(m, tags) == {u \in UpdatesOf(m) : u.tags = tags}

\* The flush that found the tags expired last: since then everything is counted anew.
Forgotten(m, tags) ==
  Max({0} \cup {e \in flushes : class \in Dynamic /\
                   \A u \in Of(m, tags) : u.at < e => u.at + Expiration < e})

\* The updates that the last flush is about.
Covered(m, tags) ==
  LET from == Max({IF made[m].reset THEN FlushBefore ELSE 0, Forgotten(m, tags)})
  IN {u \in Of(m, tags) : from <= u.at /\ u.at < LastFlush}

\* What updates amount to.
Named(U, n) == {u \in U : u.n = n}
Names(U) == {u.n : u \in U}
Times(U, v) == Cardinality({u \in U : u.v = v})
Total(U) == Times(U, 1) + 2 * Times(U, 2) - Times(U, -1)
Tally(kind, U) ==
  CASE Like(kind) = "sum" -> [n \in Names(U) |-> Total(Named(U, n))]
    [] Like(kind) = "max" -> [n \in Names(U) |-> Max({u.v : u \in Named(U, n)})]
    [] Like(kind) = "histogram" ->
         [buckets |-> [b \in Bound |->
                         LET V == {u \in U : u.v <= b}
                         IN [n \in Names(V) |-> Cardinality(Named(V, n))]],
          sum |-> Total(U), count |-> Cardinality(U)]

Interval(m) == LastFlush - Max({made[m].created, IF made[m].reset THEN FlushBefore ELSE 0})

RightValues(m, tags) ==
  LET right == Tally(class, Covered(m, tags))
  IN IF class = "eps" THEN [n \in DOMAIN right |-> Quotient(right[n], Interval(m))] ELSE right

\* Whether updates of a duty cycle have it on at t.
On(U, t) ==
  \E u \in U : u.at <= t /\ u.v = 2 /\ \A w \in U : w.at <= t => w.no <= u.no

\* The time that n was on between two flushes, and the time that this is known of.
DutyOf(m, n) ==
  LET U == {u \in UpdatesOf(m) : u.n = n /\ u.at < LastFlush}
      from == Max({FlushBefore, Min({u.at : u \in U})})
  IN <<Cardinality({t \in from..(LastFlush - 1) : On(U, t)}), LastFlush - from>>
-----------------------------------------------------------------------------
(* Properties.                                                             *)

\* What is exported is flushed, and no series is exported twice (service.py:95-113,
\* 170-189, storage.py:16-64).
ListedOnce ==
  /\ listed \subseteq metrics
  /\ \A k, l \in listed : made[k].key = made[l].key => k = l

\* The values of a metric are those of its interval: nothing is counted twice, under other
\* tags, or in another interval (metrics.py:114-126, 143-165, 347-356).
ValuesAreRight(m) ==
  class \notin NoReset =>
    \A g \in DOMAIN made[m].fields : made[m].fields[g].values = RightValues(m, g)

\* Fields with dynamic tags are those with updates since the last flush or recent ones when
\* it came (metrics.py:477-493, 578-591).
FieldsAreRight(m) ==
  class \in Dynamic =>
    DOMAIN made[m].fields =
      {u.tags : u \in {w \in UpdatesOf(m) :
                         w.at < LastFlush => w.at + Expiration >= LastFlush}}

\* The time on and the time known of the last name of a duty cycle are those since the
\* flush before (metrics.py:205-264).
DutyIsRight(m) ==
  class = "duty" =>
    LET f == made[m].fields[NoTags] IN
    \A u \in UpdatesOf(m) :
      (u.at < LastFlush /\ u.n = f.actuals[Len(f.actuals)].name) =>
        f.values[u.n] = DutyOf(m, u.n)

ExportsAreRight ==
  \A m \in metrics : ValuesAreRight(m) /\ FieldsAreRight(m) /\ DutyIsRight(m)
=============================================================================
