--------------------------- MODULE SyslogHandler ---------------------------
(***************************************************************************)
(* AsyncIOHandler (src/asab/log.py:476-572), the handler that sends log    *)
(* records to syslog: a record is sent at once when the socket is ready,   *)
(* and is queued before that, for _on_write(), which the loop calls once.  *)
(*                                                                         *)
(* Records are numbered as they are logged.  The lock that logging takes   *)
(* around emit() lets one thread in at a time; _on_write() is on the main  *)
(* loop and does not take it.                                              *)
(***************************************************************************)
EXTENDS Naturals, Sequences, Functions

CONSTANTS
  Thread,        \* threads that log
  Main,          \* the one of the loop
  MaxRecords,    \* bound: records
  MaxSendErrors  \* bound: calls of sendall() that fail

VARIABLES
  syslog,        \* the socket: "unconnected", "connected" (and waited for), "ready", or "failed"
  writeReady,    \* _write_ready
  queue,         \* _queue
  draining,      \* is the loop in _on_write()
  emitter,       \* who is in emit(): the thread, its record, and what it saw; <<>> for nobody
  logged,        \* how many records were logged
  sent,          \* the records that were sent, in that order
  printed,       \* those that were printed on stderr instead
  spoilt,        \* history: sending failed, or a thread was overtaken by _on_write()
  sendErrors

syslogVars == <<syslog, writeReady, queue, draining, emitter, logged, sent, printed, spoilt,
                sendErrors>>

Init ==
  /\ syslog = "unconnected"
  /\ writeReady = FALSE
  /\ queue = <<>>
  /\ draining = FALSE
  /\ emitter = <<>>
  /\ logged = 0
  /\ sent = <<>>
  /\ printed = {}
  /\ spoilt = FALSE
  /\ sendErrors = 0

-----------------------------------------------------------------------------
\* The main thread is in the middle of emit().
MainEmits == emitter # <<>> /\ Head(emitter).thread = Main

\* sendall(): the record goes out, or an exception is raised.
Sent(r) == sent' = Append(sent, r) /\ UNCHANGED <<spoilt, sendErrors>>
SendFails == sendErrors < MaxSendErrors /\ sendErrors' = sendErrors + 1 /\ spoilt' = TRUE /\ UNCHANGED sent

\* _connect() is called once; when it fails nobody calls it again.
Connect ==
  /\ syslog = "unconnected"
  /\ ~MainEmits
  /\ syslog' \in {"connected", "failed"}
  /\ spoilt' = (spoilt \/ syslog' = "failed")
  /\ UNCHANGED <<writeReady, queue, draining, emitter, logged, sent, printed, sendErrors>>

\* The socket can be written to: _on_write() is called and takes itself off the loop.
OnWrite ==
  /\ syslog = "connected"
  /\ ~MainEmits
  /\ syslog' = "ready"
  /\ writeReady' = TRUE
  /\ draining' = TRUE
  /\ UNCHANGED <<queue, emitter, logged, sent, printed, spoilt, sendErrors>>

\* One record of the queue after the other; one that cannot be sent is printed.
Drain ==
  /\ draining
  /\ queue # <<>>
  /\ queue' = Tail(queue)
  /\ \/ Sent(Head(queue)) /\ UNCHANGED printed
     \/ SendFails /\ printed' = printed \cup {Head(queue)}
  /\ UNCHANGED <<syslog, writeReady, draining, emitter, logged>>

\* The queue is empty.
Drained ==
  /\ draining
  /\ queue = <<>>
  /\ draining' = FALSE
  /\ UNCHANGED <<syslog, writeReady, queue, emitter, logged, sent, printed, spoilt, sendErrors>>

\* emit(): the record is formatted, and _write_ready is looked at.
EmitBegin(t) ==
  /\ emitter = <<>>
  /\ t = Main => ~draining
  /\ logged < MaxRecords
  /\ logged' = logged + 1
  /\ emitter' = <<[thread |-> t, record |-> logged', ready |-> writeReady]>>
  /\ UNCHANGED <<syslog, writeReady, queue, draining, sent, printed, spoilt, sendErrors>>

\* ... and the record is sent or queued.  A record that is queued, because sending failed or
\* because the socket became ready meanwhile, stays in the queue.
EmitEnd ==
  /\ emitter # <<>>
  /\ emitter' = <<>>
  /\ LET e == Head(emitter) IN
     IF e.ready
       THEN \/ /\ sent' = Append(sent, e.record)
               /\ spoilt' = (spoilt \/ draining)
               /\ UNCHANGED <<queue, sendErrors>>
            \/ SendFails /\ queue' = Append(queue, e.record)
       ELSE /\ queue' = Append(queue, e.record)
            /\ spoilt' = (spoilt \/ (writeReady /\ ~draining))
            /\ UNCHANGED <<sent, sendErrors>>
  /\ UNCHANGED <<syslog, writeReady, draining, logged, printed>>

LoopStep == Connect \/ OnWrite \/ Drain \/ Drained \/ EmitEnd
Next == LoopStep \/ \E t \in Thread : EmitBegin(t)

-----------------------------------------------------------------------------
(* Properties.                                                             *)

\* No record vanishes and none is sent twice: it is with its thread, in the queue, sent, or
\* printed (log.py:521-537, 548-572).
RecordsKept ==
  LET all == Range(queue) \cup Range(sent) \cup printed \cup {emitter[i].record : i \in DOMAIN emitter}
  IN all = 1..logged /\ Len(queue) + Len(sent) <= logged

\* Records are sent in the order in which they were logged, until sending fails or another
\* thread logs while _on_write() sends what was queued.
SentInOrder ==
  spoilt \/ \A i, j \in DOMAIN sent : i < j => sent[i] < sent[j]

\* Every record is sent in the end, unless the socket failed or a thread was overtaken: a
\* record that is queued while the socket is ready waits forever.
AllSent == <>[](spoilt \/ (queue = <<>> /\ emitter = <<>>))
=============================================================================
