----------------------------- MODULE LogStream -----------------------------
(***************************************************************************)
(* WebApiLoggingHandler (src/asab/api/log.py): a handler of logging that   *)
(* keeps the last records in Buffer and streams records to web sockets: to *)
(* each new one what is in the buffer, and then, with a task of its own,   *)
(* every record to all of WebSockets.                                      *)
(*                                                                         *)
(* Everything but emit() is on the main loop and awaits each message it    *)
(* sends: the buffer is walked while records push others out of it, and    *)
(* WebSockets while streams join and leave.  emit() may be called from any *)
(* thread.  Records are numbered as they are logged.                       *)
(***************************************************************************)
EXTENDS Naturals, Sequences, FiniteSets

CONSTANTS
  Stream,       \* requests for the stream of records; each comes once
  Room,         \* how many records Buffer takes: one more than buffer_size (line 79)
  MaxStreamed   \* bound: records

VARIABLES
  buffer,       \* Buffer
  streamed,     \* how many records were logged
  webSockets,   \* WebSockets
  stream,       \* each request: where it is, its place in Buffer, what it has got
  senders,      \* the tasks _send_ws()
  unsent,       \* history: records whose _send_ws() has raised, or was not made
  closing       \* those that _on_stop() has still to close

streamVars == <<buffer, streamed, webSockets, stream, senders, unsent, closing>>

\* A request that has nothing to get, before it comes and after it has ended.  since: the first
\* record that it is to get; overtaken: how many records were pushed out of Buffer while it read
\* it, or logged by a thread just before it joined WebSockets.
Blank(at) == [at |-> at, next |-> 1, got |-> {}, since |-> 0, overtaken |-> 0]

Init ==
  /\ buffer = <<>>
  /\ streamed = 0
  /\ webSockets = {}
  /\ stream = [s \in Stream |-> Blank("new")]
  /\ senders = {}
  /\ unsent = {}
  /\ closing = {}

-----------------------------------------------------------------------------
\* Between the end of its walk and WebSockets.add() a request does not await: only another
\* thread comes between.
LoopIsFree == \A s \in Stream : stream[s].at # "joining"

Closed(s) == stream' = [stream EXCEPT ![s] = Blank("closed")]

\* emit(): the record is kept, the oldest one is dropped from a full buffer, and a task is
\* made if somebody listens; in a thread without an event loop ensure_future() raises instead,
\* out of the call that logs.
Emit(onLoop) ==
  LET record == streamed + 1
      full == Len(buffer) = Room
  IN
  /\ streamed < MaxStreamed
  /\ onLoop => LoopIsFree
  /\ streamed' = record
  /\ buffer' = Append(IF full THEN Tail(buffer) ELSE buffer, record)
  /\ stream' = [s \in Stream |->
       IF stream[s].at = "joining" \/ (full /\ stream[s].at = "history")
         THEN [stream[s] EXCEPT !.overtaken = @ + 1] ELSE stream[s]]
  /\ \/ webSockets = {} /\ UNCHANGED <<senders, unsent>>
     \/ /\ webSockets # {} /\ onLoop
        /\ senders' = senders \cup {[record |-> record, of |-> {}, visited |-> {}]}
        /\ UNCHANGED unsent
     \/ webSockets # {} /\ ~onLoop /\ unsent' = unsent \cup {record} /\ UNCHANGED senders
  /\ UNCHANGED <<webSockets, closing>>

\* ws(): the socket is prepared and greeted.
Connect(s) ==
  /\ stream[s].at = "new"
  /\ LoopIsFree
  /\ stream' = [stream EXCEPT ![s].at = "history",
                              ![s].since = IF buffer = <<>> THEN streamed + 1 ELSE Head(buffer)]
  /\ UNCHANGED <<buffer, streamed, webSockets, senders, unsent, closing>>

\* ... the record at its place in the buffer, as the buffer is now, is sent;
SendHistory(s) ==
  /\ stream[s].at = "history"
  /\ LoopIsFree
  /\ stream[s].next <= Len(buffer)
  /\ stream' = [stream EXCEPT ![s].got = @ \cup {buffer[stream[s].next]}, ![s].next = @ + 1]
  /\ UNCHANGED <<buffer, streamed, webSockets, senders, unsent, closing>>

\* ... or the peer is gone, and the call raises;
HistoryBreaks(s) ==
  /\ stream[s].at = "history"
  /\ LoopIsFree
  /\ stream' = [stream EXCEPT ![s] = Blank("ended")]
  /\ UNCHANGED <<buffer, streamed, webSockets, senders, unsent, closing>>

\* ... the walk has come to the end of the buffer,
HistoryEnds(s) ==
  /\ stream[s].at = "history"
  /\ LoopIsFree
  /\ stream[s].next > Len(buffer)
  /\ stream' = [stream EXCEPT ![s].at = "joining", ![s].next = 1]
  /\ UNCHANGED <<buffer, streamed, webSockets, senders, unsent, closing>>

\* ... and the socket is added to the others.
Join(s) ==
  /\ stream[s].at = "joining"
  /\ webSockets' = webSockets \cup {s}
  /\ stream' = [stream EXCEPT ![s].at = "live"]
  /\ UNCHANGED <<buffer, streamed, senders, unsent, closing>>

\* The peer closes the socket, or it breaks.
PeerCloses(s) ==
  /\ stream[s].at = "live"
  /\ Closed(s)
  /\ UNCHANGED <<buffer, streamed, webSockets, senders, unsent, closing>>

\* ws() notices: the socket is removed.
Leave(s) ==
  /\ stream[s].at = "closed"
  /\ LoopIsFree
  /\ webSockets' = webSockets \ {s}
  /\ stream' = [stream EXCEPT ![s] = Blank("ended")]
  /\ UNCHANGED <<buffer, streamed, senders, unsent, closing>>

-----------------------------------------------------------------------------
Begun(d) == d.of # {}

\* Whom a task has still to send to.
Remaining(d) == (d.of \cap webSockets) \ d.visited

\* _send_ws(): tasks begin in the order in which they were made.
SendBegins(d) ==
  /\ ~Begun(d)
  /\ \A e \in senders : ~Begun(e) => e.record >= d.record
  /\ senders' = (senders \ {d}) \cup
                (IF webSockets = {} THEN {} ELSE {[d EXCEPT !.of = webSockets]})
  /\ UNCHANGED <<buffer, streamed, webSockets, stream, unsent, closing>>

\* The record is sent to one socket after the other; what is sent to a closed one may vanish.
SendTo(d, s) ==
  /\ Begun(d)
  /\ s \in Remaining(d)
  /\ Cardinality(webSockets) = Cardinality(d.of)
  /\ senders' = (senders \ {d}) \cup {[d EXCEPT !.visited = @ \cup {s}]}
  /\ stream' = IF stream[s].at = "live" THEN [stream EXCEPT ![s].got = @ \cup {d.record}] ELSE stream
  /\ UNCHANGED <<buffer, streamed, webSockets, unsent, closing>>

\* The walk raises when the size of WebSockets has changed, and a call when its socket is
\* closed; nobody sends the record to the others.
SendRaises(d) ==
  /\ Begun(d)
  /\ Remaining(d) # {}
  /\ \/ Cardinality(webSockets) # Cardinality(d.of)
     \/ \E s \in d.of : stream[s].at \in {"closed", "ended"}
  /\ senders' = senders \ {d}
  /\ unsent' = unsent \cup {d.record}
  /\ UNCHANGED <<buffer, streamed, webSockets, stream, closing>>

SendEnds(d) ==
  /\ Begun(d)
  /\ Remaining(d) = {}
  /\ senders' = senders \ {d}
  /\ UNCHANGED <<buffer, streamed, webSockets, stream, unsent, closing>>

SendStep(d) == SendBegins(d) \/ SendRaises(d) \/ SendEnds(d) \/ \E s \in Stream : SendTo(d, s)

-----------------------------------------------------------------------------
\* Application.stop!: the sockets of that moment are to be closed,
OnStop ==
  /\ LoopIsFree
  /\ closing = {}
  /\ webSockets # {}
  /\ closing' = webSockets
  /\ UNCHANGED <<buffer, streamed, webSockets, stream, senders, unsent>>

\* ... one after the other; one that is closed already may raise, and the others stay.
CloseNext(s) ==
  /\ s \in closing
  /\ LoopIsFree
  /\ \/ closing' = closing \ {s}
     \/ stream[s].at \in {"closed", "ended"} /\ closing' = {}
  /\ IF stream[s].at = "live" THEN Closed(s) ELSE UNCHANGED stream
  /\ UNCHANGED <<buffer, streamed, webSockets, senders, unsent>>

Next ==
  \/ \E onLoop \in BOOLEAN : Emit(onLoop)
  \/ \E s \in Stream :
       \/ Connect(s) \/ SendHistory(s) \/ HistoryBreaks(s) \/ HistoryEnds(s) \/ Join(s)
       \/ PeerCloses(s) \/ Leave(s) \/ CloseNext(s)
  \/ LoopIsFree /\ \E d \in senders : SendStep(d)
  \/ OnStop

-----------------------------------------------------------------------------
(* Properties.                                                             *)

\* Buffer has the last records in their order.  With no task under way, a stream has got
\* everything from the oldest record that was kept when it came, however it, other streams and
\* records overtook each other: it misses at most as many as were pushed out of the buffer while
\* it read it, and those whose task has failed (api/log.py:45-87, 180-209).
RecordsStreamed ==
  /\ buffer = [i \in 1..Len(buffer) |-> streamed - Len(buffer) + i]
  /\ Len(buffer) <= Room
  /\ webSockets = {s \in Stream : stream[s].at \in {"live", "closed"}}
  /\ senders = {} =>
       \A s \in Stream : stream[s].at = "live" =>
         Cardinality(((stream[s].since)..streamed) \ (stream[s].got \cup unsent))
           <= stream[s].overtaken
=============================================================================
