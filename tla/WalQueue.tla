------------------------------ MODULE WalQueue ------------------------------
(***************************************************************************)
(* The write-ahead queue of cortex-sentinel-machine (EncryptedWALQueue),   *)
(* the client that drains it to NATS (TransportClient) and the bus it      *)
(* publishes on (NATSJetStreamBus).  One file, no lock: the main loop, the *)
(* gRPC workers and the NATS loop thread all append to it, read it and     *)
(* rewrite it.                                                             *)
(*                                                                         *)
(* A step of a thread is one file operation or one answer of the bus: the  *)
(* append; read_all with the change of the record read; the truncation by  *)
(* open("wb"); each part of the buffered write that reaches the file.      *)
(* A record is its identifier and its sent flag; the cipher, the payload   *)
(* and the topic are left out.  A line that does not decode is Torn.       *)
(***************************************************************************)
EXTENDS Sequences, Naturals

CONSTANTS Threads,      \* main loop, gRPC workers, NATS loop thread
          NatsLoop,     \* the set holding the NATS loop thread among them, or {}
          Records,      \* record identifiers (uuid4)
          BusEnabled,   \* SENTINEL_ENABLE_NATS_BUS
          KilledAnywhere \* the process may be killed in the middle of a rewrite

ASSUME WalAssumption ==
  NatsLoop \subseteq Threads /\ BusEnabled \in BOOLEAN /\ KilledAnywhere \in BOOLEAN

Torn == [id |-> "torn", sent |-> FALSE]
Line(id, sent) == [id |-> id, sent |-> sent]
Lines == [id : Records, sent : BOOLEAN]

ASSUME TornAssumption == Torn.id \notin Records

VARIABLES file,         \* the lines of the WAL
          thread,       \* thread[t]: [pc, work, snap, pos]
          link,         \* the NATS connection of the process
          emitted,      \* history: records whose append has returned
          taken,        \* history: records handed to an open connection
          wasClosed     \* history: the queue has seen its connection lost

vars == <<file, thread, link, emitted, taken, wasClosed>>

Idle == [pc |-> "idle", work |-> <<>>, snap |-> <<>>, pos |-> 0]
Links == {"up", "closed", "none"}

Init ==
  /\ file = <<>>
  /\ thread = [t \in Threads |-> Idle]
  /\ link \in IF BusEnabled THEN {"up", "none"} ELSE {"none"}
  /\ emitted = {}
  /\ taken = {}
  /\ wasClosed = FALSE

\* Mutant: the flag is read the wrong way round.
IsSent(line) == line.sent

IsPending(line) == ~line.sent
Ids(lines) == {lines[i].id : i \in DOMAIN lines}
Readable == \A i \in DOMAIN file : file[i] # Torn
Writing(t) == thread[t].pc = "write"

\* The loop of emit or flush_pending goes on with the next record, or ends.
Continue(t, work) ==
  thread' = [thread EXCEPT ![t] =
    IF work = <<>> THEN Idle
    ELSE [pc |-> "publish", work |-> work, snap |-> <<>>, pos |-> 0]]

\* emit(): append the record, then publish it if there is a bus.
Emit(t, id) ==
  /\ thread[t] = Idle
  /\ t \notin NatsLoop
  /\ id \notin emitted
  /\ file' = Append(file, Line(id, FALSE))
  /\ emitted' = emitted \cup {id}
  /\ Continue(t, IF link = "none" THEN <<>> ELSE <<id>>)
  /\ UNCHANGED <<link, taken, wasClosed>>

\* One reading of the pending records, by flush_pending(), or by
\* flush_pending_async() when the command flush_pending comes over the connection.
Flush(t) ==
  /\ thread[t] = Idle
  /\ link # "none"
  /\ t \in NatsLoop => link = "up"
  /\ Readable
  /\ LET pending == SelectSeq(file, IsPending)
     IN  Continue(t, [i \in DOMAIN pending |-> pending[i].id])
  /\ UNCHANGED <<file, link, emitted, taken, wasClosed>>

\* publish() or publish_async() returns True.
ReturnsTrue(t) ==
  /\ thread[t].pc = "publish"
  /\ thread' = [thread EXCEPT ![t].pc = "mark"]
  /\ UNCHANGED <<file, link, emitted, wasClosed>>

\* JetStream acknowledged the message; or its publish raised and the plain
\* nc.publish() took it, which only buffers, so that True says nothing of its arrival.
PublishReturnsTrue(t) ==
  /\ link = "up"
  /\ ReturnsTrue(t)
  /\ taken' = taken \cup {Head(thread[t].work)}

\* Both publishes raise on the closed connection and publish_async() returns False;
\* publish() does not look at what it returned.
PublishIgnored(t) ==
  /\ link = "closed"
  /\ t \notin NatsLoop
  /\ ReturnsTrue(t)
  /\ UNCHANGED taken

\* publish() returns False when the 1.2 s of _submit run out: the coroutine is
\* cancelled, and the message may have left all the same.  On the NATS loop
\* publish_async() returns False when the connection is closed.
PublishFails(t) ==
  /\ thread[t].pc = "publish"
  /\ t \in NatsLoop => link = "closed"
  /\ Continue(t, Tail(thread[t].work))
  /\ UNCHANGED <<file, link, emitted, taken, wasClosed>>

\* Mutant: mark_sent drops the record instead of setting its flag.
MarkReadDropping(t) ==
  /\ thread[t].pc = "mark"
  /\ Readable
  /\ thread' = [thread EXCEPT ![t].pc = "rewrite",
                  ![t].snap = SelectSeq(file, LAMBDA line : line.id # Head(thread[t].work))]
  /\ UNCHANGED <<file, link, emitted, taken, wasClosed>>

\* Mutant: mark_sent sets the flag of every record.
MarkReadAll(t) ==
  /\ thread[t].pc = "mark"
  /\ Readable
  /\ thread' = [thread EXCEPT ![t].pc = "rewrite",
                  ![t].snap = [i \in DOMAIN file |-> Line(file[i].id, TRUE)]]
  /\ UNCHANGED <<file, link, emitted, taken, wasClosed>>

\* mark_sent() up to _rewrite: read every record and set the flag of this one.
MarkRead(t) ==
  /\ thread[t].pc = "mark"
  /\ Readable
  /\ LET id == Head(thread[t].work)
     IN  IF id \in Ids(file)
         THEN thread' = [thread EXCEPT ![t].pc = "rewrite",
                ![t].snap = [i \in DOMAIN file |->
                               IF file[i].id = id THEN Line(id, TRUE) ELSE file[i]]]
         ELSE Continue(t, Tail(thread[t].work))
  /\ UNCHANGED <<file, link, emitted, taken, wasClosed>>

\* _rewrite: open("wb") truncates at once.
Truncate(t) ==
  /\ thread[t].pc = "rewrite"
  /\ file' = <<>>
  /\ thread' = [thread EXCEPT ![t].pc = "write", ![t].pos = 0]
  /\ UNCHANGED <<link, emitted, taken, wasClosed>>

\* _rewrite: the next line reaches the file at the offset of this handle, over
\* whatever another thread has put there since the truncation; what lies beyond
\* keeps its place and may be cut by it.
WriteLine(t) ==
  LET at == thread[t].pos + 1
      line == Head(thread[t].snap)
  IN  /\ Writing(t)
      /\ thread[t].snap # <<>>
      /\ \/ file' = [i \in 1..(IF at > Len(file) THEN at ELSE Len(file)) |->
                       IF i = at THEN line ELSE IF i <= Len(file) THEN file[i] ELSE Torn]
         \/ /\ at < Len(file)
            /\ file' = [file EXCEPT ![at] = line, ![at + 1] = Torn]
      /\ thread' = [thread EXCEPT ![t].pos = at, ![t].snap = Tail(@)]
      /\ UNCHANGED <<link, emitted, taken, wasClosed>>

\* _rewrite closes the file: mark_sent returns to the loop.
CloseFile(t) ==
  /\ Writing(t)
  /\ thread[t].snap = <<>>
  /\ Continue(t, Tail(thread[t].work))
  /\ UNCHANGED <<file, link, emitted, taken, wasClosed>>

\* read_all() meets a line that does not decode, or catches a rewrite between two
\* lines: the exception ends the operation of the thread.
ReadRaises(t) ==
  /\ thread[t].pc = "mark"
  /\ ~Readable \/ \E u \in Threads \ {t} : Writing(u)
  /\ thread' = [thread EXCEPT ![t] = Idle]
  /\ UNCHANGED <<file, link, emitted, taken, wasClosed>>

\* The connection is lost: allow_reconnect is False and nc is kept, so that no
\* later publish() tries to connect again.
LinkCloses ==
  /\ link = "up"
  /\ link' = "closed"
  /\ wasClosed' = TRUE
  /\ UNCHANGED <<file, thread, emitted, taken>>

\* The process is killed and starts again with the file as it was left; a line
\* that was half written is torn.
Restart ==
  /\ KilledAnywhere \/ \A t \in Threads : ~Writing(t)
  /\ \/ UNCHANGED file
     \/ /\ \E t \in Threads : Writing(t) /\ thread[t].snap # <<>>
        /\ file' = Append(file, Torn)
  /\ thread' = [t \in Threads |-> Idle]
  /\ link' \in IF BusEnabled THEN {"up", "none"} ELSE {"none"}
  /\ UNCHANGED <<emitted, taken, wasClosed>>

Step(t) ==
  \/ PublishReturnsTrue(t) \/ PublishIgnored(t) \/ PublishFails(t)
  \/ MarkRead(t) \/ Truncate(t) \/ WriteLine(t) \/ CloseFile(t) \/ ReadRaises(t)

Next ==
  \/ \E t \in Threads : (\E id \in Records : Emit(t, id)) \/ Flush(t) \/ Step(t)
  \/ LinkCloses \/ Restart

\* The scheduler runs every thread, the main loop flushes every two seconds, and a
\* publish tried again and again on an open connection returns True at last.
Fairness ==
  \A t \in Threads : /\ WF_vars(Flush(t)) /\ WF_vars(Step(t))
                     /\ SF_vars(PublishReturnsTrue(t))

Spec == Init /\ [][Next]_vars /\ Fairness

-----------------------------------------------------------------------------
TypeOK ==
  /\ file \in Seq(Lines \cup {Torn})
  /\ thread \in [Threads -> [pc : {"idle", "publish", "mark", "rewrite", "write"},
                             work : Seq(Records), snap : Seq(Lines), pos : Nat]]
  /\ \A t \in Threads :
       /\ thread[t].pc # "idle" => thread[t].work # <<>>
       /\ thread[t].pc = "idle" => thread[t] = Idle
  /\ link \in Links
  /\ emitted \subseteq Records
  /\ taken \subseteq Records
  /\ wasClosed \in BOOLEAN

\* The lines the WAL will hold once the rewrites under way are done.
Contents ==
  Ids(file) \cup UNION {Ids(thread[t].snap) : t \in {u \in Threads : Writing(u)}}

\* "records remain in the encrypted WAL": no record whose append returned is ever
\* missing from the queue, sent or not (append, mark_sent, _rewrite).
NothingLost == emitted \subseteq Contents

SentAmong(ids) ==
  /\ \A i \in DOMAIN file : file[i].sent => file[i].id \in ids
  /\ \A t \in Threads : \A i \in DOMAIN thread[t].snap :
       thread[t].snap[i].sent => thread[t].snap[i].id \in ids

\* "if NATS is down, records remain in the encrypted WAL until flush_pending
\* succeeds": a record marked sent, in the file or in a copy about to be written, was
\* taken by an open connection.  publish() breaks it by ignoring what publish_async()
\* returned on a closed one.
SentWasTaken == SentAmong(taken)

\* What is left of it: until the queue has seen a connection lost, interleaved rewrites,
\* timeouts and kills may lose or repeat a record, but mark none as sent that no open
\* connection took (publish, flush_pending, mark_sent, _rewrite).
SentWasTakenWhileUp == wasClosed \/ SentWasTaken

MarkedSent ==
  LET marked(lines) == {lines[i].id : i \in {j \in DOMAIN lines : lines[j].sent}}
  IN  marked(file) \cup UNION {marked(thread[t].snap) : t \in {u \in Threads : Writing(u)}}

\* With one thread the queue is a durable outbox: nothing emitted is missing from it.
Box == INSTANCE Outbox WITH accepted <- emitted, kept <- Contents, sent <- MarkedSent
ImplementsOutbox == Box!Spec

\* Once the process and its connection stay up, a record left in the queue by a
\* failed publish is published in the end: flush_pending, at the end of every
\* process_raw_event, finds it again.
PendingIsPublished ==
  [](link = "up") /\ <>[][~Restart]_vars => \A id \in Records : id \in emitted ~> id \in taken
=============================================================================
