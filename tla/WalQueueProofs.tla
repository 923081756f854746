--------------------------- MODULE WalQueueProofs ---------------------------
(***************************************************************************)
(* What holds of the write-ahead queue for any number of threads and       *)
(* records, with the process killed anywhere: interleaved rewrites lose    *)
(* and repeat records, but until a connection is lost mark none as sent    *)
(* that no connection took.  The invariant adds that a thread about to     *)
(* mark a record has published it.                                         *)
(* And what holds of one thread alone, killed between rewrites only: it    *)
(* implements the outbox, and nothing put in is ever lost.                 *)
(***************************************************************************)
EXTENDS WalQueue, SequenceTheorems, TLAPS

PCs == {"idle", "publish", "mark", "rewrite", "write"}

\* A thread's record; nothing here depends on what its work is.
IsThread(r) == r \in [pc : PCs, work : {r.work}, snap : Seq(Lines), pos : Nat]

SentIn(lines, lost, ids) ==
  \A i \in DOMAIN lines : lines[i].sent => lost \/ lines[i].id \in ids

Written == Lines \cup {Torn}

Inv ==
  /\ file \in Seq(Written)
  /\ thread = [t \in Threads |-> thread[t]]
  /\ \A t \in Threads :
       /\ IsThread(thread[t])
       /\ thread[t].pc = "mark" => wasClosed \/ Head(thread[t].work) \in taken
  /\ SentIn(file, wasClosed, taken)
  /\ \A t \in Threads : SentIn(thread[t].snap, wasClosed, taken)

-----------------------------------------------------------------------------
LEMMA IdleThread == IsThread(Idle) /\ (\A lost, ids : SentIn(Idle.snap, lost, ids)) /\ Idle.pc # "mark"
  BY DEF IsThread, Idle, PCs, SentIn

LEMMA InitInv == Init => Inv
PROOF
<1> SUFFICES ASSUME Init PROVE Inv
  OBVIOUS
<1>1. file \in Seq(Written) /\ SentIn(file, wasClosed, taken)
  BY DEF Init, SentIn
<1>2. \A t \in Threads : thread[t] = Idle
  BY DEF Init
<1>3. QED
  BY <1>1, <1>2, IdleThread DEF Init, Inv

\* A step of one thread, with what it must show of the file and of the new thread.
LEMMA OneThread ==
  ASSUME Inv, NEW t \in Threads, NEW r,
         thread' = [thread EXCEPT ![t] = r],
         IsThread(r), r.pc = "mark" => wasClosed' \/ Head(r.work) \in taken',
         SentIn(r.snap, wasClosed', taken'), file' \in Seq(Written), SentIn(file', wasClosed', taken'),
         (wasClosed => wasClosed') /\ taken \subseteq taken'
  PROVE  Inv'
PROOF
<1>1. \A u \in Threads : u # t => thread'[u] = thread[u]
  BY DEF Inv
<1>2. thread'[t] = r
  BY DEF Inv
<1>3. \A u \in Threads : SentIn(thread'[u].snap, wasClosed', taken')
  <2>1. TAKE u \in Threads
  <2>2. CASE u = t
    BY <1>2, <2>2 DEF SentIn
  <2>3. CASE u # t
    BY <1>1, <2>3 DEF SentIn, Inv
  <2>4. QED
    BY <2>2, <2>3
<1>4. \A u \in Threads : /\ IsThread(thread'[u])
                         /\ thread'[u].pc = "mark" => wasClosed' \/ Head(thread'[u].work) \in taken'
  BY <1>1, <1>2 DEF Inv
<1>5. thread' = [u \in Threads |-> thread'[u]]
  BY DEF Inv
<1>6. QED
  BY <1>3, <1>4, <1>5 DEF Inv, IsThread

\* The loop goes on with the rest of its work, or ends: nothing to be marked yet.
LEMMA ContinueInv ==
  ASSUME Inv, NEW t \in Threads, NEW work, Continue(t, work),
         file' \in Seq(Written), SentIn(file', wasClosed', taken'),
         (wasClosed => wasClosed') /\ taken \subseteq taken'
  PROVE  Inv'
PROOF
<1> DEFINE r == IF work = <<>> THEN Idle
                ELSE [pc |-> "publish", work |-> work, snap |-> <<>>, pos |-> 0]
<1>1. IsThread(r) /\ r.pc # "mark" /\ r.snap = <<>>
  BY DEF IsThread, Idle, PCs
<1>2. SentIn(r.snap, wasClosed', taken')
  BY <1>1 DEF SentIn
<1>3. thread' = [thread EXCEPT ![t] = r]
  BY DEF Continue
<1> HIDE DEF r
<1>4. QED
  BY <1>1, <1>2, <1>3, OneThread

-----------------------------------------------------------------------------
LEMMA EmitInv ==
  ASSUME Inv, NEW t \in Threads, NEW id \in Records, Emit(t, id)
  PROVE  Inv'
PROOF
<1>1. Line(id, FALSE) \in Lines
  BY DEF Line, Lines
<1>2. file' = Append(file, Line(id, FALSE)) /\ UNCHANGED <<taken, wasClosed>>
  BY DEF Emit
<1>3. file' \in Seq(Written)
  <2>1. Line(id, FALSE) \in Written /\ file \in Seq(Written)
    BY <1>1 DEF Written, Inv
  <2>2. QED
    BY <1>2, <2>1, AppendProperties
<1>4. SentIn(file', wasClosed', taken')
  BY <1>1, <1>2 DEF Inv, SentIn, Line
<1>5. \E work : Continue(t, work)
  BY DEF Emit
<1>6. (wasClosed => wasClosed') /\ taken \subseteq taken'
  BY <1>2
<1>7. QED
  BY <1>3, <1>4, <1>5, <1>6, ContinueInv

LEMMA FlushInv ==
  ASSUME Inv, NEW t \in Threads, Flush(t)
  PROVE  Inv'
PROOF
<1>1. UNCHANGED <<file, taken, wasClosed>> /\ \E work : Continue(t, work)
  BY DEF Flush
<1>2. QED
  BY <1>1, ContinueInv DEF Inv, SentIn

\* The publish returned True: the thread may go on to mark its record.
LEMMA PublishedInv ==
  ASSUME Inv, NEW t \in Threads,
         thread[t].pc = "publish",
         thread' = [thread EXCEPT ![t].pc = "mark"],
         taken \subseteq taken', wasClosed' = wasClosed,
         wasClosed \/ Head(thread[t].work) \in taken',
         UNCHANGED file
  PROVE  Inv'
PROOF
<1> DEFINE r == [thread[t] EXCEPT !.pc = "mark"]
<1>1. IsThread(r) /\ r.work = thread[t].work /\ r.snap = thread[t].snap
  BY DEF Inv, IsThread, PCs
<1>2. SentIn(r.snap, wasClosed', taken') /\ SentIn(file', wasClosed', taken')
  BY <1>1 DEF Inv, SentIn
<1>3. thread' = [thread EXCEPT ![t] = r]
  BY DEF Inv
<1>4. file' \in Seq(Written) /\ (wasClosed' \/ Head(r.work) \in taken')
  BY <1>1 DEF Inv
<1> HIDE DEF r
<1>5. QED
  BY <1>1, <1>2, <1>3, <1>4, OneThread

LEMMA PublishFailsInv ==
  ASSUME Inv, NEW t \in Threads, PublishFails(t)
  PROVE  Inv'
  BY ContinueInv DEF PublishFails, Inv, SentIn

\* mark_sent sets the flag of the record at the head of the work, and only of it.
LEMMA MarkReadInv ==
  ASSUME Inv, NEW t \in Threads, MarkRead(t)
  PROVE  Inv'
PROOF
<1> DEFINE id == Head(thread[t].work)
           snap == [i \in DOMAIN file |-> IF file[i].id = id THEN Line(id, TRUE) ELSE file[i]]
           r == [thread[t] EXCEPT !.pc = "rewrite", !.snap = snap]
<1>1. UNCHANGED <<file, taken, wasClosed>> /\ file \in Seq(Written) /\ SentIn(file', wasClosed', taken')
  BY DEF MarkRead, Inv, SentIn
<1>2. CASE id \in Ids(file)
  <2>1. thread' = [thread EXCEPT ![t] = r]
    BY <1>2 DEF MarkRead, Inv
  <2>2. \A i \in DOMAIN file : file[i] \in Lines
    <3>1. \A i \in DOMAIN file : file[i] \in Written /\ file[i] # Torn
      BY <1>1 DEF MarkRead, Readable
    <3>2. QED
      BY <3>1 DEF Written
  <2>3. \A i \in DOMAIN file : snap[i] \in Lines /\ (snap[i].sent => wasClosed \/ snap[i].id \in taken)
    <3>1. TAKE i \in DOMAIN file
    <3>2. CASE file[i].id = id
      <4>1. id \in Records /\ snap[i] = Line(id, TRUE)
        BY <2>2, <3>2 DEF Lines
      <4>2. wasClosed \/ id \in taken
        BY DEF MarkRead, Inv
      <4>3. QED
        BY <4>1, <4>2 DEF Line, Lines
    <3>3. CASE file[i].id # id
      BY <2>2, <3>3 DEF Inv, SentIn
    <3>4. QED
      BY <3>2, <3>3
  <2>4. snap \in Seq(Lines) /\ DOMAIN snap = DOMAIN file
    <3>1. Len(file) \in Nat /\ DOMAIN file = 1..Len(file)
      BY <1>1
    <3>2. snap \in [1..Len(file) -> Lines]
      BY <2>3, <3>1
    <3> HIDE DEF snap
    <3>3. QED
      BY <3>1, <3>2, SeqDef
  <2> HIDE DEF snap
  <2>5. IsThread(r) /\ r.pc # "mark" /\ r.snap = snap
    BY <2>4 DEF Inv, IsThread, PCs
  <2>6. SentIn(r.snap, wasClosed', taken')
    BY <1>1, <2>3, <2>4, <2>5 DEF SentIn
  <2> HIDE DEF r
  <2>7. QED
    BY <1>1, <2>1, <2>5, <2>6, OneThread
<1>3. CASE id \notin Ids(file)
  BY <1>1, <1>3, ContinueInv DEF MarkRead
<1>4. QED
  BY <1>2, <1>3

LEMMA TruncateInv ==
  ASSUME Inv, NEW t \in Threads, Truncate(t)
  PROVE  Inv'
PROOF
<1> DEFINE r == [thread[t] EXCEPT !.pc = "write", !.pos = 0]
<1>1. thread' = [thread EXCEPT ![t] = r] /\ file' = <<>> /\ UNCHANGED <<taken, wasClosed>>
  BY DEF Truncate, Inv
<1>2. IsThread(r) /\ r.pc # "mark" /\ r.snap = thread[t].snap
  BY DEF Inv, IsThread, PCs
<1>3. SentIn(r.snap, wasClosed', taken') /\ SentIn(file', wasClosed', taken') /\ file' \in Seq(Written)
  BY <1>1, <1>2 DEF Inv, SentIn
<1> HIDE DEF r
<1>4. QED
  BY <1>1, <1>2, <1>3, OneThread

\* One line of the copy reaches the file, over another line or after a gap.
LEMMA WriteLineInv ==
  ASSUME Inv, NEW t \in Threads, WriteLine(t)
  PROVE  Inv'
PROOF
<1> DEFINE at == thread[t].pos + 1
           line == Head(thread[t].snap)
           r == [thread[t] EXCEPT !.pos = at, !.snap = Tail(@)]
           n == IF at > Len(file) THEN at ELSE Len(file)
           over == [i \in 1..n |-> IF i = at THEN line ELSE IF i <= Len(file) THEN file[i] ELSE Torn]
           cut == [file EXCEPT ![at] = line, ![at + 1] = Torn]
<1>1. /\ thread' = [thread EXCEPT ![t] = r]
      /\ \/ file' = over
         \/ file' = cut
      /\ UNCHANGED <<taken, wasClosed>>
  <2>1. file' = over \/ file' = cut
    BY DEF WriteLine
  <2>2. thread' = [thread EXCEPT ![t] = r]
    BY DEF WriteLine, Inv
  <2>3. QED
    BY <2>1, <2>2 DEF WriteLine
<1>2. /\ thread[t].snap \in Seq(Lines) /\ thread[t].snap # <<>>
      /\ thread[t].pos \in Nat /\ thread[t].pc = "write"
      /\ SentIn(thread[t].snap, wasClosed, taken)
  BY DEF WriteLine, Writing, Inv, IsThread
<1>3. line \in Written /\ (line.sent => wasClosed \/ line.id \in taken)
  <2>1. line = thread[t].snap[1] /\ 1 \in DOMAIN thread[t].snap
    BY <1>2
  <2>2. QED
    BY <1>2, <2>1 DEF SentIn, Written
<1>4. IsThread(r) /\ r.pc # "mark" /\ r.snap = Tail(thread[t].snap)
  <2>1. Tail(thread[t].snap) \in Seq(Lines) /\ at \in Nat
    BY <1>2
  <2>2. QED
    BY <1>2, <2>1 DEF Inv, IsThread, PCs
<1>5. SentIn(r.snap, wasClosed', taken')
  <2> DEFINE snap == thread[t].snap
  <2>1. \A i \in DOMAIN Tail(snap) : i + 1 \in DOMAIN snap /\ Tail(snap)[i] = snap[i + 1]
    BY <1>2
  <2>2. QED
    BY <1>1, <1>2, <1>4, <2>1 DEF SentIn
<1>6. /\ file \in Seq(Written) /\ Len(file) \in Nat /\ DOMAIN file = 1..Len(file)
      /\ SentIn(file, wasClosed, taken) /\ \A i \in DOMAIN file : file[i] \in Written
      /\ at \in Nat /\ n \in Nat
  BY <1>2 DEF Inv
<1>7. Torn \in Written /\ ~Torn.sent
  BY DEF Torn, Written
<1>8. over \in Seq(Written) /\ SentIn(over, wasClosed, taken)
  <2> HIDE DEF line, at, n
  <2>1. over \in [1..n -> Written]
    BY <1>3, <1>6, <1>7
  <2>2. \A i \in 1..n : over[i] = line \/ (i \in DOMAIN file /\ over[i] = file[i]) \/ over[i] = Torn
    BY <1>6
  <2>3. SentIn(over, wasClosed, taken)
    BY <1>3, <1>6, <1>7, <2>2 DEF SentIn
  <2> HIDE DEF over
  <2>4. QED
    BY <1>6, <2>1, <2>3, SeqDef
<1>9. cut \in Seq(Written) /\ SentIn(cut, wasClosed, taken)
  <2> HIDE DEF line, at
  <2>1. cut \in [1..Len(file) -> Written]
    BY <1>3, <1>6, <1>7
  <2>2. \A i \in 1..Len(file) : cut[i] = line \/ cut[i] = file[i] \/ cut[i] = Torn
    BY <1>6
  <2>3. SentIn(cut, wasClosed, taken)
    BY <1>3, <1>6, <1>7, <2>2 DEF SentIn
  <2> HIDE DEF cut
  <2>4. QED
    BY <1>6, <2>1, <2>3, SeqDef
<1>10. file' \in Seq(Written) /\ SentIn(file', wasClosed', taken')
  <2> HIDE DEF over, cut
  <2> QED BY <1>1, <1>8, <1>9
<1> HIDE DEF r
<1>11. QED
  BY <1>1, <1>4, <1>5, <1>10, OneThread

LEMMA CloseFileInv ==
  ASSUME Inv, NEW t \in Threads, CloseFile(t)
  PROVE  Inv'
PROOF
<1>1. UNCHANGED <<file, taken, wasClosed>>
  BY DEF CloseFile
<1>2. QED
  BY <1>1, ContinueInv DEF CloseFile, Inv

LEMMA ReadRaisesInv ==
  ASSUME Inv, NEW t \in Threads, ReadRaises(t)
  PROVE  Inv'
PROOF
<1>1. UNCHANGED <<file, taken, wasClosed>> /\ thread' = [thread EXCEPT ![t] = Idle]
  BY DEF ReadRaises
<1>2. QED
  BY <1>1, IdleThread, OneThread DEF Inv

LEMMA RestartInv ==
  ASSUME Inv, Restart
  PROVE  Inv'
PROOF
<1>1. /\ file' = file \/ file' = Append(file, Torn)
      /\ thread' = [t \in Threads |-> Idle] /\ UNCHANGED <<taken, wasClosed>>
  BY DEF Restart
<1>2. file \in Seq(Written) /\ Torn \in Written /\ ~Torn.sent
  BY DEF Inv, Written, Torn
<1>3. file' \in Seq(Written)
  BY <1>1, <1>2, AppendProperties
<1>4. SentIn(file', wasClosed', taken')
  <2> HIDE DEF Torn
  <2>1. CASE file' = file
    BY <1>1, <2>1 DEF Inv
  <2>2. CASE file' = Append(file, Torn)
    BY <1>1, <1>2, <2>2 DEF Inv, SentIn
  <2>3. QED
    BY <1>1, <2>1, <2>2
<1>5. \A t \in Threads : thread'[t] = Idle
  BY <1>1
<1>6. QED
  BY <1>1, <1>3, <1>4, <1>5, IdleThread DEF Inv

-----------------------------------------------------------------------------
\* A connection found closed has been seen to close.
LinkInv == link = "closed" => wasClosed

LEMMA LinkInvHolds == (Init => LinkInv) /\ (LinkInv /\ [Next]_vars => LinkInv')
PROOF
<1>1. Init => LinkInv
  BY DEF Init, LinkInv
<1>2. ASSUME LinkInv, [Next]_vars PROVE LinkInv'
  <2>1. CASE LinkCloses
    BY <2>1 DEF LinkCloses, LinkInv
  <2>2. CASE Restart
    BY <2>2 DEF Restart, LinkInv
  <2>3. ASSUME NEW t \in Threads, NEW id \in Records, Emit(t, id) PROVE LinkInv'
    BY <1>2, <2>3 DEF Emit, LinkInv
  <2>4. ASSUME NEW t \in Threads, Flush(t) PROVE LinkInv'
    BY <1>2, <2>4 DEF Flush, LinkInv
  <2>5. ASSUME NEW t \in Threads, Step(t) PROVE LinkInv'
    BY <1>2, <2>5 DEF Step, PublishReturnsTrue, PublishIgnored, ReturnsTrue, PublishFails,
       MarkRead, Truncate, WriteLine, CloseFile, ReadRaises, LinkInv
  <2>6. CASE UNCHANGED vars
    BY <1>2, <2>6 DEF vars, LinkInv
  <2>7. QED
    BY <1>2, <2>1, <2>2, <2>3, <2>4, <2>5, <2>6 DEF Next
<1>3. QED
  BY <1>1, <1>2

LEMMA NextInv == Inv /\ LinkInv /\ [Next]_vars => Inv'
PROOF
<1> SUFFICES ASSUME Inv, LinkInv, [Next]_vars PROVE Inv'
  OBVIOUS
<1>1. ASSUME NEW t \in Threads, PublishReturnsTrue(t) PROVE Inv'
  <2>1. /\ thread[t].pc = "publish" /\ thread' = [thread EXCEPT ![t].pc = "mark"]
        /\ taken' = taken \cup {Head(thread[t].work)} /\ UNCHANGED <<file, wasClosed>>
    BY <1>1 DEF PublishReturnsTrue, ReturnsTrue
  <2>2. QED
    BY <2>1, PublishedInv
<1>2. ASSUME NEW t \in Threads, PublishIgnored(t) PROVE Inv'
  <2>1. /\ thread[t].pc = "publish" /\ thread' = [thread EXCEPT ![t].pc = "mark"]
        /\ wasClosed /\ UNCHANGED <<file, taken, wasClosed>>
    BY <1>2 DEF PublishIgnored, ReturnsTrue, LinkInv
  <2>2. QED
    BY <2>1, PublishedInv
<1>3. ASSUME NEW t \in Threads, Step(t) PROVE Inv'
  BY <1>1, <1>2, <1>3, PublishFailsInv, MarkReadInv, TruncateInv, WriteLineInv,
     CloseFileInv, ReadRaisesInv DEF Step
<1>4. CASE LinkCloses
  <2>1. wasClosed' /\ UNCHANGED <<file, thread, taken>>
    BY <1>4 DEF LinkCloses
  <2>2. SentIn(file, wasClosed', taken) /\ \A t \in Threads : SentIn(thread[t].snap, wasClosed', taken)
    BY <2>1 DEF SentIn
  <2>3. QED
    BY <2>1, <2>2 DEF Inv, IsThread
<1>5. CASE UNCHANGED <<file, thread, taken, wasClosed>>
  BY <1>5 DEF Inv, IsThread
<1>6. QED
  BY <1>3, <1>4, <1>5, EmitInv, FlushInv, RestartInv DEF Next, vars

\* Until a connection is lost, no record is marked sent, in the file or in a copy about
\* to be written, that no open connection took: for any threads and records, killed
\* anywhere (publish, mark_sent, _rewrite).
THEOREM SentOnlyWhenTaken == Spec => []SentWasTakenWhileUp
PROOF
<1>1. Inv => SentWasTakenWhileUp
  BY DEF Inv, SentWasTakenWhileUp, SentWasTaken, SentAmong, SentIn
<1>2. QED
  BY <1>1, InitInv, NextInv, LinkInvHolds, PTL DEF Spec

-----------------------------------------------------------------------------
(* One thread, never killed inside a rewrite: the file is readable, a rewrite  *)
(* writes where the file ends, and a copy about to be written holds what the   *)
(* file holds, with one record more marked sent.                               *)
Marked(lines) == {lines[i].id : i \in {j \in DOMAIN lines : lines[j].sent}}

Solo(m) ==
  /\ file \in Seq(Lines)
  /\ thread[m].pc # "write" => Ids(file) = emitted
  /\ thread[m].pc = "write" =>
       thread[m].pos = Len(file) /\ Ids(file) \cup Ids(thread[m].snap) = emitted
  /\ thread[m].pc = "rewrite" =>
       /\ Ids(thread[m].snap) = Ids(file)
       /\ Head(thread[m].work) \in Ids(file)
       /\ Marked(thread[m].snap) = Marked(file) \cup {Head(thread[m].work)}

\* What the abstract outbox sees of it.
Kept(m) == Ids(file) \cup IF thread[m].pc = "write" THEN Ids(thread[m].snap) ELSE {}
Sent(m) == Marked(file) \cup IF thread[m].pc = "write" THEN Marked(thread[m].snap) ELSE {}

\* A step of the outbox, or none.
Outboxed(m) ==
  \/ UNCHANGED <<Kept(m), Sent(m)>>
  \/ \E id \in Records :
       \/ id \notin Kept(m) /\ Kept(m)' = Kept(m) \cup {id} /\ Sent(m)' = Sent(m)
       \/ id \in Kept(m) \ Sent(m) /\ Sent(m)' = Sent(m) \cup {id} /\ Kept(m)' = Kept(m)

LEMMA NoTorn == Torn \notin Lines /\ Seq(Lines) \subseteq Seq(Written)
PROOF
<1>1. Torn \notin Lines
  BY TornAssumption DEF Torn, Lines
<1>2. Lines \subseteq Written
  BY DEF Written
<1>3. QED
  BY <1>1, <1>2

\* One line more at the end of a file.
LEMMA AppendLine ==
  ASSUME NEW lines \in Seq(Lines), NEW line \in Lines
  PROVE  /\ Append(lines, line) \in Seq(Lines)
         /\ Ids(Append(lines, line)) = Ids(lines) \cup {line.id}
         /\ Marked(Append(lines, line)) = Marked(lines) \cup IF line.sent THEN {line.id} ELSE {}
PROOF
<1> DEFINE longer == Append(lines, line)
<1>1. /\ longer \in Seq(Lines) /\ DOMAIN longer = DOMAIN lines \cup {Len(lines) + 1}
      /\ longer[Len(lines) + 1] = line /\ Len(lines) + 1 \notin DOMAIN lines
      /\ \A i \in DOMAIN lines : longer[i] = lines[i]
  OBVIOUS
<1> HIDE DEF longer
<1>2. Ids(longer) = Ids(lines) \cup {line.id}
  BY <1>1 DEF Ids
<1>3. Marked(longer) = Marked(lines) \cup IF line.sent THEN {line.id} ELSE {}
  BY <1>1 DEF Marked
<1>4. QED
  BY <1>1, <1>2, <1>3 DEF longer

LEMMA HeadAndTail ==
  ASSUME NEW lines \in Seq(Lines), lines # <<>>
  PROVE  /\ Head(lines) \in Lines /\ Tail(lines) \in Seq(Lines)
         /\ Ids(lines) = {Head(lines).id} \cup Ids(Tail(lines))
         /\ Marked(lines) = (IF Head(lines).sent THEN {Head(lines).id} ELSE {})
                              \cup Marked(Tail(lines))
PROOF
<1> DEFINE rest == Tail(lines)
<1>1. /\ rest \in Seq(Lines) /\ Head(lines) = lines[1] /\ 1 \in DOMAIN lines
      /\ \A i \in DOMAIN rest : i + 1 \in DOMAIN lines /\ rest[i] = lines[i + 1]
      /\ \A i \in DOMAIN lines : i # 1 => i - 1 \in DOMAIN rest /\ lines[i] = rest[i - 1]
      /\ Head(lines) \in Lines
  OBVIOUS
<1> HIDE DEF rest
<1>2. Ids(lines) = {Head(lines).id} \cup Ids(rest)
  <2>1. ASSUME NEW i \in DOMAIN lines PROVE lines[i].id \in {Head(lines).id} \cup Ids(rest)
    BY <1>1, <2>1 DEF Ids
  <2>2. ASSUME NEW i \in DOMAIN rest PROVE rest[i].id \in Ids(lines)
    BY <1>1, <2>2 DEF Ids
  <2>3. Head(lines).id \in Ids(lines)
    BY <1>1 DEF Ids
  <2>4. QED
    BY <2>1, <2>2, <2>3 DEF Ids
<1>3. Marked(lines) = (IF Head(lines).sent THEN {Head(lines).id} ELSE {}) \cup Marked(rest)
  <2>1. ASSUME NEW i \in DOMAIN lines, lines[i].sent
        PROVE  lines[i].id \in (IF Head(lines).sent THEN {Head(lines).id} ELSE {}) \cup Marked(rest)
    <3>1. CASE i = 1
      BY <1>1, <2>1, <3>1
    <3>2. CASE i # 1
      <4>1. i - 1 \in DOMAIN rest /\ lines[i] = rest[i - 1]
        BY <1>1, <3>2
      <4>2. lines[i].id \in Marked(rest)
        BY <2>1, <4>1 DEF Marked
      <4>3. QED
        BY <4>2
    <3>3. QED
      BY <3>1, <3>2
  <2>2. ASSUME NEW i \in DOMAIN rest, rest[i].sent PROVE rest[i].id \in Marked(lines)
    BY <1>1, <2>2 DEF Marked
  <2>3. Head(lines).sent => Head(lines).id \in Marked(lines)
    BY <1>1 DEF Marked
  <2>4. Marked(lines) \subseteq (IF Head(lines).sent THEN {Head(lines).id} ELSE {}) \cup Marked(rest)
    BY <2>1 DEF Marked
  <2>5. Marked(rest) \subseteq Marked(lines)
    BY <2>2 DEF Marked
  <2>6. QED
    BY <2>3, <2>4, <2>5
<1>4. QED
  BY <1>1, <1>2, <1>3 DEF rest

LEMMA EmptyFile == Ids(<<>>) = {} /\ Marked(<<>>) = {} /\ <<>> \in Seq(Lines)
  BY DEF Ids, Marked

\* A step that leaves the file, and the thread neither begins nor ends a rewrite.
LEMMA SoloKept ==
  ASSUME NEW m, Solo(m), UNCHANGED <<file, emitted>>,
         thread[m].pc # "write", thread'[m].pc \notin {"write", "rewrite"}
  PROVE  Solo(m)' /\ Outboxed(m)
PROOF
<1>1. Solo(m)'
  BY DEF Solo
<1>2. UNCHANGED <<Kept(m), Sent(m)>>
  BY DEF Kept, Sent
<1>3. QED
  BY <1>1, <1>2 DEF Outboxed

LEMMA ContinuePc ==
  ASSUME Inv, NEW m \in Threads, NEW work, Continue(m, work)
  PROVE  thread'[m].pc \in {"idle", "publish"}
  BY DEF Continue, Inv, Idle

LEMMA EmitSolo ==
  ASSUME Inv, NEW m \in Threads, Solo(m), NEW id \in Records, Emit(m, id)
  PROVE  Solo(m)' /\ Outboxed(m)
PROOF
<1> DEFINE line == Line(id, FALSE)
<1>1. line \in Lines /\ line.id = id /\ ~line.sent
  BY DEF Line, Lines
<1>2. /\ file' = Append(file, line) /\ emitted' = emitted \cup {id} /\ id \notin emitted
      /\ thread[m].pc = "idle" /\ thread'[m].pc \in {"idle", "publish"}
  BY ContinuePc DEF Emit, Idle
<1>3. /\ file' \in Seq(Lines) /\ Ids(file') = Ids(file) \cup {id}
      /\ Marked(file') = Marked(file)
  <2> HIDE DEF line
  <2>1. QED
    BY <1>1, <1>2, AppendLine DEF Solo
<1>4. Solo(m)'
  BY <1>2, <1>3 DEF Solo
<1>5. id \notin Kept(m) /\ Kept(m)' = Kept(m) \cup {id} /\ Sent(m)' = Sent(m)
  BY <1>2, <1>3 DEF Solo, Kept, Sent
<1>6. QED
  BY <1>4, <1>5 DEF Outboxed

LEMMA PublishedSolo ==
  ASSUME Inv, NEW m \in Threads, Solo(m), ReturnsTrue(m)
  PROVE  Solo(m)' /\ Outboxed(m)
PROOF
<1>1. thread[m].pc = "publish" /\ thread'[m].pc = "mark" /\ UNCHANGED <<file, emitted>>
  BY DEF ReturnsTrue, Inv, IsThread
<1>2. QED
  BY <1>1, SoloKept

\* The copy holds every record of the file, and the one at hand is marked.
LEMMA MarkReadSolo ==
  ASSUME Inv, NEW m \in Threads, Solo(m), MarkRead(m)
  PROVE  Solo(m)' /\ Outboxed(m)
PROOF
<1> DEFINE id == Head(thread[m].work)
           snap == [i \in DOMAIN file |-> IF file[i].id = id THEN Line(id, TRUE) ELSE file[i]]
<1>1. thread[m].pc = "mark" /\ UNCHANGED <<file, emitted>>
  BY DEF MarkRead
<1>2. CASE id \notin Ids(file)
  <2>1. Continue(m, Tail(thread[m].work))
    BY <1>2 DEF MarkRead
  <2>2. thread'[m].pc \in {"idle", "publish"}
    BY <2>1, ContinuePc
  <2>3. QED
    BY <1>1, <2>2, SoloKept
<1>3. CASE id \in Ids(file)
  <2>1. /\ thread'[m].pc = "rewrite" /\ thread'[m].snap = snap
        /\ thread'[m].work = thread[m].work
    <3>1. thread' = [thread EXCEPT ![m].pc = "rewrite", ![m].snap = snap]
      BY <1>3 DEF MarkRead
    <3> HIDE DEF snap
    <3>2. QED
      BY <3>1 DEF Inv, IsThread
  <2>2. DOMAIN snap = DOMAIN file
    OBVIOUS
  <2>3. \A i \in DOMAIN file : /\ snap[i].id = file[i].id
                               /\ snap[i].sent <=> file[i].sent \/ file[i].id = id
    BY DEF Line
  <2>4. Ids(snap) = Ids(file)
    <3> HIDE DEF snap
    <3>1. QED
      BY <2>2, <2>3 DEF Ids
  <2>5. Marked(snap) = Marked(file) \cup {id}
    <3> HIDE DEF snap
    <3>1. \E i \in DOMAIN file : file[i].id = id
      BY <1>3 DEF Ids
    <3>2. QED
      BY <2>2, <2>3, <3>1 DEF Marked
  <2> HIDE DEF snap
  <2>6. Solo(m)'
    BY <1>1, <1>3, <2>1, <2>4, <2>5 DEF Solo
  <2>7. UNCHANGED <<Kept(m), Sent(m)>>
    BY <1>1, <2>1 DEF Kept, Sent
  <2>8. QED
    BY <2>6, <2>7 DEF Outboxed
<1>4. QED
  BY <1>2, <1>3

\* The truncation is the moment a record is marked for good.
LEMMA TruncateSolo ==
  ASSUME Inv, NEW m \in Threads, Solo(m), Truncate(m)
  PROVE  Solo(m)' /\ Outboxed(m)
PROOF
<1> DEFINE id == Head(thread[m].work)
<1>1. /\ thread[m].pc = "rewrite" /\ file' = <<>> /\ emitted' = emitted
      /\ thread'[m].pc = "write" /\ thread'[m].pos = 0 /\ thread'[m].snap = thread[m].snap
  BY DEF Truncate, Inv, IsThread
<1>2. /\ Ids(thread[m].snap) = Ids(file) /\ Ids(file) = emitted /\ id \in Ids(file)
      /\ Marked(thread[m].snap) = Marked(file) \cup {id}
  BY <1>1 DEF Solo
<1>3. Solo(m)'
  BY <1>1, <1>2, EmptyFile DEF Solo
<1>4. Kept(m)' = Kept(m) /\ Sent(m)' = Sent(m) \cup {id} /\ id \in Kept(m)
  BY <1>1, <1>2, EmptyFile DEF Kept, Sent
<1>5. id \in Records
  <2>1. PICK i \in DOMAIN file : file[i].id = id
    BY <1>2 DEF Ids
  <2>2. file[i] \in Lines
    BY <2>1 DEF Solo
  <2>3. QED
    BY <2>1, <2>2 DEF Lines
<1>6. CASE id \in Sent(m)
  BY <1>3, <1>4, <1>6 DEF Outboxed
<1>7. CASE id \notin Sent(m)
  BY <1>3, <1>4, <1>5, <1>7 DEF Outboxed
<1>8. QED
  BY <1>6, <1>7

\* Alone, a rewrite only appends what is left of its copy.
LEMMA WriteLineSolo ==
  ASSUME Inv, NEW m \in Threads, Solo(m), WriteLine(m)
  PROVE  Solo(m)' /\ Outboxed(m)
PROOF
<1> DEFINE line == Head(thread[m].snap)
<1>1. /\ thread[m].pc = "write" /\ thread[m].snap # <<>> /\ emitted' = emitted
      /\ thread'[m].pc = "write" /\ thread'[m].pos = thread[m].pos + 1
      /\ thread'[m].snap = Tail(thread[m].snap)
  BY DEF WriteLine, Writing, Inv, IsThread
<1>2. /\ file \in Seq(Lines) /\ thread[m].snap \in Seq(Lines) /\ thread[m].pos = Len(file)
      /\ Ids(file) \cup Ids(thread[m].snap) = emitted
  BY <1>1 DEF Solo, Inv, IsThread
<1>3. /\ line \in Lines /\ Tail(thread[m].snap) \in Seq(Lines)
      /\ Ids(thread[m].snap) = {line.id} \cup Ids(Tail(thread[m].snap))
      /\ Marked(thread[m].snap) = (IF line.sent THEN {line.id} ELSE {})
                                    \cup Marked(Tail(thread[m].snap))
  BY <1>1, <1>2, HeadAndTail
<1>4. file' = Append(file, line)
  <2>1. /\ Len(file) \in Nat /\ thread[m].pos + 1 = Len(file) + 1
        /\ ~(thread[m].pos + 1 < Len(file)) /\ thread[m].pos + 1 > Len(file)
    BY <1>2
  <2>2. file' = [i \in 1..(Len(file) + 1) |->
                   IF i = Len(file) + 1 THEN line ELSE IF i <= Len(file) THEN file[i] ELSE Torn]
    BY <2>1 DEF WriteLine
  <2>3. \A i \in 1..(Len(file) + 1) : i # Len(file) + 1 => i <= Len(file)
    BY <2>1
  <2>4. file' = [i \in 1..(Len(file) + 1) |-> IF i = Len(file) + 1 THEN line ELSE file[i]]
    BY <2>2, <2>3
  <2>5. QED
    BY <1>2, <2>4
<1>5. /\ file' \in Seq(Lines) /\ Ids(file') = Ids(file) \cup {line.id}
      /\ Marked(file') = Marked(file) \cup IF line.sent THEN {line.id} ELSE {}
      /\ Len(file') = Len(file) + 1
  <2> HIDE DEF line
  <2>1. QED
    BY <1>2, <1>3, <1>4, AppendLine
<1>6. Solo(m)'
  BY <1>1, <1>2, <1>3, <1>5 DEF Solo
<1>7. UNCHANGED <<Kept(m), Sent(m)>>
  BY <1>1, <1>3, <1>5 DEF Kept, Sent
<1>8. QED
  BY <1>6, <1>7 DEF Outboxed

LEMMA CloseFileSolo ==
  ASSUME Inv, NEW m \in Threads, Solo(m), CloseFile(m)
  PROVE  Solo(m)' /\ Outboxed(m)
PROOF
<1>1. /\ thread[m].pc = "write" /\ thread[m].snap = <<>> /\ UNCHANGED <<file, emitted>>
      /\ thread'[m].pc \in {"idle", "publish"}
  BY ContinuePc DEF CloseFile, Writing
<1>2. Solo(m)'
  BY <1>1, EmptyFile DEF Solo
<1>3. UNCHANGED <<Kept(m), Sent(m)>>
  BY <1>1, EmptyFile DEF Kept, Sent
<1>4. QED
  BY <1>2, <1>3 DEF Outboxed

\* Killed between two rewrites, the process finds the file as it was.
LEMMA RestartSolo ==
  ASSUME Inv, NEW m \in Threads, Solo(m), ~KilledAnywhere, Restart
  PROVE  Solo(m)' /\ Outboxed(m)
PROOF
<1>1. thread[m].pc # "write" /\ UNCHANGED <<file, emitted>> /\ thread'[m].pc = "idle"
  BY DEF Restart, Writing, Idle
<1>2. QED
  BY <1>1, SoloKept

LEMMA StepSolo ==
  ASSUME NEW m, Threads = {m}, ~KilledAnywhere, Inv, Solo(m), [Next]_vars
  PROVE  Solo(m)' /\ Outboxed(m)
PROOF
<1> USE m \in Threads
<1>1. ASSUME PublishReturnsTrue(m) \/ PublishIgnored(m) PROVE Solo(m)' /\ Outboxed(m)
  BY <1>1, PublishedSolo DEF PublishReturnsTrue, PublishIgnored
<1>2. ASSUME Flush(m) \/ PublishFails(m) PROVE Solo(m)' /\ Outboxed(m)
  <2>1. UNCHANGED <<file, emitted>> /\ thread[m].pc \in {"idle", "publish"}
    BY <1>2 DEF Flush, PublishFails, Idle
  <2>2. \E work : Continue(m, work)
    BY <1>2 DEF Flush, PublishFails
  <2>3. thread'[m].pc \in {"idle", "publish"}
    BY <2>2, ContinuePc
  <2>4. QED
    BY <2>1, <2>3, SoloKept
<1>3. ASSUME ReadRaises(m) PROVE Solo(m)' /\ Outboxed(m)
  <2>1. /\ UNCHANGED <<file, emitted>> /\ thread[m].pc = "mark" /\ thread'[m].pc = "idle"
    BY <1>3 DEF ReadRaises, Idle, Inv
  <2>2. QED
    BY <2>1, SoloKept
<1>4. ASSUME Step(m) PROVE Solo(m)' /\ Outboxed(m)
  BY <1>1, <1>2, <1>3, <1>4, MarkReadSolo, TruncateSolo, WriteLineSolo, CloseFileSolo DEF Step
<1>5. CASE UNCHANGED <<file, thread, emitted>>
  BY <1>5 DEF Solo, Outboxed, Kept, Sent
<1>6. QED
  BY <1>2, <1>4, <1>5, EmitSolo, RestartSolo DEF Next, LinkCloses, vars

LEMMA SoloView ==
  ASSUME NEW m, Threads = {m}
  PROVE  Contents = Kept(m) /\ MarkedSent = Sent(m)
PROOF
<1>1. CASE thread[m].pc = "write"
  BY <1>1 DEF Contents, MarkedSent, Kept, Sent, Marked, Writing
<1>2. CASE thread[m].pc # "write"
  BY <1>2 DEF Contents, MarkedSent, Kept, Sent, Marked, Writing
<1>3. QED
  BY <1>1, <1>2

LEMMA InitSolo == ASSUME NEW m \in Threads, Init PROVE Solo(m) /\ Kept(m) = {} /\ Sent(m) = {}
  BY EmptyFile DEF Init, Idle, Solo, Kept, Sent

\* Where one thread uses the queue and kills fall between rewrites, no record whose
\* append returned is ever missing (append, mark_sent, _rewrite).
THEOREM AloneNothingIsLost ==
  ASSUME NEW CONSTANT m, Threads = {m}, ~KilledAnywhere
  PROVE  Spec => []NothingLost
PROOF
<1>1. Init => Inv /\ LinkInv /\ Solo(m)
  BY InitInv, LinkInvHolds, InitSolo
<1>2. Inv /\ LinkInv /\ Solo(m) /\ [Next]_vars => (Inv /\ LinkInv /\ Solo(m))'
  BY NextInv, LinkInvHolds, StepSolo
<1>3. Solo(m) => NothingLost
  BY SoloView DEF Solo, Kept, NothingLost
<1>4. QED
  BY <1>1, <1>2, <1>3, PTL DEF Spec

\* There the file with its rewrites implements the outbox: a record is put in once,
\* kept, marked sent at most once and never unmarked (append, mark_sent, _rewrite).
THEOREM AloneImplementsOutbox ==
  ASSUME NEW CONSTANT m, Threads = {m}, ~KilledAnywhere
  PROVE  Spec => ImplementsOutbox
PROOF
<1>1. Contents = Kept(m) /\ MarkedSent = Sent(m)
  BY SoloView
<1>2. (Contents = Kept(m) /\ MarkedSent = Sent(m))'
  BY <1>1, PTL
<1>3. Init => Inv /\ LinkInv /\ Solo(m) /\ Box!Init
  BY <1>1, InitInv, LinkInvHolds, InitSolo DEF Init, Box!Init
<1>4. Inv /\ LinkInv /\ Solo(m) /\ [Next]_vars => (Inv /\ LinkInv /\ Solo(m))'
  BY NextInv, LinkInvHolds, StepSolo
<1>5. Inv /\ Solo(m) /\ [Next]_vars => [Box!Next]_<<emitted, Contents, MarkedSent>>
  <2> SUFFICES ASSUME Inv, Solo(m), [Next]_vars
               PROVE  [Box!Next]_<<emitted, Contents, MarkedSent>>
    OBVIOUS
  <2>1. Solo(m)' /\ Outboxed(m)
    BY StepSolo
  <2>2. emitted = Kept(m) /\ emitted' = Kept(m)'
    BY <2>1 DEF Solo, Kept
  <2>3. QED
    BY <1>1, <1>2, <2>1, <2>2 DEF Outboxed, Box!Next, Box!Put, Box!MarkSent
<1>6. QED
  BY <1>3, <1>4, <1>5, PTL DEF Spec, ImplementsOutbox, Box!Spec
=============================================================================
