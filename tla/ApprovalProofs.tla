--------------------------- MODULE ApprovalProofs ---------------------------
(***************************************************************************)
(* Proofs about both modes of cortex-approval.                             *)
(*                                                                         *)
(* ApprovalStore, for any number of requests, handlers and approve calls.  *)
(* The invariant speaks of every copy of a request, in its row or held by  *)
(* a handler: the copies of one request agree on what never changes (risk, *)
(* creation), so an upsert leaves the row equal to the copy it stores, and *)
(* each copy alone is coherent.                                            *)
(*                                                                         *)
(* ApprovalLocal, for any number of requests and any windows: verdicts     *)
(* fall in time, and every step of the service is a step of the ledger or  *)
(* changes nothing there.                                                  *)
(***************************************************************************)
EXTENDS ApprovalService, TLAPS

Copies ==
  {c \in ApprovalRecords : \/ \E id \in Requests : c \in row[id]
                          \/ \E t \in Tasks : c \in task[t].copies}

Coherent(r) ==
  /\ r.status = "pending" => r.received < ApproversRequired(r) /\ r.resolved = NotResolved
  /\ r.status = "approved" => r.received = ApproversRequired(r)
  /\ r.status = "expired" => r.resolved > Deadline(r)
  /\ r.status # "pending" => r.resolved >= r.created

Sound(r) == Coherent(r) /\ r.received <= votes[r.id] /\ r.created <= now

Kin(r, s) == r.id = s.id => r.risk = s.risk /\ r.created = s.created

CopiesOK ==
  /\ \A c \in Copies : Sound(c)
  /\ \A c, d \in Copies : Kin(c, d)

Inv == TypeOK /\ CopiesOK

Twin(c, b) == c.id = b.id /\ c.risk = b.risk /\ c.created = b.created

\* How a handler makes a copy from another one.
Made(c, b) ==
  \/ c = b
  \/ c = MaybeExpire(b, now)
  \/ Decidable(b) /\ c = Rejected(b, now)
  \/ Decidable(b) /\ c = Approved(b, now) /\ c.received <= votes'[c.id]

\* Every copy after a step was made from one before it.
Carried == \A c \in Copies' : \E b \in Copies : Made(c, b)

-----------------------------------------------------------------------------
\* The steps on one record keep its type, what never changes, and a resolution.
LEMMA RecordSteps ==
  ASSUME NEW b \in ApprovalRecords, now \in Nat
  PROVE  /\ MaybeExpire(b, now) \in ApprovalRecords
         /\ Approved(b, now) \in ApprovalRecords
         /\ Rejected(b, now) \in ApprovalRecords
         /\ Twin(MaybeExpire(b, now), b)
         /\ Twin(Approved(b, now), b)
         /\ Twin(Rejected(b, now), b)
PROOF
<1> USE DEF ApprovalRecords, Statuses
<1>1. MaybeExpire(b, now) \in ApprovalRecords
  BY DEF MaybeExpire
<1>2. Rejected(b, now) \in ApprovalRecords
  BY DEF Rejected
<1>3. Approved(b, now) \in ApprovalRecords
  <2> DEFINE counted == [b EXCEPT !.received = @ + 1]
  <2>1. counted \in ApprovalRecords
    OBVIOUS
  <2>2. [counted EXCEPT !.status = "approved", !.resolved = now] \in ApprovalRecords
    BY <2>1
  <2>3. QED
    BY <2>1, <2>2 DEF Approved
<1>4. QED
  BY <1>1, <1>2, <1>3 DEF MaybeExpire, Approved, Rejected, Twin

LEMMA CopiesTyped ==
  ASSUME TypeOK
  PROVE  /\ \A c \in Copies : c \in ApprovalRecords /\ c.id \in Requests
         /\ \A id \in Requests : \A r \in row[id] : r \in Copies /\ r.id = id
         /\ \A t \in Tasks : \A r \in task[t].copies : r \in Copies
PROOF
<1>1. \A id \in Requests : \A r \in row[id] : r \in ApprovalRecords /\ r.id = id
  BY DEF TypeOK
<1>2. \A t \in Tasks : task[t].copies \subseteq ApprovalRecords
  BY DEF TypeOK, TaskStates
<1>3. QED
  BY <1>1, <1>2 DEF Copies, ApprovalRecords

\* A copy made from a sound one is sound.
LEMMA MadeIsSound ==
  ASSUME TypeOK, TypeOK', CopiesOK, NEW c, NEW b \in Copies, Made(c, b),
         \A id \in Requests : votes[id] <= votes'[id], now <= now'
  PROVE  Sound(c)' /\ Twin(c, b)
PROOF
<1>1. b \in ApprovalRecords /\ b.id \in Requests /\ Sound(b)
  BY CopiesTyped DEF CopiesOK
<1>2. now \in Nat /\ now' \in Nat /\ votes \in [Requests -> Nat] /\ votes' \in [Requests -> Nat]
  BY StoreAssumption DEF TypeOK
<1>3. c \in ApprovalRecords /\ Twin(c, b)
  <2>1. c \in {b, MaybeExpire(b, now), Rejected(b, now), Approved(b, now)}
    BY DEF Made
  <2>2. Twin(b, b)
    BY DEF Twin
  <2>3. QED
    BY <1>1, <1>2, <2>1, <2>2, RecordSteps
<1>4. c.received <= votes'[c.id] /\ c.created <= now'
  <2>1. b.received <= votes'[b.id] /\ b.created <= now'
    <3>1. b.received <= votes[b.id] /\ votes[b.id] <= votes'[b.id] /\ b.created <= now
      BY <1>1 DEF Sound
    <3>2. b.received \in Nat /\ b.created \in Nat /\ votes[b.id] \in Nat /\ votes'[b.id] \in Nat
      BY <1>1, <1>2 DEF ApprovalRecords
    <3>3. QED
      BY <1>2, <3>1, <3>2
  <2>2. c.received = b.received \/ c.received <= votes'[c.id]
    BY <1>1 DEF Made, MaybeExpire, Rejected, ApprovalRecords
  <2>3. QED
    BY <1>3, <2>1, <2>2 DEF Twin
<1>5. Coherent(c)
  <2> USE <1>1, <1>2, <1>3, WindowAssumption
      DEF Sound, Coherent, Twin, ApproversRequired, Deadline, NotResolved, ApprovalRecords, Risks
  <2>1. CASE c = b
    BY <2>1
  <2>2. CASE c = MaybeExpire(b, now)
    BY <2>2 DEF MaybeExpire
  <2>3. CASE Decidable(b) /\ c = Rejected(b, now)
    BY <2>3 DEF Rejected, Decidable
  <2>4. CASE Decidable(b) /\ c = Approved(b, now)
    BY <2>4 DEF Approved, Decidable
  <2>5. QED
    BY <2>1, <2>2, <2>3, <2>4 DEF Made
<1>6. QED
  BY <1>3, <1>4, <1>5 DEF Sound, Coherent, ApproversRequired, Deadline

\* When every copy after a step was made from one before it, the copies stay sound.
LEMMA CopiesCarry ==
  ASSUME Inv, TypeOK',
         \A id \in Requests : votes[id] <= votes'[id], now <= now',
         \A c \in Copies' : \E b \in Copies : Made(c, b)
  PROVE  CopiesOK'
PROOF
<1>1. \A c \in Copies' : Sound(c)'
  BY MadeIsSound DEF Inv
<1>2. \A c, d \in Copies' : Kin(c, d)
  <2>1. TAKE c \in Copies', d \in Copies'
  <2>2. PICK b \in Copies : Made(c, b)
    OBVIOUS
  <2>3. PICK e \in Copies : Made(d, e)
    OBVIOUS
  <2>4. QED
    BY <2>2, <2>3, MadeIsSound DEF Inv, CopiesOK, Kin, Twin
<1>3. QED
  BY <1>1, <1>2 DEF CopiesOK, Kin

-----------------------------------------------------------------------------
\* The upsert of a copy leaves the row equal to that copy.
LEMMA UpsertIsCopy ==
  ASSUME Inv, NEW c \in Copies, Upsert(c)
  PROVE  row' = [row EXCEPT ![c.id] = {c}]
PROOF
<1> DEFINE Merged(old) == [old EXCEPT !.received = c.received, !.status = c.status,
                                      !.resolved = c.resolved]
<1>1. c \in ApprovalRecords /\ c.id \in Requests
  BY CopiesTyped DEF Inv
<1>2. \A old \in row[c.id] : old \in ApprovalRecords /\ Twin(c, old)
  BY <1>1, CopiesTyped DEF Inv, CopiesOK, Kin, Twin
<1>3. \A old \in row[c.id] : Merged(old) = c
  BY <1>1, <1>2 DEF Twin, ApprovalRecords
<1>4. row[c.id] # {} => {Merged(old) : old \in row[c.id]} = {c}
  <2> HIDE DEF Merged
  <2> QED BY <1>3
<1>5. row \in [Requests -> SUBSET ApprovalRecords]
  BY DEF Inv, TypeOK
<1>6. row' = [row EXCEPT ![c.id] = IF row[c.id] = {} THEN {c}
                                   ELSE {Merged(old) : old \in row[c.id]}]
  BY DEF Upsert
<1>7. QED
  <2> HIDE DEF Merged
  <2> QED BY <1>1, <1>4, <1>5, <1>6

LEMMA UpsertTyped ==
  ASSUME Inv, NEW c \in Copies, Upsert(c)
  PROVE  /\ row' \in [Requests -> SUBSET ApprovalRecords]
         /\ \A id \in Requests : \A r, s \in row'[id] : r.id = id /\ r = s
         /\ \A id \in Requests : \A r \in row'[id] : r \in Copies
  BY UpsertIsCopy, CopiesTyped DEF Inv, TypeOK

\* A step that stores copies in rows and makes copies in handlers keeps the invariant.
LEMMA Handled ==
  ASSUME Inv, TypeOK',
         \A id \in Requests : votes[id] <= votes'[id], now <= now',
         \A id \in Requests : \A r \in row'[id] : r \in Copies,
         \A t \in Tasks : \A c \in task'[t].copies : \E b \in Copies : Made(c, b)
  PROVE  Inv' /\ Carried
PROOF
<1>1. \A c \in Copies' : \E b \in Copies : Made(c, b)
  <2>1. TAKE c \in Copies'
  <2>2. CASE \E id \in Requests : c \in row'[id]
    BY <2>2 DEF Made
  <2>3. CASE \E t \in Tasks : c \in task'[t].copies
    BY <2>3
  <2>4. QED
    BY <2>2, <2>3 DEF Copies
<1>2. QED
  BY <1>1, CopiesCarry DEF Inv, Carried

LEMMA InitInv == Init => Inv
PROOF
<1> SUFFICES ASSUME Init PROVE Inv
  OBVIOUS
<1>1. TypeOK
  BY StoreAssumption DEF Init, TypeOK, Idle, TaskStates, Ops
<1>2. \A c \in Copies : FALSE
  BY DEF Init, Copies, Idle
<1>3. QED
  BY <1>1, <1>2 DEF Inv, CopiesOK

\* request_approval: the identifier is fresh, so the new copy has no kin.
LEMMA RequestApprovalInv ==
  ASSUME Inv, NEW t \in Tasks, NEW id \in Requests, NEW risk \in Risks,
         RequestApproval(t, id, risk)
  PROVE  Inv'
PROOF
<1> DEFINE new == NewRecord(id, risk, now)
<1> USE DEF RequestApproval
<1>1. now \in Nat /\ votes[id] \in Nat
  BY StoreAssumption DEF Inv, TypeOK
<1>2. new \in ApprovalRecords /\ new.id = id
  BY <1>1 DEF NewRecord, ApprovalRecords, Statuses
<1>3. Sound(new)
  BY <1>1, WindowAssumption DEF NewRecord, Sound, Coherent, ApproversRequired
<1>4. TypeOK'
  <2> HIDE DEF new
  <2>1. [pc |-> "save", op |-> "create", copies |-> {new}] \in TaskStates
    BY <1>2 DEF TaskStates, Ops
  <2>2. task' = [task EXCEPT ![t] = [pc |-> "save", op |-> "create", copies |-> {new}]]
    BY DEF new
  <2>3. QED
    BY <2>1, <2>2 DEF Inv, TypeOK
<1>5. \A c \in Copies' : c = new \/ c \in Copies
  <2> HIDE DEF new
  <2>1. \A u \in Tasks : \A c \in task'[u].copies : c = new \/ c \in task[u].copies
    BY DEF new, Inv, TypeOK
  <2>2. QED
    BY <2>1 DEF Copies
<1>6. \A c \in Copies : c.id # id
  BY CopiesTyped DEF Inv, Copies, InUse
<1>7. CopiesOK'
  <2> HIDE DEF new
  <2>1. \A c \in Copies' : Sound(c)
    BY <1>3, <1>5 DEF Inv, CopiesOK
  <2>2. \A c, d \in Copies' : Kin(c, d)
    BY <1>2, <1>5, <1>6 DEF Inv, CopiesOK, Kin
  <2>3. \A c : Sound(c)' <=> Sound(c)
    BY DEF Sound, Coherent
  <2>4. QED
    BY <2>1, <2>2, <2>3 DEF CopiesOK, Kin
<1>8. QED
  BY <1>4, <1>7 DEF Inv

\* The two readings: the copies are the rows, expired or not.
LEMMA FetchRecordInv ==
  ASSUME Inv, NEW t \in Tasks, NEW op \in {"get", "approve", "reject"}, NEW id \in Requests,
         FetchRecord(t, op, id)
  PROVE  Inv' /\ Carried
PROOF
<1> USE DEF FetchRecord
<1>1. now \in Nat /\ votes \in [Requests -> Nat]
  BY StoreAssumption DEF Inv, TypeOK
<1> DEFINE made == {MaybeExpire(r, now) : r \in row[id]}
<1>2. \A c \in made : c \in ApprovalRecords /\ \E b \in Copies : Made(c, b)
  BY <1>1, CopiesTyped, RecordSteps DEF Inv, Made
<1>3. [pc |-> "refresh", op |-> op, copies |-> made] \in TaskStates
  <2> HIDE DEF made
  <2> QED BY <1>2 DEF TaskStates, Ops
<1>4. task' = [task EXCEPT ![t] = [pc |-> "refresh", op |-> op, copies |-> made]]
  OBVIOUS
<1> HIDE DEF made
<1>5. TypeOK'
  BY <1>3, <1>4 DEF Inv, TypeOK
<1>6. \A id2 \in Requests : \A r \in row'[id2] : r \in Copies
  BY CopiesTyped DEF Inv
<1>7. \A u \in Tasks : \A c \in task'[u].copies : c \in made \/ c \in task[u].copies
  BY <1>4 DEF Inv, TypeOK
<1>8. \A u \in Tasks : \A c \in task'[u].copies : \E b \in Copies : Made(c, b)
  BY <1>2, <1>7, CopiesTyped DEF Inv, Made
<1>9. QED
  BY <1>1, <1>5, <1>6, <1>8, Handled

LEMMA FetchListInv ==
  ASSUME Inv, NEW t \in Tasks, NEW wanted, FetchList(t, wanted)
  PROVE  Inv' /\ Carried
PROOF
<1> DEFINE rows == {r \in UNION {row[id] : id \in Requests} : r.status \in wanted}
           made == {MaybeExpire(r, now) : r \in rows}
<1>1. now \in Nat /\ votes \in [Requests -> Nat]
  BY StoreAssumption DEF Inv, TypeOK
<1>2. \A r \in rows : r \in Copies
  BY CopiesTyped DEF Inv
<1>3. task' = [task EXCEPT ![t] = [pc |-> "refresh", op |-> "list", copies |-> made]]
      /\ UNCHANGED <<row, now, votes, acked>>
  BY DEF FetchList
<1> HIDE DEF rows
<1>4. \A c \in made : c \in ApprovalRecords /\ \E b \in Copies : Made(c, b)
  BY <1>1, <1>2, CopiesTyped, RecordSteps DEF Inv, Made
<1> HIDE DEF made
<1>5. [pc |-> "refresh", op |-> "list", copies |-> made] \in TaskStates
  BY <1>4 DEF TaskStates, Ops
<1>6. TypeOK'
  BY <1>3, <1>5 DEF Inv, TypeOK
<1>7. \A id \in Requests : \A r \in row'[id] : r \in Copies
  BY <1>3, CopiesTyped DEF Inv
<1>8. \A u \in Tasks : \A c \in task'[u].copies : c \in made \/ c \in task[u].copies
  BY <1>3 DEF Inv, TypeOK
<1>9. \A u \in Tasks : \A c \in task'[u].copies : \E b \in Copies : Made(c, b)
  BY <1>4, <1>8, CopiesTyped DEF Inv, Made
<1>10. QED
  BY <1>1, <1>3, <1>6, <1>7, <1>9, Handled

\* The steps that store a copy, or none, and make no new one.
LEMMA StoredInv ==
  ASSUME Inv,
         UNCHANGED row \/ \E c \in Copies : Upsert(c),
         task' \in [Tasks -> TaskStates],
         \A u \in Tasks : task'[u].copies \subseteq task[u].copies,
         UNCHANGED <<now, votes>>, acked' \in [Requests -> Nat]
  PROVE  Inv' /\ Carried
PROOF
<1>1. now \in Nat /\ votes \in [Requests -> Nat]
  BY StoreAssumption DEF Inv, TypeOK
<1>2. /\ row' \in [Requests -> SUBSET ApprovalRecords]
      /\ \A id \in Requests : \A r, s \in row'[id] : r.id = id /\ r = s
      /\ \A id \in Requests : \A r \in row'[id] : r \in Copies
  <2>1. CASE UNCHANGED row
    BY <2>1, CopiesTyped DEF Inv, TypeOK
  <2>2. CASE \E c \in Copies : Upsert(c)
    BY <2>2, UpsertTyped
  <2>3. QED
    BY <2>1, <2>2
<1>3. TypeOK'
  BY <1>2 DEF Inv, TypeOK
<1>4. \A u \in Tasks : \A c \in task'[u].copies : \E b \in Copies : Made(c, b)
  BY CopiesTyped DEF Inv, Made
<1>5. QED
  BY <1>1, <1>2, <1>3, <1>4, Handled

LEMMA RefreshListInv ==
  ASSUME Inv, NEW t \in Tasks, RefreshList(t)
  PROVE  Inv' /\ Carried
PROOF
<1>1. PICK c \in task[t].copies :
        /\ Upsert(c)
        /\ task' = [task EXCEPT ![t] = Remaining(t, c)]
  BY DEF RefreshList
<1>2. task \in [Tasks -> TaskStates] /\ c \in Copies
  BY CopiesTyped DEF Inv, TypeOK
<1>3. task' \in [Tasks -> TaskStates]
      /\ \A u \in Tasks : task'[u].copies \subseteq task[u].copies
  <2>1. Remaining(t, c) \in TaskStates /\ Remaining(t, c).copies \subseteq task[t].copies
    BY <1>2 DEF TaskStates, Remaining, Idle, Ops
  <2>2. QED
    BY <1>1, <1>2, <2>1
<1>4. QED
  BY <1>1, <1>2, <1>3, StoredInv DEF RefreshList, Inv, TypeOK

LEMMA TaskEnds ==
  ASSUME Inv, NEW t \in Tasks, task' = [task EXCEPT ![t] = Idle]
  PROVE  /\ task' \in [Tasks -> TaskStates]
         /\ \A u \in Tasks : task'[u].copies \subseteq task[u].copies
PROOF
<1>1. Idle \in TaskStates /\ Idle.copies = {}
  BY DEF TaskStates, Idle, Ops
<1>2. QED
  BY <1>1 DEF Inv, TypeOK

LEMMA RefreshAndAnswerInv ==
  ASSUME Inv, NEW t \in Tasks, RefreshAndAnswer(t)
  PROVE  Inv' /\ Carried
PROOF
<1>1. \E c \in Copies : Upsert(c)
  BY CopiesTyped DEF RefreshAndAnswer, Inv
<1>2. QED
  BY <1>1, TaskEnds, StoredInv DEF RefreshAndAnswer, Inv, TypeOK

LEMMA SaveInv ==
  ASSUME Inv, NEW t \in Tasks, Save(t)
  PROVE  Inv' /\ Carried
PROOF
<1>1. PICK c \in task[t].copies :
        /\ Upsert(c)
        /\ acked' = [acked EXCEPT ![c.id] = @ + (IF task[t].op = "approve" THEN 1 ELSE 0)]
  BY DEF Save
<1>2. c \in Copies
  BY CopiesTyped DEF Inv
<1>3. acked' \in [Requests -> Nat]
  <2> DEFINE more == IF task[t].op = "approve" THEN 1 ELSE 0
  <2>1. more \in Nat /\ acked' = [acked EXCEPT ![c.id] = @ + more]
    BY <1>1
  <2>2. acked \in [Requests -> Nat]
    BY DEF Inv, TypeOK
  <2> HIDE DEF more
  <2>3. c.id \in Requests
    BY <1>2, CopiesTyped DEF Inv
  <2>4. QED
    BY <2>1, <2>2, <2>3
<1>4. QED
  BY <1>1, <1>2, <1>3, TaskEnds, StoredInv DEF Save

LEMMA StatementFailsInv ==
  ASSUME Inv, NEW t \in Tasks, StatementFails(t)
  PROVE  Inv' /\ Carried
PROOF
<1>1. UNCHANGED row \/ \E c \in Copies : Upsert(c)
  BY CopiesTyped DEF StatementFails, Inv
<1>2. QED
  BY <1>1, TaskEnds, StoredInv DEF StatementFails, Inv, TypeOK

LEMMA RestartInv ==
  ASSUME Inv, Restart
  PROVE  Inv' /\ Carried
PROOF
<1>1. task' \in [Tasks -> TaskStates]
      /\ \A u \in Tasks : task'[u].copies \subseteq task[u].copies
  BY DEF Restart, TaskStates, Idle, Ops
<1>2. QED
  BY <1>1, StoredInv DEF Restart, Inv, TypeOK

LEMMA TickInv ==
  ASSUME Inv, Tick
  PROVE  Inv' /\ Carried
PROOF
<1>1. now \in Nat /\ now <= now' /\ votes \in [Requests -> Nat]
  BY StoreAssumption DEF Inv, TypeOK, Tick
<1>2. TypeOK'
  BY StoreAssumption DEF Inv, TypeOK, Tick
<1>3. QED
  BY <1>1, <1>2, CopiesTyped, Handled DEF Inv, Made, Tick

-----------------------------------------------------------------------------
\* The two decisions: the copy read is stored, and a decided copy is made of it.
LEMMA RefreshAndRejectInv ==
  ASSUME Inv, NEW t \in Tasks, RefreshAndReject(t)
  PROVE  Inv' /\ Carried
PROOF
<1>1. PICK c \in task[t].copies :
        /\ Decidable(c)
        /\ Upsert(c)
        /\ task' = [task EXCEPT ![t] = [pc |-> "save", op |-> "reject",
                                        copies |-> {Rejected(c, now)}]]
  BY DEF RefreshAndReject
<1>2. c \in Copies /\ c \in ApprovalRecords /\ now \in Nat
  BY CopiesTyped, StoreAssumption DEF Inv, TypeOK
<1> DEFINE decided == Rejected(c, now)
           next == [pc |-> "save", op |-> "reject", copies |-> {decided}]
<1>3. decided \in ApprovalRecords /\ Made(decided, c)
  BY <1>1, <1>2, RecordSteps DEF Made
<1> HIDE DEF decided
<1>4. next \in TaskStates /\ next.copies = {decided}
  BY <1>3 DEF TaskStates, Ops
<1>5. task' = [task EXCEPT ![t] = next]
  BY <1>1 DEF decided
<1> HIDE DEF next
<1>6. TypeOK'
  <2>1. task' \in [Tasks -> TaskStates]
    BY <1>4, <1>5 DEF Inv, TypeOK
  <2>2. UNCHANGED <<now, votes, acked>>
    BY DEF RefreshAndReject
  <2>3. QED
    BY <1>1, <1>2, <2>1, <2>2, UpsertTyped DEF Inv, TypeOK
<1>7. \A u \in Tasks : \A d \in task'[u].copies : \E b \in Copies : Made(d, b)
  <2>1. \A u \in Tasks : \A d \in task'[u].copies : d = decided \/ d \in task[u].copies
    BY <1>4, <1>5 DEF Inv, TypeOK
  <2>2. QED
    BY <1>2, <1>3, <2>1, CopiesTyped DEF Inv, Made
<1>8. \A id \in Requests : \A r \in row'[id] : r \in Copies
  BY <1>1, <1>2, UpsertTyped
<1>9. UNCHANGED <<now, votes>> /\ votes \in [Requests -> Nat]
  BY StoreAssumption DEF RefreshAndReject, Inv, TypeOK
<1>10. QED
  BY <1>2, <1>6, <1>7, <1>8, <1>9, Handled

LEMMA RefreshAndApproveInv ==
  ASSUME Inv, NEW t \in Tasks, RefreshAndApprove(t)
  PROVE  Inv' /\ Carried
PROOF
<1>1. PICK c \in task[t].copies :
        /\ Decidable(c)
        /\ votes[c.id] < MaxCalls
        /\ Upsert(c)
        /\ task' = [task EXCEPT ![t] = [pc |-> "save", op |-> "approve",
                                        copies |-> {Approved(c, now)}]]
        /\ votes' = [votes EXCEPT ![c.id] = @ + 1]
  BY DEF RefreshAndApprove
<1>2. c \in Copies /\ c \in ApprovalRecords /\ c.id \in Requests
      /\ now \in Nat
  BY CopiesTyped, StoreAssumption DEF Inv, TypeOK
<1>3. /\ votes' \in [Requests -> 0..MaxCalls]
      /\ \A id \in Requests : votes[id] <= votes'[id]
      /\ votes'[c.id] = votes[c.id] + 1
      /\ votes[c.id] \in Nat
  BY <1>1, <1>2, StoreAssumption DEF Inv, TypeOK
<1> DEFINE decided == Approved(c, now)
           next == [pc |-> "save", op |-> "approve", copies |-> {decided}]
<1>4. decided \in ApprovalRecords /\ Made(decided, c)
  <2>1. decided.received = c.received + 1 /\ decided.id = c.id
    BY <1>2 DEF Approved, ApprovalRecords
  <2>2. c.received <= votes[c.id] /\ c.received \in Nat
    BY <1>2 DEF Inv, CopiesOK, Sound, ApprovalRecords
  <2>3. decided.received <= votes'[decided.id]
    BY <1>3, <2>1, <2>2
  <2>4. QED
    BY <1>1, <1>2, <2>3, RecordSteps DEF Made
<1> HIDE DEF decided
<1>5. next \in TaskStates /\ next.copies = {decided}
  BY <1>4 DEF TaskStates, Ops
<1>6. task' = [task EXCEPT ![t] = next]
  BY <1>1 DEF decided
<1> HIDE DEF next
<1>7. TypeOK'
  <2>1. task' \in [Tasks -> TaskStates]
    BY <1>5, <1>6 DEF Inv, TypeOK
  <2>2. UNCHANGED <<now, acked>>
    BY DEF RefreshAndApprove
  <2>3. QED
    BY <1>1, <1>2, <1>3, <2>1, <2>2, UpsertTyped DEF Inv, TypeOK
<1>8. \A u \in Tasks : \A d \in task'[u].copies : \E b \in Copies : Made(d, b)
  <2>1. \A u \in Tasks : \A d \in task'[u].copies : d = decided \/ d \in task[u].copies
    BY <1>5, <1>6 DEF Inv, TypeOK
  <2>2. QED
    BY <1>2, <1>4, <2>1, CopiesTyped DEF Inv, Made
<1>9. \A id \in Requests : \A r \in row'[id] : r \in Copies
  BY <1>1, <1>2, UpsertTyped
<1>10. UNCHANGED now
  BY DEF RefreshAndApprove
<1>11. QED
  BY <1>2, <1>3, <1>7, <1>8, <1>9, <1>10, Handled

-----------------------------------------------------------------------------
LEMMA NextInv == Inv /\ [Next]_vars => Inv'
PROOF
<1> SUFFICES ASSUME Inv, [Next]_vars PROVE Inv'
  OBVIOUS
<1>1. ASSUME NEW t \in Tasks, Client(t) PROVE Inv'
  <2>1. ASSUME NEW id \in Requests, NEW risk \in Risks, RequestApproval(t, id, risk)
        PROVE  Inv'
    BY <2>1, RequestApprovalInv
  <2>2. ASSUME NEW id \in Requests, NEW op \in {"get", "approve", "reject"},
               FetchRecord(t, op, id)
        PROVE  Inv'
    BY <2>2, FetchRecordInv
  <2>3. ASSUME NEW wanted, FetchList(t, wanted) PROVE Inv'
    BY <2>3, FetchListInv
  <2>4. QED
    BY <1>1, <2>1, <2>2, <2>3 DEF Client
<1>2. ASSUME NEW t \in Tasks, Resume(t) PROVE Inv'
  BY <1>2, RefreshListInv, RefreshAndAnswerInv, RefreshAndApproveInv, RefreshAndRejectInv,
     SaveInv, StatementFailsInv DEF Resume
<1>3. CASE UNCHANGED vars
  <2>1. Copies' = Copies /\ TypeOK'
    BY <1>3 DEF vars, Copies, Inv, TypeOK
  <2>2. \A c : Sound(c)' <=> Sound(c)
    BY <1>3 DEF vars, Sound, Coherent
  <2>3. QED
    BY <2>1, <2>2 DEF Inv, CopiesOK, Kin
<1>4. QED
  BY <1>1, <1>2, <1>3, RestartInv, TickInv DEF Next

THEOREM Invariance == Spec => []Inv
  BY InitInv, NextInv, PTL DEF Spec

\* Every variable of the service keeps its type: a row holds at most one record, under
\* its own identifier (request_approval, get_record_or_404, list_records, persist).
THEOREM TypeCorrect == Spec => []TypeOK
  BY Invariance, PTL DEF Inv

\* Whatever the interleaving of handlers, failed statements and restarts, the row of a
\* request is one that a handler working alone could have stored (persist).
THEOREM RowsAreCoherent == Spec => []RowIsCoherent
PROOF
<1>1. Inv => RowIsCoherent
  BY CopiesTyped DEF Inv, CopiesOK, Sound, Coherent, RowIsCoherent
<1>2. QED
  BY <1>1, Invariance, PTL

\* A request reads approved only if as many approve calls as its risk requires passed
\* the pending check (approve_request).
THEOREM ApprovalNeedsQuorum == Spec => []ApprovedByQuorum
PROOF
<1>1. Inv => ApprovedByQuorum
  <2> SUFFICES ASSUME Inv, NEW id \in Requests, NEW r \in row[id], r.status = "approved"
               PROVE  votes[id] >= ApproversRequired(r)
    BY DEF ApprovedByQuorum
  <2>1. r \in ApprovalRecords /\ r.id = id /\ Sound(r)
    BY CopiesTyped DEF Inv, CopiesOK
  <2>2. votes[id] \in Nat /\ r.received \in Nat
    BY <2>1, StoreAssumption DEF Inv, TypeOK, ApprovalRecords
  <2>3. r.received = ApproversRequired(r) /\ r.received <= votes[id]
    BY <2>1 DEF Sound, Coherent
  <2>4. QED
    BY <2>2, <2>3
<1>2. QED
  BY <1>1, Invariance, PTL

-----------------------------------------------------------------------------
\* Every step but a creation carries its copies over; a creation adds a fresh one.
LEMMA CarriedOrNew ==
  ASSUME Inv, [Next]_vars
  PROVE  \A c \in Copies' : \/ \E b \in Copies : Made(c, b)
                            \/ row[c.id] = {}
PROOF
<1>1. ASSUME NEW t \in Tasks, NEW id \in Requests, NEW risk \in Risks,
             RequestApproval(t, id, risk), NEW c \in Copies'
      PROVE  \/ \E b \in Copies : Made(c, b)
             \/ row[c.id] = {}
  <2> DEFINE new == NewRecord(id, risk, now)
  <2>1. new.id = id /\ row[id] = {}
    BY <1>1 DEF NewRecord, RequestApproval, InUse
  <2>2. \A u \in Tasks : \A d \in task'[u].copies : d = new \/ d \in task[u].copies
    BY <1>1 DEF RequestApproval, Inv, TypeOK
  <2>3. row' = row
    BY <1>1 DEF RequestApproval
  <2>4. c = new \/ c \in Copies
    <3> HIDE DEF new
    <3> QED BY <2>2, <2>3 DEF Copies
  <2>5. QED
    BY <2>1, <2>4 DEF Made
<1>2. CASE UNCHANGED vars
  BY <1>2 DEF vars, Copies, Made
<1>3. ASSUME NEW t \in Tasks, Client(t) \/ Resume(t),
             ~ \E id \in Requests, risk \in Risks : RequestApproval(t, id, risk)
      PROVE  Carried
  BY <1>3, FetchRecordInv, FetchListInv, RefreshListInv, RefreshAndAnswerInv,
     RefreshAndApproveInv, RefreshAndRejectInv, SaveInv, StatementFailsInv
     DEF Client, Resume
<1>4. QED
  BY <1>1, <1>2, <1>3, RestartInv, TickInv DEF Next, Carried

\* No step deletes a row.
LEMMA RowsStay ==
  ASSUME Inv, [Next]_vars, NEW id \in Requests, row[id] # {}
  PROVE  row'[id] # {}
PROOF
<1>1. CASE UNCHANGED row
  BY <1>1
<1>2. ASSUME NEW c \in Copies, Upsert(c) PROVE row'[id] # {}
  <2>1. row' = [row EXCEPT ![c.id] = {c}] /\ row \in [Requests -> SUBSET ApprovalRecords]
    BY <1>2, UpsertIsCopy DEF Inv, TypeOK
  <2>2. QED
    BY <2>1
<1>3. UNCHANGED row \/ \E t \in Tasks : \E c \in task[t].copies : Upsert(c)
  BY DEF Next, vars, Client, Resume, RequestApproval, FetchRecord, FetchList, RefreshList,
         RefreshAndAnswer, RefreshAndApprove, RefreshAndReject, Save, StatementFails,
         Restart, Tick
<1>4. QED
  BY <1>1, <1>2, <1>3, CopiesTyped DEF Inv

\* A resolved copy is carried over as it is, so that a request every copy agrees on
\* stays resolved for ever: only a pending copy undoes a decision (get_record_or_404).
THEOREM SettledForEver == Spec => SettledIsFinal
PROOF
<1>1. ASSUME Inv, [Next]_vars, NEW id \in Requests, NEW s \in Statuses \ {"pending"},
             SettledAs(id, s)
      PROVE  SettledAs(id, s)'
  <2>1. Inv'
    BY <1>1, NextInv
  <2>2. row[id] # {} /\ row'[id] # {}
    BY <1>1, RowsStay DEF SettledAs
  <2>3. \A b \in Copies : b.id = id => b.status = s
    BY <1>1, CopiesTyped DEF Inv, SettledAs, InFlight, Copies
  <2>4. ASSUME NEW c \in Copies', c.id = id PROVE c.status = s
    <3>1. PICK b \in Copies : Made(c, b)
      BY <1>1, <2>2, <2>4, CarriedOrNew
    <3>2. b \in ApprovalRecords /\ now \in Nat
      BY StoreAssumption, <1>1, CopiesTyped DEF Inv, TypeOK
    <3>3. b.id = id
      <4>1. c \in {b, MaybeExpire(b, now), Rejected(b, now), Approved(b, now)}
        BY <3>1 DEF Made
      <4>2. QED
        BY <2>4, <3>2, <4>1, RecordSteps DEF Twin
    <3>4. b.status = s /\ b.status # "pending"
      BY <2>3, <3>3
    <3>5. c = b
      BY <3>1, <3>4 DEF Made, MaybeExpire, Decidable
    <3>6. QED
      BY <3>4, <3>5
  <2>5. \A c \in row'[id] : c \in Copies' /\ c.id = id
    BY <2>1 DEF Inv, TypeOK, Copies
  <2>6. \A c \in InFlight(id)' : c \in Copies' /\ c.id = id
    BY <2>1 DEF Inv, TypeOK, TaskStates, Copies, InFlight
  <2>7. QED
    BY <2>2, <2>4, <2>5, <2>6 DEF SettledAs
<1>2. Inv /\ [Next]_vars => [SettledStays]_vars
  BY <1>1 DEF SettledStays
<1>3. QED
  BY <1>2, Invariance, PTL DEF Spec, SettledIsFinal

-----------------------------------------------------------------------------
(* The requests of one process: ApprovalLocal.                                 *)

\* A stored record is undecided and short of approvals, or decided in time.
InTime(r) ==
  /\ r.created <= clock
  /\ r.status = "pending" => r.received < ApproversRequired(r)
  /\ r.status \in {"approved", "rejected"} => r.resolved <= Deadline(r)
  /\ r.status = "expired" => r.resolved > Deadline(r)

LocalInv == LocalTypeOK /\ \A id \in Requests : \A r \in requests[id] : InTime(r)

\* What a step leaves of one record: itself, or its expiry, or a decision on a
\* record that was pending and in time.
Left(r, s) ==
  \/ s = r
  \/ s = MaybeExpire(r, clock)
  \/ MaybeExpire(r, clock) = r /\ Decidable(r) /\ s \in {Approved(r, clock), Rejected(r, clock)}

-----------------------------------------------------------------------------
LEMMA NewIsInTime ==
  ASSUME NEW id \in Requests, NEW risk \in Risks, clock \in Nat
  PROVE  /\ NewRecord(id, risk, clock) \in ApprovalRecords
         /\ NewRecord(id, risk, clock).id = id
         /\ NewRecord(id, risk, clock).status = "pending"
         /\ NewRecord(id, risk, clock).received = 0
         /\ ApproversRequired(NewRecord(id, risk, clock)) \in {1, 2}
         /\ InTime(NewRecord(id, risk, clock))
  BY WindowAssumption DEF NewRecord, ApprovalRecords, Statuses, Risks, InTime, ApproversRequired

\* A record the expiry leaves pending is in time.
LEMMA KeptIsInTime ==
  ASSUME NEW r \in ApprovalRecords, clock \in Nat, MaybeExpire(r, clock) = r, Decidable(r)
  PROVE  clock <= Deadline(r)
PROOF
<1>1. Deadline(r) \in Nat
  BY WindowAssumption DEF Deadline, ApprovalRecords
<1>2. clock > Deadline(r) => MaybeExpire(r, clock).status = "expired"
  BY DEF MaybeExpire, Decidable, ApprovalRecords
<1>3. QED
  BY <1>1, <1>2 DEF Decidable

\* The steps on one record keep its type and identifier, and verdicts in time.
LEMMA LeftIsInTime ==
  ASSUME NEW r \in ApprovalRecords, NEW s, Left(r, s), InTime(r), clock \in Nat
  PROVE  s \in ApprovalRecords /\ s.id = r.id /\ InTime(s)
PROOF
<1> USE WindowAssumption
        DEF InTime, ApprovalRecords, Statuses, Risks, Deadline, ApproversRequired, NotResolved
<1>1. CASE s = MaybeExpire(r, clock)
  BY <1>1 DEF MaybeExpire
<1>2. CASE r = MaybeExpire(r, clock) /\ Decidable(r) /\ s = Rejected(r, clock)
  BY <1>2, KeptIsInTime DEF Decidable, Rejected
<1>3. CASE r = MaybeExpire(r, clock) /\ Decidable(r) /\ s = Approved(r, clock)
  <2>1. clock <= Deadline(r)
    BY <1>3, KeptIsInTime
  <2> DEFINE counted == [r EXCEPT !.received = @ + 1]
  <2>2. /\ counted \in ApprovalRecords /\ counted.id = r.id /\ counted.status = "pending"
        /\ counted.created = r.created /\ counted.risk = r.risk
    BY <1>3 DEF Decidable
  <2>3. CASE counted.received >= ApproversRequired(counted)
    <3>1. s = [counted EXCEPT !.status = "approved", !.resolved = clock]
      BY <1>3, <2>3 DEF Approved
    <3> HIDE DEF counted
    <3>2. QED
      BY <2>1, <2>2, <3>1
  <2>4. CASE ~(counted.received >= ApproversRequired(counted))
    <3>1. s = counted
      BY <1>3, <2>4 DEF Approved
    <3> HIDE DEF counted
    <3>2. QED
      BY <2>2, <2>4, <3>1
  <2>5. QED
    BY <2>3, <2>4
<1>4. QED
  BY <1>1, <1>2, <1>3 DEF Left

\* The records of one request, before and after their expiry.
LEMMA OneRecord ==
  ASSUME LocalInv, NEW id \in Requests
  PROVE  /\ \/ requests[id] = {} /\ Expired(id) = {}
            \/ \E r \in requests[id] : /\ r \in ApprovalRecords /\ r.id = id
                                       /\ requests[id] = {r}
                                       /\ Expired(id) = {MaybeExpire(r, clock)}
         /\ \A r \in Expired(id) : Decidable(r) =>
              /\ r \in ApprovalRecords /\ requests[id] = {r}
              /\ MaybeExpire(r, clock) = r
PROOF
<1>1. /\ requests[id] \subseteq ApprovalRecords
      /\ \A r, s \in requests[id] : r.id = id /\ r = s
  BY DEF LocalInv, LocalTypeOK
<1>2. \A r \in ApprovalRecords : Decidable(MaybeExpire(r, clock)) => MaybeExpire(r, clock) = r
  BY DEF Decidable, MaybeExpire, ApprovalRecords
<1>3. QED
  BY <1>1, <1>2 DEF Expired

\* A step that leaves of every record what a handler may, and opens fresh ones.
LEMMA LeftInv ==
  ASSUME LocalInv, requests' \in [Requests -> SUBSET ApprovalRecords], UNCHANGED clock,
         \A id \in Requests : \/ requests'[id] = {}
                              \/ \E r \in requests[id] : \E s : Left(r, s) /\ requests'[id] = {s}
                              \/ \E risk \in Risks : requests'[id] = {NewRecord(id, risk, clock)}
  PROVE  LocalInv'
PROOF
<1>1. clock \in Nat
  BY LocalAssumption DEF LocalInv, LocalTypeOK
<1>2. ASSUME NEW id \in Requests, NEW s \in requests'[id]
      PROVE  s.id = id /\ requests'[id] = {s} /\ InTime(s)
  <2>1. ASSUME NEW r \in requests[id], Left(r, s) PROVE s.id = id /\ InTime(s)
    BY <1>1, <2>1, LeftIsInTime DEF LocalInv, LocalTypeOK
  <2>2. QED
    BY <1>1, <1>2, <2>1, NewIsInTime
<1>3. \A s : InTime(s)' <=> InTime(s)
  BY DEF InTime
<1>4. QED
  BY <1>2, <1>3 DEF LocalInv, LocalTypeOK

\* What a step does to one request.
Moved(id, records) ==
  \/ records = {}
  \/ \E r \in requests[id] : \E s : Left(r, s) /\ records = {s}
  \/ \E risk \in Risks : records = {NewRecord(id, risk, clock)}

LEMMA MovedTyped ==
  ASSUME LocalInv, NEW id \in Requests, NEW records, Moved(id, records)
  PROVE  records \subseteq ApprovalRecords
PROOF
<1>1. clock \in Nat /\ \A r \in requests[id] : r \in ApprovalRecords /\ InTime(r)
  BY LocalAssumption DEF LocalInv, LocalTypeOK
<1>2. QED
  BY <1>1, LeftIsInTime, NewIsInTime DEF Moved

LEMMA NextMoves ==
  ASSUME LocalInv, LocalNext, UNCHANGED clock
  PROVE  /\ requests' = [id \in Requests |-> requests'[id]]
         /\ \A id \in Requests : Moved(id, requests'[id])
PROOF
<1>1. requests = [id \in Requests |-> requests[id]] /\ clock \in Nat
  BY LocalAssumption DEF LocalInv, LocalTypeOK
<1>2. \A id \in Requests : Moved(id, requests[id]) /\ Moved(id, Expired(id))
  BY OneRecord DEF Moved, Left
<1>3. ASSUME NEW id \in Requests, NEW records, Moved(id, records),
             requests' = [requests EXCEPT ![id] = records]
      PROVE  /\ requests' = [other \in Requests |-> requests'[other]]
             /\ \A other \in Requests : Moved(other, requests'[other])
  BY <1>1, <1>2, <1>3
<1>4. ASSUME NEW id \in Requests, NEW risk \in Risks
      PROVE  Moved(id, {NewRecord(id, risk, clock)})
  BY DEF Moved
<1>5. ASSUME NEW id \in Requests, NEW r \in Expired(id), Decidable(r)
      PROVE  Moved(id, {Approved(r, clock)}) /\ Moved(id, {Rejected(r, clock)})
  BY <1>5, OneRecord DEF Moved, Left
<1>6. CASE List
  BY <1>2, <1>6 DEF List
<1>7. CASE LocalRestart
  BY <1>7 DEF LocalRestart, Moved
<1>8. CASE LocalTick
  BY <1>1, <1>8 DEF LocalTick
<1>9. QED
  BY <1>2, <1>3, <1>4, <1>5, <1>6, <1>7, <1>8
     DEF LocalNext, LocalRequestApproval, Read, ApproveRequest, RejectRequest

LEMMA LocalNextInv == LocalInv /\ [LocalNext]_localVars => LocalInv'
PROOF
<1> SUFFICES ASSUME LocalInv, [LocalNext]_localVars PROVE LocalInv'
  OBVIOUS
<1>1. CASE UNCHANGED localVars
  BY <1>1 DEF localVars, LocalInv, LocalTypeOK, InTime
<1>2. CASE LocalTick
  BY <1>2, LocalAssumption DEF LocalTick, LocalInv, LocalTypeOK, InTime, ApprovalRecords
<1>3. CASE LocalNext /\ UNCHANGED clock
  <2>1. requests' \in [Requests -> SUBSET ApprovalRecords]
    BY <1>3, NextMoves, MovedTyped
  <2>2. QED
    BY <1>3, <2>1, NextMoves, LeftInv DEF Moved
<1>4. QED
  BY <1>1, <1>2, <1>3
     DEF LocalNext, LocalRequestApproval, Read, ApproveRequest, RejectRequest, List, LocalRestart

THEOREM LocalInvariance == LocalSpec => []LocalInv
PROOF
<1>1. LocalInit => LocalInv
  BY LocalAssumption DEF LocalInit, LocalInv, LocalTypeOK
<1>2. QED
  BY <1>1, LocalNextInv, PTL DEF LocalSpec

\* An approval or a rejection is never after the deadline, an expiry never before it
\* (maybe_expire, approve_request, reject_request).
THEOREM VerdictsAreInTime == LocalSpec => []DecidedInTime
PROOF
<1>1. LocalInv => DecidedInTime
  BY DEF LocalInv, InTime, DecidedInTime
<1>2. QED
  BY <1>1, LocalInvariance, PTL

-----------------------------------------------------------------------------
\* The view of the ledger on one record, and on a change of one request.
LEMMA View ==
  /\ VerdictOf({}) = "absent" /\ GivenOf({}) = 0 /\ NeededOf({}) = 0
  /\ \A r : /\ VerdictOf({r}) = r.status
            /\ GivenOf({r}) = r.received
            /\ NeededOf({r}) = ApproversRequired(r)
PROOF
<1>1. \A r : Only({r}) = r
  BY DEF Only
<1>2. QED
  BY <1>1 DEF VerdictOf, GivenOf, NeededOf

LEMMA ViewChanges ==
  ASSUME LocalInv, NEW id \in Requests, NEW records, requests' = [requests EXCEPT ![id] = records]
  PROVE  /\ [o \in Requests |-> VerdictOf(requests[o])]'
              = [[o \in Requests |-> VerdictOf(requests[o])] EXCEPT ![id] = VerdictOf(records)]
         /\ [o \in Requests |-> GivenOf(requests[o])]'
              = [[o \in Requests |-> GivenOf(requests[o])] EXCEPT ![id] = GivenOf(records)]
         /\ [o \in Requests |-> NeededOf(requests[o])]'
              = [[o \in Requests |-> NeededOf(requests[o])] EXCEPT ![id] = NeededOf(records)]
         /\ GivenOf(records) = GivenOf(requests[id]) =>
              UNCHANGED [o \in Requests |-> GivenOf(requests[o])]
         /\ NeededOf(records) = NeededOf(requests[id]) =>
              UNCHANGED [o \in Requests |-> NeededOf(requests[o])]
  BY DEF LocalInv, LocalTypeOK

\* What expiry does to the view: nothing, or it turns pending into expired.
LEMMA ExpiryView ==
  ASSUME LocalInv, NEW id \in Requests
  PROVE  /\ GivenOf(Expired(id)) = GivenOf(requests[id])
         /\ NeededOf(Expired(id)) = NeededOf(requests[id])
         /\ \/ VerdictOf(Expired(id)) = VerdictOf(requests[id])
            \/ VerdictOf(requests[id]) = "pending" /\ VerdictOf(Expired(id)) = "expired"
PROOF
<1>1. CASE Expired(id) = requests[id]
  BY <1>1
<1>2. ASSUME NEW r \in ApprovalRecords, requests[id] = {r}, Expired(id) = {MaybeExpire(r, clock)},
             r # MaybeExpire(r, clock)
      PROVE  /\ GivenOf(Expired(id)) = GivenOf(requests[id])
             /\ NeededOf(Expired(id)) = NeededOf(requests[id])
             /\ VerdictOf(requests[id]) = "pending" /\ VerdictOf(Expired(id)) = "expired"
  <2> DEFINE e == MaybeExpire(r, clock)
  <2>1. /\ r.status = "pending" /\ e.status = "expired"
        /\ e.received = r.received /\ e.risk = r.risk
    BY <1>2 DEF MaybeExpire, ApprovalRecords
  <2>2. ApproversRequired(e) = ApproversRequired(r)
    BY <2>1 DEF ApproversRequired
  <2> HIDE DEF e
  <2>3. QED
    BY <1>2, <2>1, <2>2, View DEF e
<1>3. CASE Expired(id) # requests[id]
  <2>1. PICK r \in requests[id] : /\ r \in ApprovalRecords /\ requests[id] = {r}
                                  /\ Expired(id) = {MaybeExpire(r, clock)}
    BY <1>3, OneRecord
  <2>2. r # MaybeExpire(r, clock)
    BY <1>3, <2>1
  <2>3. QED
    BY <1>2, <2>1, <2>2
<1>4. QED
  BY <1>1, <1>3

-----------------------------------------------------------------------------
\* The steps of the service as steps of the ledger.
LEMMA OpenStep ==
  ASSUME LocalInv, NEW id \in Requests, NEW risk \in Risks, LocalRequestApproval(id, risk)
  PROVE  Ledger!Open(id, 1) \/ Ledger!Open(id, 2)
PROOF
<1> DEFINE new == NewRecord(id, risk, clock)
<1>1. clock \in Nat /\ requests[id] = {} /\ requests' = [requests EXCEPT ![id] = {new}]
  BY LocalAssumption DEF LocalRequestApproval, LocalInv, LocalTypeOK
<1>2. new.status = "pending" /\ new.received = 0 /\ ApproversRequired(new) \in {1, 2}
  BY <1>1, NewIsInTime
<1> HIDE DEF new
<1>3. /\ VerdictOf(requests[id]) = "absent" /\ VerdictOf({new}) = "pending"
      /\ NeededOf({new}) \in {1, 2}
  BY <1>1, <1>2, View
<1>4. GivenOf({new}) = GivenOf(requests[id])
  BY <1>1, <1>2, View
<1>5. /\ UNCHANGED [o \in Requests |-> GivenOf(requests[o])]
      /\ [o \in Requests |-> VerdictOf(requests[o])]'
           = [[o \in Requests |-> VerdictOf(requests[o])] EXCEPT ![id] = VerdictOf({new})]
      /\ [o \in Requests |-> NeededOf(requests[o])]'
           = [[o \in Requests |-> NeededOf(requests[o])] EXCEPT ![id] = NeededOf({new})]
  BY <1>1, <1>4, ViewChanges
<1>6. [o \in Requests |-> VerdictOf(requests[o])][id] = "absent"
  BY <1>3
<1>7. Ledger!Open(id, NeededOf({new}))
  BY <1>3, <1>5, <1>6 DEF Ledger!Open
<1>8. QED
  BY <1>3, <1>7

LEMMA LapseStep ==
  ASSUME LocalInv, NEW ids \in SUBSET Requests,
         requests' = [id \in Requests |-> IF id \in ids THEN Expired(id) ELSE requests[id]]
  PROVE  \E overdue \in SUBSET Requests : Ledger!Lapse(overdue)
PROOF
<1> DEFINE overdue == {id \in ids : VerdictOf(Expired(id)) # VerdictOf(requests[id])}
<1>1. \A id \in Requests :
        /\ GivenOf(requests'[id]) = GivenOf(requests[id])
        /\ NeededOf(requests'[id]) = NeededOf(requests[id])
        /\ VerdictOf(requests'[id]) =
             IF id \in overdue THEN "expired" ELSE VerdictOf(requests[id])
        /\ id \in overdue => VerdictOf(requests[id]) = "pending"
  BY ExpiryView
<1>2. overdue \in SUBSET Requests
  OBVIOUS
<1> HIDE DEF overdue
<1>3. Ledger!Lapse(overdue)
  BY <1>1, <1>2 DEF Ledger!Lapse
<1>4. QED
  BY <1>2, <1>3

LEMMA ApproveStep ==
  ASSUME LocalInv, NEW id \in Requests, ApproveRequest(id)
  PROVE  Ledger!Approve(id)
PROOF
<1>1. PICK r \in Expired(id) :
        Decidable(r) /\ requests' = [requests EXCEPT ![id] = {Approved(r, clock)}]
  BY DEF ApproveRequest
<1>2. r \in ApprovalRecords /\ requests[id] = {r}
  BY <1>1, OneRecord
<1> DEFINE a == Approved(r, clock)
           counted == [r EXCEPT !.received = @ + 1]
<1>3. /\ counted \in ApprovalRecords /\ counted.received = r.received + 1
      /\ counted.status = r.status
      /\ ApproversRequired(counted) = ApproversRequired(r)
  BY <1>2 DEF ApprovalRecords, ApproversRequired
<1>4. a = IF counted.received >= ApproversRequired(counted)
          THEN [counted EXCEPT !.status = "approved", !.resolved = clock]
          ELSE counted
  BY DEF Approved
<1> HIDE DEF counted, a
<1>5. /\ a.received = r.received + 1
      /\ ApproversRequired(a) = ApproversRequired(r)
      /\ a.status = IF r.received + 1 >= ApproversRequired(r) THEN "approved" ELSE r.status
  BY <1>3, <1>4 DEF ApprovalRecords, ApproversRequired
<1>6. requests' = [requests EXCEPT ![id] = {a}] /\ r.status = "pending"
  BY <1>1 DEF a, Decidable
<1>7. /\ VerdictOf(requests[id]) = "pending"
      /\ VerdictOf({a}) = (IF GivenOf(requests[id]) + 1 >= NeededOf(requests[id])
                           THEN "approved" ELSE VerdictOf(requests[id]))
      /\ GivenOf({a}) = GivenOf(requests[id]) + 1
      /\ NeededOf({a}) = NeededOf(requests[id])
  BY <1>2, <1>5, <1>6, View
<1>8. /\ UNCHANGED [o \in Requests |-> NeededOf(requests[o])]
      /\ [o \in Requests |-> VerdictOf(requests[o])]'
           = [[o \in Requests |-> VerdictOf(requests[o])] EXCEPT ![id] = VerdictOf({a})]
      /\ [o \in Requests |-> GivenOf(requests[o])]'
           = [[o \in Requests |-> GivenOf(requests[o])] EXCEPT ![id] = GivenOf({a})]
  BY <1>6, <1>7, ViewChanges
<1>9. /\ [o \in Requests |-> VerdictOf(requests[o])][id] = VerdictOf(requests[id])
      /\ [o \in Requests |-> GivenOf(requests[o])][id] = GivenOf(requests[id])
      /\ [o \in Requests |-> NeededOf(requests[o])][id] = NeededOf(requests[id])
  OBVIOUS
<1>10. QED
  BY <1>7, <1>8, <1>9 DEF Ledger!Approve

LEMMA RejectStep ==
  ASSUME LocalInv, NEW id \in Requests, RejectRequest(id)
  PROVE  Ledger!Close(id, "rejected")
PROOF
<1>1. PICK r \in Expired(id) :
        Decidable(r) /\ requests' = [requests EXCEPT ![id] = {Rejected(r, clock)}]
  BY DEF RejectRequest
<1>2. r \in ApprovalRecords /\ requests[id] = {r}
  BY <1>1, OneRecord
<1> DEFINE d == Rejected(r, clock)
<1>3. /\ d.status = "rejected" /\ d.received = r.received /\ d.risk = r.risk
  BY <1>2 DEF Rejected, ApprovalRecords
<1>4. requests' = [requests EXCEPT ![id] = {d}] /\ r.status = "pending"
  BY <1>1 DEF Decidable
<1> HIDE DEF d
<1>5. /\ VerdictOf(requests[id]) = "pending" /\ VerdictOf({d}) = "rejected"
      /\ GivenOf({d}) = GivenOf(requests[id]) /\ NeededOf({d}) = NeededOf(requests[id])
  BY <1>2, <1>3, <1>4, View DEF ApproversRequired
<1>6. /\ UNCHANGED [o \in Requests |-> GivenOf(requests[o])]
      /\ UNCHANGED [o \in Requests |-> NeededOf(requests[o])]
      /\ [o \in Requests |-> VerdictOf(requests[o])]'
           = [[o \in Requests |-> VerdictOf(requests[o])] EXCEPT ![id] = VerdictOf({d})]
  BY <1>4, <1>5, ViewChanges
<1>7. [o \in Requests |-> VerdictOf(requests[o])][id] = "pending"
  BY <1>5
<1>8. QED
  BY <1>5, <1>6, <1>7 DEF Ledger!Close

LEMMA StepRefines == LocalInv /\ [LocalNext]_localVars => [Ledger!Next]_(Ledger!ledger)
PROOF
<1> SUFFICES ASSUME LocalInv, [LocalNext]_localVars PROVE [Ledger!Next]_(Ledger!ledger)
  OBVIOUS
<1>1. ASSUME NEW id \in Requests, NEW risk \in Risks, LocalRequestApproval(id, risk)
      PROVE  Ledger!Next
  BY <1>1, OpenStep DEF Ledger!Next
<1>2. ASSUME NEW id \in Requests, Read(id) PROVE Ledger!Next
  <2>1. requests' = [o \in Requests |-> IF o \in {id} THEN Expired(o) ELSE requests[o]]
    BY <1>2 DEF Read, LocalInv, LocalTypeOK
  <2>2. QED
    BY <2>1, LapseStep DEF Ledger!Next
<1>3. CASE List
  <2>1. requests' = [o \in Requests |-> IF o \in Requests THEN Expired(o) ELSE requests[o]]
    BY <1>3 DEF List
  <2>2. QED
    BY <2>1, LapseStep DEF Ledger!Next
<1>4. ASSUME NEW id \in Requests, ApproveRequest(id) PROVE Ledger!Next
  BY <1>4, ApproveStep DEF Ledger!Next
<1>5. ASSUME NEW id \in Requests, RejectRequest(id) PROVE Ledger!Next
  BY <1>5, RejectStep DEF Ledger!Next
<1>6. CASE LocalRestart
  <2>1. Ledger!Forget
    BY <1>6, View DEF LocalRestart, Ledger!Forget
  <2>2. QED
    BY <2>1 DEF Ledger!Next
<1>7. CASE UNCHANGED requests
  BY <1>7 DEF Ledger!ledger
<1>8. QED
  BY <1>1, <1>2, <1>3, <1>4, <1>5, <1>6, <1>7 DEF LocalNext, LocalTick, localVars

\* The service without rows keeps the promise of the ledger: a request is decided once,
\* by as many approvals as its risk requires, and never reopened (approve_request,
\* reject_request, maybe_expire).
THEOREM LocalImplementsLedger == LocalSpec => ImplementsLedger
PROOF
<1>1. LocalInit => Ledger!Init
  BY View DEF LocalInit, Ledger!Init
<1>2. QED
  BY <1>1, StepRefines, LocalInvariance, PTL DEF LocalSpec, ImplementsLedger, Ledger!Spec

-----------------------------------------------------------------------------
\* Whichever mode the service is started in, it is the store and the in-process
\* service, one of which does nothing: all that holds of either holds of it.
THEOREM ServiceIsEitherMode == ServiceSpec => Spec /\ LocalSpec
PROOF
<1>1. ServiceInit => Init /\ LocalInit
  BY DEF ServiceInit
<1>2. [ServiceNext]_serviceVars => [Next]_vars /\ [LocalNext]_localVars
  BY DEF ServiceNext, serviceVars
<1>3. QED
  BY <1>1, <1>2, PTL DEF ServiceSpec, Spec, LocalSpec
=============================================================================
