--------------------------- MODULE ApprovalStore ----------------------------
(***************************************************************************)
(* cortex-approval with DATABASE_URL set: the requests are rows of         *)
(* PostgreSQL, and every handler is a coroutine that is suspended at each  *)
(* statement it sends.  A handler reads the row, expires its own copy,     *)
(* upserts that copy even when it only came to read (get_record_or_404,    *)
(* list_records), and an approval or a rejection upserts once more.  Other *)
(* handlers run at every suspension; the upsert carries no version check.  *)
(*                                                                         *)
(* One step of a task is the code from one await to the next, its SQL      *)
(* statement included.                                                     *)
(***************************************************************************)
EXTENDS ApprovalRecord

CONSTANTS Tasks,        \* concurrent HTTP requests
          MaxTime,      \* bound of the clock
          MaxCalls      \* bound of the approve calls on one request

ASSUME StoreAssumption == MaxTime \in Nat /\ MaxCalls \in Nat

VARIABLES row,          \* row[id]: the set holding the row of id, or {}
          task,         \* task[t]: [pc, op, copies], the copies it will upsert
          now,          \* time.time()
          votes,        \* history: approve calls on id that passed the 409 check
          acked         \* history: those of the calls that were answered with 200

vars == <<row, task, now, votes, acked>>

Ops == {"create", "get", "list", "approve", "reject"}
Idle == [pc |-> "idle", op |-> "get", copies |-> {}]
TaskStates ==
  [pc : {"idle", "refresh", "save"}, op : Ops, copies : SUBSET ApprovalRecords]

Init ==
  /\ row = [id \in Requests |-> {}]
  /\ task = [t \in Tasks |-> Idle]
  /\ now = 0
  /\ votes = [id \in Requests |-> 0]
  /\ acked = [id \in Requests |-> 0]

InUse(id) == row[id] # {} \/ \E t \in Tasks : \E c \in task[t].copies : c.id = id

\* Mutant: a plain INSERT.
InsertOnly(copy) == row' = [row EXCEPT ![copy.id] = @ \cup {copy}]

\* persist(): INSERT ... ON CONFLICT (request_id) DO UPDATE.  The update takes
\* the tally, the status and resolved_at of the copy, and keeps the columns that
\* are not in its list (risk_level, created_at, deadline_ts, approvers_required).
Upsert(copy) ==
  row' = [row EXCEPT ![copy.id] =
            IF @ = {} THEN {copy}
            ELSE {[old EXCEPT !.received = copy.received, !.status = copy.status,
                              !.resolved = copy.resolved] : old \in @}]

\* request_approval up to the INSERT: the identifier is fresh (uuid4).
RequestApproval(t, id, risk) ==
  /\ task[t] = Idle
  /\ ~InUse(id)
  /\ task' = [task EXCEPT ![t] = [pc |-> "save", op |-> "create",
                                  copies |-> {NewRecord(id, risk, now)}]]
  /\ UNCHANGED <<row, now, votes, acked>>

\* get_record_or_404 up to its persist: SELECT, then maybe_expire on the copy.
\* A missing row is answered with 404 and changes nothing.
FetchRecord(t, op, id) ==
  /\ task[t] = Idle
  /\ row[id] # {}
  /\ task' = [task EXCEPT ![t] = [pc |-> "refresh", op |-> op,
                                  copies |-> {MaybeExpire(r, now) : r \in row[id]}]]
  /\ UNCHANGED <<row, now, votes, acked>>

\* list_records up to the first persist of its loop: one SELECT of every row, or
\* of the rows whose stored status is the one asked for.
FetchList(t, wanted) ==
  LET rows == {r \in UNION {row[id] : id \in Requests} : r.status \in wanted}
  IN  /\ task[t] = Idle
      /\ rows # {}
      /\ task' = [task EXCEPT ![t] = [pc |-> "refresh", op |-> "list",
                                      copies |-> {MaybeExpire(r, now) : r \in rows}]]
      /\ UNCHANGED <<row, now, votes, acked>>

Remaining(t, c) ==
  IF task[t].copies = {c} THEN Idle ELSE [task[t] EXCEPT !.copies = @ \ {c}]

\* The persist inside list_records' loop: newest request first.
RefreshList(t) ==
  /\ task[t].pc = "refresh" /\ task[t].op = "list"
  /\ \E c \in task[t].copies :
       /\ \A other \in task[t].copies : other.created <= c.created
       /\ Upsert(c)
       /\ task' = [task EXCEPT ![t] = Remaining(t, c)]
  /\ UNCHANGED <<now, votes, acked>>

\* The persist at the end of get_record_or_404 when the handler then answers: a
\* read, or a decision on a copy that is not pending (409).
RefreshAndAnswer(t) ==
  /\ task[t].pc = "refresh" /\ task[t].op # "list"
  /\ \E c \in task[t].copies :
       /\ task[t].op # "get" => ~Decidable(c)
       /\ Upsert(c)
  /\ task' = [task EXCEPT ![t] = Idle]
  /\ UNCHANGED <<now, votes, acked>>

\* The same persist, then approve_request up to its own persist.
RefreshAndApprove(t) ==
  /\ task[t].pc = "refresh" /\ task[t].op = "approve"
  /\ \E c \in task[t].copies :
       /\ Decidable(c)
       /\ votes[c.id] < MaxCalls
       /\ Upsert(c)
       /\ task' = [task EXCEPT ![t] = [pc |-> "save", op |-> "approve",
                                       copies |-> {Approved(c, now)}]]
       /\ votes' = [votes EXCEPT ![c.id] = @ + 1]
  /\ UNCHANGED <<now, acked>>

\* The same persist, then reject_request up to its own persist.
RefreshAndReject(t) ==
  /\ task[t].pc = "refresh" /\ task[t].op = "reject"
  /\ \E c \in task[t].copies :
       /\ Decidable(c)
       /\ Upsert(c)
       /\ task' = [task EXCEPT ![t] = [pc |-> "save", op |-> "reject",
                                       copies |-> {Rejected(c, now)}]]
  /\ UNCHANGED <<now, votes, acked>>

\* The last persist of request_approval, approve_request and reject_request, and
\* the answer 200.
Save(t) ==
  /\ task[t].pc = "save"
  /\ \E c \in task[t].copies :
       /\ Upsert(c)
       /\ acked' = [acked EXCEPT ![c.id] = @ + (IF task[t].op = "approve" THEN 1 ELSE 0)]
  /\ task' = [task EXCEPT ![t] = Idle]
  /\ UNCHANGED <<now, votes>>

\* A statement fails, before or after PostgreSQL applied it (the answer can be
\* lost): the handler ends with 500.
StatementFails(t) ==
  /\ task[t].pc # "idle"
  /\ UNCHANGED row \/ \E c \in task[t].copies : Upsert(c)
  /\ task' = [task EXCEPT ![t] = Idle]
  /\ UNCHANGED <<now, votes, acked>>

\* The process stops and starts again: every handler is gone, the rows stay.
Restart ==
  /\ \E t \in Tasks : task[t] # Idle
  /\ task' = [t \in Tasks |-> Idle]
  /\ UNCHANGED <<row, now, votes, acked>>

Tick ==
  /\ now < MaxTime
  /\ now' = now + 1
  /\ UNCHANGED <<row, task, votes, acked>>

Client(t) ==
  \/ \E id \in Requests, risk \in Risks : RequestApproval(t, id, risk)
  \/ \E id \in Requests, op \in {"get", "approve", "reject"} : FetchRecord(t, op, id)
  \/ \E wanted \in {{s} : s \in Statuses} \cup {Statuses} : FetchList(t, wanted)

Resume(t) ==
  \/ RefreshList(t)
  \/ RefreshAndAnswer(t)
  \/ RefreshAndApprove(t)
  \/ RefreshAndReject(t)
  \/ Save(t)
  \/ StatementFails(t)

Next ==
  \/ \E t \in Tasks : Client(t) \/ Resume(t)
  \/ Restart
  \/ Tick

Spec == Init /\ [][Next]_vars

-----------------------------------------------------------------------------
InFlight(id) == {c \in UNION {task[t].copies : t \in Tasks} : c.id = id}

TypeOK ==
  /\ row \in [Requests -> SUBSET ApprovalRecords]
  /\ \A id \in Requests : \A r, s \in row[id] : r.id = id /\ r = s
  /\ task \in [Tasks -> TaskStates]
  /\ now \in 0..MaxTime
  /\ votes \in [Requests -> 0..MaxCalls]
  /\ acked \in [Requests -> Nat]

\* A request reads approved only if as many approve calls as its risk requires
\* passed the pending check: updates are lost and overwritten here, but stale
\* copies never add up to an approval nobody gave (approve_request, persist).
ApprovedByQuorum ==
  \A id \in Requests : \A r \in row[id] :
    r.status = "approved" => votes[id] >= ApproversRequired(r)

\* Whatever the interleaving, a stored request is one of the states a single
\* handler could have left: undecided with approvals missing, approved by exactly
\* the number required, expired strictly after its deadline.
RowIsCoherent ==
  \A id \in Requests : \A r \in row[id] :
    /\ r.status = "pending" => r.received < ApproversRequired(r) /\ r.resolved = NotResolved
    /\ r.status = "approved" => r.received = ApproversRequired(r)
    /\ r.status = "expired" => r.resolved > Deadline(r)
    /\ r.status # "pending" => r.resolved >= r.created

\* A request is settled as s when it is resolved so and every copy of it still held
\* by a handler says the same.
SettledAs(id, s) ==
  /\ row[id] # {}
  /\ \A c \in row[id] \cup InFlight(id) : c.status = s

SettledStays ==
  \A id \in Requests, s \in Statuses \ {"pending"} : SettledAs(id, s) => SettledAs(id, s)'

\* Once settled, a request keeps its resolution for ever, across every handler,
\* failed statement and restart: only a handler that read the row while it was
\* still pending (get_record_or_404, list_records) can undo a decision.
SettledIsFinal == [][SettledStays]_vars

\* What the 409 of approve and reject promises: a resolved request stays so.
ResolvedIsFinal ==
  [][\A id \in Requests : \A r \in row[id] :
       r.status # "pending" => \A s \in row'[id] : s.status = r.status]_vars

\* Two approve calls answered with 200 on a request that nobody rejected and that
\* has not expired have decided it.
AnsweredApprovalsCount ==
  \A id \in Requests : \A r \in row[id] :
    InFlight(id) = {} /\ acked[id] >= ApproversRequired(r) => r.status # "pending"
=============================================================================
