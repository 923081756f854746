--------------------------- MODULE ApprovalRecord ---------------------------
(***************************************************************************)
(* The approval request of cortex-approval and the pure steps its handlers *)
(* take on one: creation, expiry, one approval, one rejection.  Both modes *)
(* of the service (rows in PostgreSQL, records in the process) are built   *)
(* from these operators.                                                   *)
(*                                                                         *)
(* Abstracted: the plan, the actions, the comments and the envelope of a   *)
(* request, which no handler reads back.  Seconds are ticks of an integer  *)
(* clock; deadline_ts is created_at plus the window of the risk level.     *)
(***************************************************************************)
EXTENDS Integers

CONSTANTS Requests,     \* request identifiers (uuid4)
          Window4,      \* minutes to decide a request of risk 4 (30 in the code)
          Window5       \* minutes to decide a request of risk 5 (15 in the code)

ASSUME WindowAssumption == Window4 \in Nat /\ Window5 \in Nat

NotResolved == -1       \* resolved_at is None

Risks == 4..5
Statuses == {"pending", "approved", "rejected", "expired"}

ApprovalRecords ==
  [id : Requests, risk : Risks, created : Nat, received : Nat,
   status : Statuses, resolved : Nat \cup {NotResolved}]

Deadline(record) ==
  record.created + (IF record.risk >= 5 THEN Window5 ELSE Window4)

ApproversRequired(record) == IF record.risk >= 5 THEN 2 ELSE 1

NewRecord(id, risk, now) ==
  [id |-> id, risk |-> risk, created |-> now, received |-> 0,
   status |-> "pending", resolved |-> NotResolved]

\* Mutant: expires in the last second allowed.
MaybeExpireEarly(record, now) ==
  IF record.status = "pending" /\ now >= Deadline(record)
  THEN [record EXCEPT !.status = "expired", !.resolved = now]
  ELSE record

MaybeExpire(record, now) ==
  IF record.status = "pending" /\ now > Deadline(record)
  THEN [record EXCEPT !.status = "expired", !.resolved = now]
  ELSE record

\* Mutant: counts the approval twice when it compares with the number required.
ApprovedTooSoon(record, now) ==
  LET counted == [record EXCEPT !.received = @ + 1]
  IN  IF counted.received + 1 >= ApproversRequired(counted)
      THEN [counted EXCEPT !.status = "approved", !.resolved = now]
      ELSE counted

\* approve_request after its 409 check: one more approval, and the status
\* changes with the approval that completes the number required.
Approved(record, now) ==
  LET counted == [record EXCEPT !.received = @ + 1]
  IN  IF counted.received >= ApproversRequired(counted)
      THEN [counted EXCEPT !.status = "approved", !.resolved = now]
      ELSE counted

\* reject_request after its 409 check.
Rejected(record, now) ==
  [record EXCEPT !.status = "rejected", !.resolved = now]

\* Mutant: the 409 check refuses only what was rejected.
DecidableUnlessRejected(record) == record.status # "rejected"

\* The check of approve_request and reject_request: anything else is a 409.
Decidable(record) == record.status = "pending"
=============================================================================
