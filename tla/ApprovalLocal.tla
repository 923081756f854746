--------------------------- MODULE ApprovalLocal ----------------------------
(***************************************************************************)
(* cortex-approval without DATABASE_URL: the requests are records of one   *)
(* process.  persist() and get_record_or_404() never suspend in this mode, *)
(* so a handler is one step of the event loop, and it changes the stored   *)
(* record itself rather than a copy.  No task of the service looks at      *)
(* deadlines, and it keeps no approver.                                    *)
(***************************************************************************)
EXTENDS ApprovalRecord

CONSTANTS MaxClock      \* bound of the clock

ASSUME LocalAssumption == MaxClock \in Nat

VARIABLES requests,     \* requests[id]: the set holding the record of id, or {}
          clock         \* time.time()

localVars == <<requests, clock>>

LocalInit ==
  /\ requests = [id \in Requests |-> {}]
  /\ clock = 0

\* Mutant: the handlers do not expire what they read.
NotExpired(id) == requests[id]

Expired(id) == {MaybeExpire(r, clock) : r \in requests[id]}

LocalRequestApproval(id, risk) ==
  /\ requests[id] = {}
  /\ requests' = [requests EXCEPT ![id] = {NewRecord(id, risk, clock)}]
  /\ UNCHANGED clock

\* get_approval, and approve_request or reject_request answered with 409: the
\* record is left expired if its deadline has passed.
Read(id) ==
  /\ requests' = [requests EXCEPT ![id] = Expired(id)]
  /\ UNCHANGED clock

\* list_records expires every record before it filters and sorts them.
List ==
  /\ requests' = [id \in Requests |-> Expired(id)]
  /\ UNCHANGED clock

ApproveRequest(id) ==
  /\ \E r \in Expired(id) :
       /\ Decidable(r)
       /\ requests' = [requests EXCEPT ![id] = {Approved(r, clock)}]
  /\ UNCHANGED clock

RejectRequest(id) ==
  /\ \E r \in Expired(id) :
       /\ Decidable(r)
       /\ requests' = [requests EXCEPT ![id] = {Rejected(r, clock)}]
  /\ UNCHANGED clock

\* The process stops and starts again with no requests.
LocalRestart ==
  /\ requests' = [id \in Requests |-> {}]
  /\ UNCHANGED clock

LocalTick ==
  /\ clock < MaxClock
  /\ clock' = clock + 1
  /\ UNCHANGED requests

LocalNext ==
  \/ \E id \in Requests : \/ \E risk \in Risks : LocalRequestApproval(id, risk)
                          \/ Read(id)
                          \/ ApproveRequest(id)
                          \/ RejectRequest(id)
  \/ List \/ LocalRestart \/ LocalTick

LocalSpec == LocalInit /\ [][LocalNext]_localVars

-----------------------------------------------------------------------------
LocalTypeOK ==
  /\ requests \in [Requests -> SUBSET ApprovalRecords]
  /\ \A id \in Requests : \A r, s \in requests[id] : r.id = id /\ r = s
  /\ clock \in 0..MaxClock

\* A verdict falls inside the time allowed for it: an approval or a rejection not
\* after the deadline, an expiry only after it.
DecidedInTime ==
  \A id \in Requests : \A r \in requests[id] :
    /\ r.status \in {"approved", "rejected"} => r.resolved <= Deadline(r)
    /\ r.status = "expired" => r.resolved > Deadline(r)

\* The service in this mode keeps the promise of the ledger.
Only(records) == CHOOSE r \in records : TRUE
VerdictOf(records) == IF records = {} THEN "absent" ELSE Only(records).status
GivenOf(records) == IF records = {} THEN 0 ELSE Only(records).received
NeededOf(records) == IF records = {} THEN 0 ELSE ApproversRequired(Only(records))

Ledger == INSTANCE ApprovalLedger WITH
  verdict <- [id \in Requests |-> VerdictOf(requests[id])],
  given   <- [id \in Requests |-> GivenOf(requests[id])],
  needed  <- [id \in Requests |-> NeededOf(requests[id])]

ImplementsLedger == Ledger!Spec
=============================================================================
