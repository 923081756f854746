--------------------------- MODULE ApprovalLedger ---------------------------
(***************************************************************************)
(* What an approval workflow promises, apart from how it is stored: a      *)
(* request is open until the approvals its risk requires are given, it is  *)
(* refused or it lapses, and from then on it does not change.  A request   *)
(* may be forgotten (the in-process mode keeps nothing over a restart) but *)
(* never reopened or decided twice.                                        *)
(***************************************************************************)
EXTENDS Integers

CONSTANTS Requests

VARIABLES verdict,      \* verdict[id]: the state of the request
          given,        \* given[id]: the approvals it has collected
          needed        \* needed[id]: the approvals it requires

ledger == <<verdict, given, needed>>

Init ==
  /\ verdict = [id \in Requests |-> "absent"]
  /\ given = [id \in Requests |-> 0]
  /\ needed = [id \in Requests |-> 0]

Open(id, n) ==
  /\ verdict[id] = "absent"
  /\ verdict' = [verdict EXCEPT ![id] = "pending"]
  /\ needed' = [needed EXCEPT ![id] = n]
  /\ UNCHANGED given

Approve(id) ==
  /\ verdict[id] = "pending"
  /\ given' = [given EXCEPT ![id] = @ + 1]
  /\ verdict' = [verdict EXCEPT ![id] = IF given[id] + 1 >= needed[id] THEN "approved" ELSE @]
  /\ UNCHANGED needed

Close(id, s) ==
  /\ verdict[id] = "pending"
  /\ verdict' = [verdict EXCEPT ![id] = s]
  /\ UNCHANGED <<given, needed>>

\* One reading of the list may find several requests overdue.
Lapse(ids) ==
  /\ \A id \in ids : verdict[id] = "pending"
  /\ verdict' = [id \in Requests |-> IF id \in ids THEN "expired" ELSE verdict[id]]
  /\ UNCHANGED <<given, needed>>

Forget ==
  /\ verdict' = [id \in Requests |-> "absent"]
  /\ given' = [id \in Requests |-> 0]
  /\ needed' = [id \in Requests |-> 0]

Next ==
  \/ \E id \in Requests : Open(id, 1) \/ Open(id, 2) \/ Approve(id) \/ Close(id, "rejected")
  \/ \E ids \in SUBSET Requests : Lapse(ids)
  \/ Forget

Spec == Init /\ [][Next]_ledger
=============================================================================
