------------------------------- MODULE Outbox -------------------------------
(***************************************************************************)
(* What a durable outbox promises its producers: a record is in it once    *)
(* its put has returned and stays in, and it is marked sent at most once,  *)
(* never unmarked.                                                         *)
(***************************************************************************)
CONSTANTS Records

VARIABLES accepted,     \* the records whose put has returned
          kept,         \* the records the outbox holds
          sent          \* those of them marked sent

Init == accepted = {} /\ kept = {} /\ sent = {}

Put(id) ==
  /\ id \notin kept
  /\ accepted' = accepted \cup {id}
  /\ kept' = kept \cup {id}
  /\ UNCHANGED sent

MarkSent(id) ==
  /\ id \in kept \ sent
  /\ sent' = sent \cup {id}
  /\ UNCHANGED <<accepted, kept>>

Next == \E id \in Records : Put(id) \/ MarkSent(id)

Spec == Init /\ [][Next]_<<accepted, kept, sent>>
=============================================================================
