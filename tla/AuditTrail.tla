------------------------------ MODULE AuditTrail -----------------------------
(***************************************************************************)
(* cortex-audit.  With a database a handler stamps its event and is        *)
(* suspended until the row is in, for want of a connection of the pool or  *)
(* in the INSERT, so that rows come in another order than their stamps;    *)
(* without one it appends to a list and does not suspend.  The token of    *)
(* the internal callers, the signature and the fields of an event nobody   *)
(* filters by are left out; the count told with a database, which is       *)
(* always 0, too.                                                          *)
(***************************************************************************)
EXTENDS Integers, FiniteSets

CONSTANTS AuditEvents,   \* the events written: functions of the fields one may filter by
          Filters,       \* the filters asked for: functions of some of those fields
          Limits,        \* how many events a list may be asked for
          AuditModes     \* with a database (TRUE) or without (FALSE)

ASSUME AuditTrailAssumption == Limits \subseteq 1..200 /\ AuditModes \subseteq BOOLEAN

VARIABLES pooled,    \* db_pool: DATABASE_URL was set when it started, and asyncpg there
          stamps,    \* how many events were stamped: a stamp stands for the uuid, too
          inserting, \* events stamped whose INSERT is under way
          trail,     \* the list, or the rows of audit_events
          recorded   \* history: the events answered "recorded" that were to last until now

auditVars == <<pooled, stamps, inserting, trail, recorded>>

AuditInit ==
  /\ pooled \in AuditModes
  /\ stamps = 0 /\ inserting = {} /\ trail = {} /\ recorded = {}

\* write_event up to its first await, if it has one.
WriteEvent(e) ==
  LET payload == [says |-> e, at |-> stamps + 1]
  IN  /\ stamps' = stamps + 1
      /\ IF pooled
         THEN inserting' = inserting \cup {payload} /\ UNCHANGED <<trail, recorded>>
         ELSE /\ trail' = trail \cup {payload}
              /\ recorded' = recorded \cup {payload}
              /\ UNCHANGED inserting
      /\ UNCHANGED pooled

\* The row is in, and the event answered.
Inserted(payload) ==
  /\ inserting' = inserting \ {payload}
  /\ trail' = trail \cup {payload}
  /\ recorded' = recorded \cup {payload}
  /\ UNCHANGED <<pooled, stamps>>

\* The statement fails, before or after PostgreSQL applied it: 500.
InsertFails(payload) ==
  /\ inserting' = inserting \ {payload}
  /\ trail' \in {trail, trail \cup {payload}}
  /\ UNCHANGED <<pooled, stamps, recorded>>

\* The process is restarted; the rows of its last statements may have been applied.
RestartAudit ==
  /\ inserting' = {}
  /\ IF pooled
     THEN (\E rows \in SUBSET inserting : trail' = trail \cup rows) /\ UNCHANGED recorded
     ELSE trail' = {} /\ recorded' = {}
  /\ UNCHANGED <<pooled, stamps>>

\* list_events: the newest of those every filter lets through.
LetThrough(rows, filter) ==
  {r \in rows : \A field \in DOMAIN filter : r.says[field] = filter[field]}
Listed(filter, limit) ==
  LET rows == LetThrough(trail, filter)
  IN  {r \in rows : Cardinality({newer \in rows : newer.at > r.at}) < limit}

\* get_event
Got(at) == {r \in trail : r.at = at}

\* An event answered is found by its id, and nothing else is; a list with room for every
\* event its filters let through shows it, in whatever order the rows came in.
TrailHolds ==
  \A r \in recorded :
    /\ Got(r.at) = {r}
    /\ \A filter \in Filters, limit \in Limits :
         r \in LetThrough({r}, filter) /\ Cardinality(LetThrough(trail, filter)) <= limit =>
           r \in Listed(filter, limit)
=============================================================================
