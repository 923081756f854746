------------------------- MODULE ControlRoomProofs -------------------------
(***************************************************************************)
(* What a service has answered it holds, a dashboard shows the sessions    *)
(* that were valid while it was made, a decision follows its anomaly, weak *)
(* signals that accumulate are not missed, and no one irregular event      *)
(* raises a suspicion that counts: for any requests and any load.          *)
(***************************************************************************)
EXTENDS ControlRoom, FiniteSetTheorems, SequenceTheorems, WellFoundedInduction, TLAPS

Queues == {"sentinel", "meta"}

\* The queues of the gateway and the places told.
QueuesInv ==
  /\ events = [kind \in Queues |-> events[kind]]
  /\ \A kind \in Queues : events[kind] \in Seq(Posts)
  /\ posting = [p \in Posts |-> posting[p]]
  /\ depth = [p \in Posts |-> depth[p]]

ServicesInv == QueuesInv /\ ServicesHold

\* cortex-auth: a token of the present key names a session that is kept.
KeysInv ==
  /\ key \in Nat
  /\ tokens \in Seq([claims : Requests, key : Nat])
  /\ \A i \in DOMAIN tokens : tokens[i].key <= key
  /\ \A i \in DOMAIN tokens : tokens[i].key = key => tokens[i].claims.session \in DOMAIN sessions
  /\ IsFiniteSet(DOMAIN sessions)

\* The dashboard: the sessions held are valid, and cortex-auth counted at least them.
HeldInv ==
  /\ ~asking => got = Nobody
  /\ held \subseteq ValidSessions
  /\ "auth" \in DOMAIN got =>
       \/ got["auth"] = {}
       \/ \E a : got["auth"] = {a} /\ a.active \in Nat /\ Cardinality(held) <= a.active

SessionsInv == KeysInv /\ HeldInv /\ SessionsAreShown

-----------------------------------------------------------------------------
LEMMA KindIsQueue ==
  ASSUME NEW p
  PROVE  Kind(p) \in Queues
BY DEF Kind, Queues

\* A job saved is in the store, and the jobs that were there still are.
LEMMA SavedKeeps ==
  ASSUME NEW id, NEW source
  PROVE  DOMAIN Saved(id, source) = DOMAIN db \cup {id}
BY DEF Saved, Put

LEMMA ServicesStart == Init => ServicesInv
<1> SUFFICES ASSUME Init PROVE ServicesInv
  OBVIOUS
<1>1. QueuesInv
  BY DEF Init, ServicesInit, QueuesInv, Queues
<1>2. ServicesHold
  BY DEF Init, ServicesInit, ServicesHold
<1> QED BY <1>1, <1>2 DEF ServicesInv

\* A post takes the last place of its queue and moves none of the others.
LEMMA EnqueueKeeps ==
  ASSUME ServicesInv, NEW p \in Posts, Enqueue(p)
  PROVE  ServicesInv'
<1> USE KindIsQueue DEF Queues
<1>1. events[Kind(p)] \in Seq(Posts)
  BY DEF ServicesInv, QueuesInv
<1>2. events' = [events EXCEPT ![Kind(p)] = Append(events[Kind(p)], p)]
  BY DEF Enqueue
<1>3. events'[Kind(p)] = Append(events[Kind(p)], p)
  BY <1>2 DEF ServicesInv, QueuesInv
<1>4. depth'[p] = Len(events[Kind(p)]) + 1 /\ depth' = [q \in Posts |-> depth'[q]]
  <2>1. depth = [q \in Posts |-> depth[q]]
    BY DEF ServicesInv, QueuesInv
  <2>2. depth' = [depth EXCEPT ![p] = Len(events'[Kind(p)])]
    BY DEF Enqueue
  <2>3. Len(events'[Kind(p)]) = Len(events[Kind(p)]) + 1
    BY <1>1, <1>3
  <2> QED BY <2>1, <2>2, <2>3
<1>5. QueuesInv'
  <2>1. events' = [kind \in Queues |-> events'[kind]]
    BY <1>2 DEF ServicesInv, QueuesInv
  <2>2. ASSUME NEW kind \in Queues PROVE events'[kind] \in Seq(Posts)
    <3>1. CASE kind = Kind(p)
      BY <1>1, <1>3, <3>1
    <3>2. CASE kind # Kind(p)
      BY <1>2, <3>2 DEF ServicesInv, QueuesInv
    <3> QED BY <3>1, <3>2
  <2>3. posting' = [q \in Posts |-> posting'[q]]
    BY DEF Enqueue, ServicesInv, QueuesInv
  <2> QED BY <1>4, <2>1, <2>2, <2>3 DEF QueuesInv
<1>6. ASSUME NEW q \in Posts, posting'[q] \in {"queued", "answered"}
      PROVE  depth'[q] \in DOMAIN events'[Kind(q)] /\ events'[Kind(q)][depth'[q]] = q
  <2>1. CASE q = p
    BY <1>1, <1>3, <1>4, <2>1
  <2>2. CASE q # p
    <3>1. depth'[q] = depth[q] /\ posting'[q] = posting[q]
      BY <2>2 DEF Enqueue, ServicesInv, QueuesInv
    <3>2. depth[q] \in DOMAIN events[Kind(q)] /\ events[Kind(q)][depth[q]] = q
      BY <1>6, <3>1 DEF ServicesInv, ServicesHold
    <3>3. CASE Kind(q) = Kind(p)
      BY <1>1, <1>3, <3>1, <3>2, <3>3
    <3>4. CASE Kind(q) # Kind(p)
      BY <1>2, <3>1, <3>2, <3>4 DEF ServicesInv, QueuesInv
    <3> QED BY <3>3, <3>4
  <2> QED BY <2>1, <2>2
<1>7. promised' \subseteq DOMAIN db'
  BY DEF Enqueue, authVars, syncVars, ServicesInv, ServicesHold
<1> QED BY <1>5, <1>6, <1>7 DEF ServicesInv, ServicesHold

LEMMA InServicesHold ==
  ASSUME ServicesInv, InServices
  PROVE  ServicesInv'
<1> USE DEF ServicesInv
<1>1. CASE \E q \in Requests : IssueToken(q)
  BY <1>1 DEF IssueToken, syncVars, gatewayVars, QueuesInv, ServicesHold
<1>2. CASE ExpireOldest
  BY <1>2 DEF ExpireOldest, syncVars, gatewayVars, QueuesInv, ServicesHold
<1>3. CASE RestartAuth
  BY <1>3 DEF RestartAuth, syncVars, gatewayVars, QueuesInv, ServicesHold
<1>4. CASE \E m \in Modes, o \in Sources : QueueSync(m, o) \/ QueueSyncFails(m, o)
  <2>1. QueuesInv'
    BY <1>4 DEF QueueSync, QueueSyncFails, gatewayVars, QueuesInv
  <2>2. promised' \subseteq DOMAIN db'
    <3> PICK m \in Modes, o \in Sources : QueueSync(m, o) \/ QueueSyncFails(m, o)
      BY <1>4
    <3>1. DOMAIN Saved(JobId(m), o) = DOMAIN db \cup {JobId(m)}
      BY SavedKeeps
    <3>2. promised \subseteq DOMAIN db
      BY DEF ServicesHold
    <3>3. CASE QueueSync(m, o)
      BY <3>1, <3>2, <3>3 DEF QueueSync
    <3>4. CASE QueueSyncFails(m, o)
      <4>1. promised' = promised /\ (db' = db \/ db' = Saved(JobId(m), o))
        BY <3>4 DEF QueueSyncFails
      <4> QED BY <3>1, <3>2, <4>1
    <3> QED BY <3>3, <3>4
  <2> QED BY <1>4, <2>1, <2>2 DEF QueueSync, QueueSyncFails, gatewayVars, ServicesHold
<1>5. CASE ClockAdvances
  BY <1>5 DEF ClockAdvances, gatewayVars, QueuesInv, ServicesHold
<1>6. CASE RestartSync
  BY <1>6 DEF RestartSync, gatewayVars, QueuesInv, ServicesHold
<1>7. CASE \E p \in Posts : Enqueue(p)
  BY <1>7, EnqueueKeeps
<1>8. CASE \E p \in Posts : AuditAndAnswer(p)
  <2> PICK p \in Posts : AuditAndAnswer(p)
    BY <1>8
  <2>1. QueuesInv'
    BY DEF AuditAndAnswer, QueuesInv
  <2>2. \A q \in Posts : posting'[q] \in {"queued", "answered"} => posting[q] \in {"queued", "answered"}
    BY DEF AuditAndAnswer, QueuesInv
  <2> QED BY <2>1, <2>2 DEF AuditAndAnswer, syncVars, ServicesHold
<1>9. CASE RestartGateway
  <2>1. QueuesInv'
    BY <1>9 DEF RestartGateway, QueuesInv, Queues
  <2>2. \A p \in Posts : posting'[p] \notin {"queued", "answered"}
    BY <1>9 DEF RestartGateway
  <2> QED BY <1>9, <2>1, <2>2 DEF RestartGateway, syncVars, ServicesHold
<1> QED BY <1>1, <1>2, <1>3, <1>4, <1>5, <1>6, <1>7, <1>8, <1>9 DEF InServices

LEMMA ServicesStep ==
  ASSUME ServicesInv, [Next]_vars
  PROVE  ServicesInv'
<1>1. CASE InServices
  BY <1>1, InServicesHold
<1>2. CASE UNCHANGED svcVars
  BY <1>2 DEF svcVars, ServicesInv, QueuesInv, ServicesHold
<1>3. InServices \/ UNCHANGED svcVars
  BY DEF Next, Ask, Unavailable, Answer, Fetch, vars
<1> QED BY <1>1, <1>2, <1>3

-----------------------------------------------------------------------------
\* The campaign memory.  An index holds under a key nothing but what was told of it, and
\* all of that which is not too old; a key without events is not there.
IndexInv(index, field) ==
  \A k : /\ Entry(index, k) \subseteq ToldOf(field, k)
         /\ Within(ToldOf(field, k), "90d") \subseteq Entry(index, k)

CampaignInv ==
  /\ today \in Int
  /\ \A e \in told : e.at \in Int
  /\ IndexInv(byIdentity, "identity")
  /\ IndexInv(byPath, "path")
  /\ IndexInv(byFamily, "family")

LEMMA WindowsNested ==
  /\ Windows["90d"] = 90
  /\ \A w \in DOMAIN Windows : Windows[w] \in Int /\ Windows[w] <= 90
BY DEF Windows

LEMMA CampaignStart == Init => CampaignInv
<1> SUFFICES ASSUME Init PROVE CampaignInv
  OBVIOUS
<1>1. today = 0 /\ told = {} /\ \A k : Entry(byIdentity, k) = {} /\ Entry(byPath, k) = {}
                                       /\ Entry(byFamily, k) = {}
  BY DEF Init, AdvisorsInit, NoKeys, Entry
<1> QED BY <1>1 DEF CampaignInv, IndexInv, ToldOf, Within

\* An event is put under its key, and what is too old goes from every key.
LEMMA EntryOfIndexed ==
  ASSUME NEW index, NEW kk, NEW e, NEW k
  PROVE  Entry(Pruned(Indexed(index, kk, e)), k)
           = Within(Entry(index, k) \cup IF k = kk THEN {e} ELSE {}, "90d")
<1> DEFINE longer == Indexed(index, kk, e)
<1>1. /\ DOMAIN longer = DOMAIN index \cup {kk}
      /\ \A x \in DOMAIN longer : longer[x] = Entry(index, x) \cup IF x = kk THEN {e} ELSE {}
  BY DEF Indexed
<1>2. Entry(longer, k) = Entry(index, k) \cup IF k = kk THEN {e} ELSE {}
  BY <1>1 DEF Entry
<1> HIDE DEF longer
<1>3. Entry(Pruned(longer), k) = Within(Entry(longer, k), "90d")
  <2>1. /\ DOMAIN Pruned(longer) = {x \in DOMAIN longer : Within(longer[x], "90d") # {}}
        /\ \A x \in DOMAIN Pruned(longer) : Pruned(longer)[x] = Within(longer[x], "90d")
    BY DEF Pruned
  <2>2. Within({}, "90d") = {}
    BY DEF Within
  <2> QED BY <2>1, <2>2 DEF Entry
<1> QED BY <1>2, <1>3 DEF longer

LEMMA IndexKeeps ==
  ASSUME NEW index, NEW field, NEW later, NEW e, IndexInv(index, field),
         later = Pruned(Indexed(index, e.print[field], e)),
         told' = told \cup {e}, today' = today
  PROVE  \A k : /\ Entry(later, k) \subseteq ToldOf(field, k)'
                /\ Within(ToldOf(field, k), "90d")' \subseteq Entry(later, k)
<1> SUFFICES ASSUME NEW k
             PROVE  /\ Entry(later, k) \subseteq ToldOf(field, k)'
                    /\ Within(ToldOf(field, k), "90d")' \subseteq Entry(later, k)
  OBVIOUS
<1>1. Entry(later, k)
        = Within(Entry(index, k) \cup IF k = e.print[field] THEN {e} ELSE {}, "90d")
  BY EntryOfIndexed
<1>2. ToldOf(field, k)' = ToldOf(field, k) \cup IF k = e.print[field] THEN {e} ELSE {}
  BY DEF ToldOf
<1>3. /\ Entry(index, k) \subseteq ToldOf(field, k)
      /\ Within(ToldOf(field, k), "90d") \subseteq Entry(index, k)
  BY DEF IndexInv
<1> QED BY <1>1, <1>2, <1>3 DEF Within

LEMMA StoreEventKeeps ==
  ASSUME CampaignInv, NEW f \in Fingerprints, NEW age \in Ages, StoreEvent(f, age)
  PROVE  CampaignInv'
<1> PICK e : e = Event(f, today - age)
  OBVIOUS
<1>1. e.print = f /\ e.at = today - age
  BY DEF Event
<1>2. /\ byIdentity' = Pruned(Indexed(byIdentity, e.print.identity, e))
      /\ byPath' = Pruned(Indexed(byPath, e.print.path, e))
      /\ byFamily' = Pruned(Indexed(byFamily, e.print.family, e))
      /\ told' = told \cup {e} /\ today' = today
  BY <1>1 DEF StoreEvent
<1>3. \A k : /\ Entry(byIdentity, k)' = Entry(byIdentity', k)
             /\ Entry(byPath, k)' = Entry(byPath', k)
             /\ Entry(byFamily, k)' = Entry(byFamily', k)
  BY DEF Entry
<1>4. \A k : /\ Entry(byIdentity', k) \subseteq ToldOf("identity", k)'
             /\ Within(ToldOf("identity", k), "90d")' \subseteq Entry(byIdentity', k)
  BY <1>2, IndexKeeps DEF CampaignInv
<1>5. \A k : /\ Entry(byPath', k) \subseteq ToldOf("path", k)'
             /\ Within(ToldOf("path", k), "90d")' \subseteq Entry(byPath', k)
  BY <1>2, IndexKeeps DEF CampaignInv
<1>6. \A k : /\ Entry(byFamily', k) \subseteq ToldOf("family", k)'
             /\ Within(ToldOf("family", k), "90d")' \subseteq Entry(byFamily', k)
  BY <1>2, IndexKeeps DEF CampaignInv
<1>7. IndexInv(byIdentity, "identity")' /\ IndexInv(byPath, "path")' /\ IndexInv(byFamily, "family")'
  BY <1>3, <1>4, <1>5, <1>6 DEF IndexInv
<1>8. today' \in Int /\ \A d \in told' : d.at \in Int
  BY <1>1, <1>2, AdvisorsAssumption DEF CampaignInv
<1> QED BY <1>7, <1>8 DEF CampaignInv

\* What is not too old tomorrow is not today.
LEMMA DaysPassKeeps ==
  ASSUME CampaignInv, NEW n \in Pauses, DaysPass(n)
  PROVE  CampaignInv'
<1>1. today \in Int /\ n \in Nat /\ today' = today + n /\ told' = told
  BY AdvisorsAssumption DEF DaysPass, CampaignInv
<1>2. ASSUME NEW index, NEW field, IndexInv(index, field)
      PROVE  \A k : /\ Entry(index, k) \subseteq ToldOf(field, k)'
                    /\ Within(ToldOf(field, k), "90d")' \subseteq Entry(index, k)
  <2> SUFFICES ASSUME NEW k, NEW e \in Within(ToldOf(field, k), "90d")'
               PROVE  e \in Within(ToldOf(field, k), "90d")
    BY <1>1, <1>2 DEF IndexInv, ToldOf
  <2>1. e \in ToldOf(field, k) /\ e.at \in Int /\ today' - e.at <= 90
    BY <1>1, WindowsNested DEF Within, ToldOf, CampaignInv
  <2>2. today - e.at <= 90
    BY <1>1, <2>1
  <2> QED BY <2>1, <2>2, WindowsNested DEF Within
<1>3. UNCHANGED <<byIdentity, byPath, byFamily>>
  BY DEF DaysPass
<1>4. IndexInv(byIdentity, "identity")' /\ IndexInv(byPath, "path")' /\ IndexInv(byFamily, "family")'
  BY <1>2, <1>3 DEF CampaignInv, IndexInv
<1> QED BY <1>1, <1>4 DEF CampaignInv

LEMMA CampaignStep ==
  ASSUME CampaignInv, [Next]_vars
  PROVE  CampaignInv'
<1>1. CASE \E f \in Fingerprints, age \in Ages : StoreEvent(f, age)
  BY <1>1, StoreEventKeeps
<1>2. CASE \E n \in Pauses : DaysPass(n)
  BY <1>2, DaysPassKeeps
<1>3. CASE RestartCampaignMemory
  <2>1. /\ told' = {} /\ today' = today
        /\ \A k : /\ Entry(byIdentity, k)' = {} /\ Entry(byPath, k)' = {}
                  /\ Entry(byFamily, k)' = {}
    BY <1>3 DEF RestartCampaignMemory, NoKeys, Entry
  <2> QED BY <2>1 DEF CampaignInv, IndexInv, ToldOf, Within
<1>4. CASE UNCHANGED campaignVars
  BY <1>4 DEF campaignVars, CampaignInv, IndexInv, ToldOf, Within, Entry
<1>5. CASE InAdvisors
  BY <1>1, <1>2, <1>3, <1>4, <1>5
     DEF InAdvisors, IngestConduct, IngestDeed, RestartInsiderDecay, RestartAdminAnomaly
<1>6. CASE UNCHANGED advisorVars
  BY <1>4, <1>6 DEF advisorVars, campaignVars
<1> QED BY <1>5, <1>6 DEF Next, Ask, Unavailable, Answer, Fetch, vars

\* A window looks back ninety days at most.
LEMMA CampaignImplies == CampaignInv => CampaignRemembers
<1> SUFFICES ASSUME CampaignInv PROVE CampaignRemembers
  OBVIOUS
<1>1. ASSUME NEW index, NEW field, IndexInv(index, field), NEW w \in DOMAIN Windows, NEW k
      PROVE  Within(Entry(index, k), w) = Within(ToldOf(field, k), w)
  <2>1. Within(Entry(index, k), w) \subseteq Within(ToldOf(field, k), w)
    BY <1>1 DEF IndexInv, Within
  <2>2. ASSUME NEW e \in Within(ToldOf(field, k), w) PROVE e \in Within(Entry(index, k), w)
    <3>1. /\ e \in ToldOf(field, k) /\ today - e.at <= Windows[w]
          /\ e.at \in Int /\ today \in Int
      BY DEF Within, ToldOf, CampaignInv
    <3>2. today - e.at <= Windows["90d"]
      BY <3>1, WindowsNested
    <3>3. e \in Entry(index, k)
      BY <1>1, <3>1, <3>2 DEF IndexInv, Within
    <3> QED BY <3>1, <3>3 DEF Within
  <2> QED BY <2>1, <2>2
<1>2. ASSUME NEW field \in DOMAIN Index PROVE IndexInv(Index[field], field)
  BY DEF Index, CampaignInv
<1> QED BY <1>1, <1>2 DEF CampaignRemembers

-----------------------------------------------------------------------------
\* The audit trail.  No two events written have the same stamp, and what was recorded is
\* in the trail.
Written == trail \cup inserting

AuditInv ==
  /\ stamps \in Nat
  /\ recorded \subseteq trail
  /\ IsFiniteSet(trail) /\ IsFiniteSet(inserting)
  /\ \A r \in Written : r.at \in 1..stamps
  /\ \A r, s \in Written : r.at = s.at => r = s

LEMMA AuditStart == Init => AuditInv
BY FS_EmptySet DEF Init, AuditInit, AuditInv, Written

LEMMA WriteEventKeeps ==
  ASSUME AuditInv, NEW e \in AuditEvents, WriteEvent(e)
  PROVE  AuditInv'
<1> PICK payload : payload = [says |-> e, at |-> stamps + 1]
  OBVIOUS
<1>1. payload.at = stamps + 1 /\ stamps' = stamps + 1
  BY DEF WriteEvent
<1>2. /\ Written' = Written \cup {payload}
      /\ IsFiniteSet(trail') /\ IsFiniteSet(inserting')
      /\ recorded' \subseteq trail'
  <2>1. CASE pooled
    <3>1. inserting' = inserting \cup {payload} /\ UNCHANGED <<trail, recorded>>
      BY <2>1 DEF WriteEvent
    <3> QED BY <3>1, FS_AddElement DEF AuditInv, Written
  <2>2. CASE ~pooled
    <3>1. /\ trail' = trail \cup {payload} /\ recorded' = recorded \cup {payload}
          /\ UNCHANGED inserting
      BY <2>2 DEF WriteEvent
    <3> QED BY <3>1, FS_AddElement DEF AuditInv, Written
  <2> QED BY <2>1, <2>2
<1>3. \A r \in Written : r.at \in 1..stamps /\ r.at # payload.at
  BY <1>1 DEF AuditInv
<1>4. \A r \in Written' : r.at \in 1..stamps'
  BY <1>1, <1>2, <1>3 DEF AuditInv
<1>5. \A r, s \in Written' : r.at = s.at => r = s
  BY <1>2, <1>3 DEF AuditInv
<1>6. stamps' \in Nat
  BY <1>1 DEF AuditInv
<1> QED BY <1>2, <1>4, <1>5, <1>6 DEF AuditInv

\* No other step writes an event: rows come in, or are lost with the process.
LEMMA FewerKeeps ==
  ASSUME AuditInv, stamps' = stamps, Written' \subseteq Written, recorded' \subseteq trail'
  PROVE  AuditInv'
<1>1. IsFiniteSet(Written)
  BY FS_Union DEF AuditInv, Written
<1>2. IsFiniteSet(trail') /\ IsFiniteSet(inserting')
  BY <1>1, FS_Subset DEF Written
<1> QED BY <1>2 DEF AuditInv

LEMMA AuditStep ==
  ASSUME AuditInv, [Next]_vars
  PROVE  AuditInv'
<1>1. CASE \E e \in AuditEvents : WriteEvent(e)
  BY <1>1, WriteEventKeeps
<1>2. CASE \E payload \in inserting : Inserted(payload) \/ InsertFails(payload)
  BY <1>2, FewerKeeps DEF Inserted, InsertFails, Written, AuditInv
<1>3. CASE RestartAudit
  <2>1. inserting' = {} /\ stamps' = stamps
    BY <1>3 DEF RestartAudit
  <2>2. trail' \subseteq Written /\ recorded' \subseteq trail'
    BY <1>3 DEF RestartAudit, Written, AuditInv
  <2> QED BY <2>1, <2>2, FewerKeeps DEF Written
<1>4. CASE UNCHANGED auditVars
  BY <1>4 DEF auditVars, AuditInv, Written
<1> QED BY <1>1, <1>2, <1>3, <1>4 DEF Next, InAudit, Ask, Unavailable, Answer, Fetch, vars

\* An event among no more than fit a list is not left out by it.
LEMMA AuditImplies == AuditInv => TrailHolds
<1> SUFFICES ASSUME AuditInv, NEW r \in recorded
             PROVE  /\ Got(r.at) = {r}
                    /\ \A filter \in Filters, limit \in Limits :
                         r \in LetThrough({r}, filter)
                           /\ Cardinality(LetThrough(trail, filter)) <= limit =>
                         r \in Listed(filter, limit)
  BY DEF TrailHolds
<1>1. r \in trail
  BY DEF AuditInv
<1>2. Got(r.at) = {r}
  BY <1>1 DEF Got, AuditInv, Written
<1>3. ASSUME NEW filter \in Filters, NEW limit \in Limits, r \in LetThrough({r}, filter),
             Cardinality(LetThrough(trail, filter)) <= limit
      PROVE  r \in Listed(filter, limit)
  <2> DEFINE rows == LetThrough(trail, filter)
             newer == {s \in rows : s.at > r.at}
  <2>1. r \in rows /\ rows \subseteq trail
    BY <1>1, <1>3 DEF LetThrough
  <2>2. IsFiniteSet(rows)
    BY <2>1, FS_Subset DEF AuditInv
  <2>3. r.at \in Nat
    BY <1>1 DEF AuditInv, Written
  <2>4. newer \subseteq rows \ {r}
    BY <2>3
  <2> HIDE DEF rows, newer
  <2>5. Cardinality(rows \ {r}) = Cardinality(rows) - 1 /\ Cardinality(rows) \in Nat
        /\ IsFiniteSet(rows \ {r})
    BY <2>1, <2>2, FS_RemoveElement, FS_CardinalityType
  <2>6. Cardinality(newer) <= Cardinality(rows \ {r}) /\ Cardinality(newer) \in Nat
    BY <2>4, <2>5, FS_Subset, FS_CardinalityType
  <2>7. limit \in Int
    BY AuditTrailAssumption
  <2>8. Cardinality(newer) < limit
    BY <1>3, <2>5, <2>6, <2>7 DEF rows
  <2> QED BY <2>1, <2>8 DEF Listed, rows, newer
<1> QED BY <1>2, <1>3

-----------------------------------------------------------------------------
AnswersInv == ServicesInv /\ CampaignInv /\ AuditInv

\* A service that has answered holds what it answered for: the jobs in the store are
\* never removed while it lasts, a queue only grows at its end until the gateway restarts,
\* a weak signal stays under its keys for ninety days, and an event recorded is the only
\* one of its id (cortex-sync main.go, httpapi/handler.go, store.py, cortex_audit/main.py).
THEOREM AnswersAreHeld == Spec => []AnsweredIsHeld
<1>1. Init => AnswersInv
  BY ServicesStart, CampaignStart, AuditStart DEF AnswersInv
<1>2. AnswersInv /\ [Next]_vars => AnswersInv'
  BY ServicesStep, CampaignStep, AuditStep DEF AnswersInv
<1>3. AnswersInv => AnsweredIsHeld
  BY CampaignImplies, AuditImplies DEF AnswersInv, ServicesInv, AnsweredIsHeld
<1> QED BY <1>1, <1>2, <1>3, PTL DEF Spec

-----------------------------------------------------------------------------
\* Sums over a finite set, by the least counterexample: what a sum of natural numbers comes
\* to is decided one element at a time, and is a natural number.
\* The order of the natural numbers, as a set of pairs.
Less == {pair \in Nat \X Nat : pair[1] < pair[2]}

LEMMA LeastExists ==
  ASSUME NEW T, T \subseteq Nat, T # {}
  PROVE  \E n \in T : \A m \in T : n <= m
<1>1. IsWellFoundedOn(Less, Nat)
  BY NatLessThanWellFounded, Zenon DEF OpToRel, Less
<1>2. PICK n \in T : \A m \in T : <<m, n>> \notin Less
  BY <1>1, WFMin, Zenon
<1>3. ASSUME NEW m \in T PROVE n <= m
  <2>1. m \in Nat /\ n \in Nat
    OBVIOUS
  <2>2. m < n => <<m, n>> \in Less
    BY <2>1 DEF Less
  <2>3. <<m, n>> \notin Less
    BY <1>2
  <2> QED BY <2>1, <2>2, <2>3
<1> QED BY <1>3

\* g adds up v over every subset of s, one element after the other, as MapThenSumSet does.
First(s) == CHOOSE x \in s : TRUE
Adds(g, s, v) ==
  g = [t \in SUBSET s |-> IF t = {} THEN 0 ELSE v[First(t)] + g[t \ {First(t)}]]

LEMMA LessOne ==
  ASSUME NEW s, s # {}, IsFiniteSet(s)
  PROVE  /\ First(s) \in s
         /\ IsFiniteSet(s \ {First(s)})
         /\ Cardinality(s) \in Nat /\ Cardinality(s \ {First(s)}) \in Nat
         /\ Cardinality(s \ {First(s)}) < Cardinality(s)
<1>1. First(s) \in s
  BY DEF First
<1>2. IsFiniteSet(s \ {First(s)}) /\ Cardinality(s \ {First(s)}) = Cardinality(s) - 1
  BY <1>1, FS_RemoveElement
<1>3. Cardinality(s) \in Nat /\ Cardinality(s \ {First(s)}) \in Nat
  BY <1>2, FS_CardinalityType
<1> QED BY <1>1, <1>2, <1>3

LEMMA AddsAgree ==
  ASSUME NEW s, NEW r, NEW v, NEW g, NEW h, Adds(g, s, v), Adds(h, r, v),
         NEW u, u \subseteq s, u \subseteq r, IsFiniteSet(u)
  PROVE  g[u] = h[u]
<1> DEFINE Differ == {n \in Nat : \E t \in SUBSET u : Cardinality(t) = n /\ g[t] # h[t]}
<1>1. SUFFICES ASSUME Differ # {} PROVE FALSE
  <2>1. u \in SUBSET u /\ Cardinality(u) \in Nat
    BY FS_CardinalityType
  <2> QED BY <2>1
<1>2. PICK n \in Differ : \A m \in Differ : n <= m
  <2>1. Differ \subseteq Nat
    OBVIOUS
  <2> HIDE DEF Differ
  <2> QED BY <1>1, <2>1, LeastExists
<1>3. PICK t \in SUBSET u : Cardinality(t) = n /\ g[t] # h[t]
  BY <1>2
<1>4. /\ g[t] = IF t = {} THEN 0 ELSE v[First(t)] + g[t \ {First(t)}]
      /\ h[t] = IF t = {} THEN 0 ELSE v[First(t)] + h[t \ {First(t)}]
  <2>1. t \in SUBSET s /\ t \in SUBSET r
    OBVIOUS
  <2> QED BY <2>1, Zenon DEF Adds
<1>5. t # {}
  BY <1>3, <1>4
<1>6. IsFiniteSet(t)
  BY FS_Subset
<1>7. t \ {First(t)} \in SUBSET u /\ Cardinality(t \ {First(t)}) \in Nat
      /\ Cardinality(t \ {First(t)}) < n /\ n \in Nat
  BY <1>3, <1>5, <1>6, LessOne
<1>8. g[t \ {First(t)}] = h[t \ {First(t)}]
  <2>1. Cardinality(t \ {First(t)}) \notin Differ
    <3>1. n \in Nat /\ \A m \in Differ : m \in Nat /\ n <= m
      BY <1>2
    <3> HIDE DEF Differ
    <3> QED BY <1>7, <3>1
  <2> QED BY <1>7, <2>1
<1> QED BY <1>3, <1>4, <1>5, <1>8

\* Sums over the subsets of u.
Total(u, v) == CHOOSE g : g \in [SUBSET u -> Nat] /\ Adds(g, u, v)

LEMMA AddsExists ==
  ASSUME NEW s, IsFiniteSet(s), NEW v, \A x \in s : v[x] \in Nat
  PROVE  \E g : g \in [SUBSET s -> Nat] /\ Adds(g, s, v)
<1> DEFINE Some(u) == \E g : g \in [SUBSET u -> Nat] /\ Adds(g, u, v)
<1> DEFINE Without == {n \in Nat : \E u \in SUBSET s : Cardinality(u) = n /\ ~Some(u)}
<1>1. SUFFICES ASSUME Without # {} PROVE FALSE
  <2>1. s \in SUBSET s /\ Cardinality(s) \in Nat
    BY FS_CardinalityType
  <2> QED BY <2>1
<1>2. PICK n \in Without : \A m \in Without : n <= m
  <2>1. Without \subseteq Nat
    OBVIOUS
  <2> HIDE DEF Without
  <2> QED BY <1>1, <2>1, LeastExists
<1>3. PICK u \in SUBSET s : Cardinality(u) = n /\ ~Some(u)
  BY <1>2
<1>4. n \in Nat /\ IsFiniteSet(u)
  BY <1>2, FS_Subset
\* Every proper subset has its sums.
<1>5. ASSUME NEW t \in SUBSET u, t # u
      PROVE  IsFiniteSet(t) /\ Total(t, v) \in [SUBSET t -> Nat] /\ Adds(Total(t, v), t, v)
  <2>1. IsFiniteSet(t) /\ Cardinality(t) \in Nat /\ Cardinality(t) < n
    <3>1. IsFiniteSet(t) /\ Cardinality(t) <= Cardinality(u)
      BY <1>4, FS_Subset
    <3>2. Cardinality(t) # Cardinality(u)
      BY <1>4, <1>5, FS_Subset
    <3>3. Cardinality(t) \in Nat /\ Cardinality(u) = n
      BY <3>1, <1>3, FS_CardinalityType
    <3> QED BY <1>4, <3>1, <3>2, <3>3
  <2>2. Cardinality(t) \notin Without
    <3>1. \A m \in Without : m \in Nat /\ n <= m
      BY <1>2
    <3> HIDE DEF Without
    <3> QED BY <1>4, <2>1, <3>1
  <2>3. Some(t)
    <3>1. t \in SUBSET s
      OBVIOUS
    <3> HIDE DEF Some
    <3> QED BY <2>1, <2>2, <3>1
  <2> QED BY <2>1, <2>3, Zenon DEF Total
<1> DEFINE rest(t) == t \ {First(t)}
           g == [t \in SUBSET u |-> IF t = {} THEN 0 ELSE v[First(t)] + Total(rest(t), v)[rest(t)]]
<1>6. ASSUME NEW t \in SUBSET u, t # {}
      PROVE  /\ First(t) \in t /\ v[First(t)] \in Nat
             /\ rest(t) \in SUBSET u /\ rest(t) # u
             /\ Total(rest(t), v)[rest(t)] \in Nat
  <2>1. First(t) \in t
    BY <1>6 DEF First
  <2>2. rest(t) \in SUBSET u /\ rest(t) # u /\ rest(t) \in SUBSET rest(t)
    BY <2>1
  <2>3. Total(rest(t), v)[rest(t)] \in Nat
    <3> DEFINE r == rest(t)
    <3>1. r \in SUBSET u /\ r # u /\ r \in SUBSET r
      BY <2>2, Zenon
    <3> HIDE DEF r
    <3>2. Total(r, v) \in [SUBSET r -> Nat]
      BY <1>5, <3>1
    <3>3. Total(r, v)[r] \in Nat
      BY <3>1, <3>2
    <3> QED BY <3>3, Zenon DEF r
  <2>4. v[First(t)] \in Nat
    BY <2>1
  <2> QED BY <2>1, <2>2, <2>3, <2>4
<1>7. g \in [SUBSET u -> Nat]
  <2>1. ASSUME NEW t \in SUBSET u
        PROVE  (IF t = {} THEN 0 ELSE v[First(t)] + Total(rest(t), v)[rest(t)]) \in Nat
    <3> HIDE DEF rest
    <3> QED BY <1>6
  <2> QED BY <2>1, Zenon
<1>8. ASSUME NEW t \in SUBSET u, t # {}
      PROVE  g[rest(t)] = Total(rest(t), v)[rest(t)]
  <2>1. rest(t) \in SUBSET u /\ rest(t) # u
    BY <1>6, <1>8, Zenon
  <2>2. Adds(Total(rest(t), v), rest(t), v) /\ IsFiniteSet(rest(t))
    <3> HIDE DEF rest
    <3> QED BY <1>5, <2>1
  <2>3. Total(rest(t), v)[rest(t)]
          = IF rest(t) = {} THEN 0
            ELSE v[First(rest(t))] + Total(rest(t), v)[rest(rest(t))]
    <3>1. rest(t) \in SUBSET rest(t)
      OBVIOUS
    <3> QED BY <2>2, <3>1, Zenon DEF Adds
  <2>4. g[rest(t)] = IF rest(t) = {} THEN 0
                     ELSE v[First(rest(t))] + Total(rest(rest(t)), v)[rest(rest(t))]
    <3> DEFINE r == rest(t)
    <3>1. r \in SUBSET u
      BY <2>1, Zenon
    <3> HIDE DEF r
    <3>2. g[r] = IF r = {} THEN 0 ELSE v[First(r)] + Total(rest(r), v)[rest(r)]
      BY <3>1, Zenon
    <3> QED BY <3>2 DEF r
  <2>5. CASE rest(t) = {}
    BY <2>3, <2>4, <2>5
  <2>6. CASE rest(t) # {}
    <3>1. rest(rest(t)) \in SUBSET u /\ rest(rest(t)) # u
      BY <1>6, <2>1, <2>6, Zenon
    <3>2. Adds(Total(rest(rest(t)), v), rest(rest(t)), v) /\ IsFiniteSet(rest(rest(t)))
      <4> HIDE DEF rest
      <4> QED BY <1>5, <3>1
    <3>3. rest(rest(t)) \subseteq rest(t) /\ rest(rest(t)) \subseteq rest(rest(t))
      OBVIOUS
    <3>4. Total(rest(t), v)[rest(rest(t))] = Total(rest(rest(t)), v)[rest(rest(t))]
      <4> HIDE DEF rest
      <4> QED BY <2>2, <3>2, <3>3, AddsAgree
    <3> QED BY <2>3, <2>4, <2>6, <3>4
  <2> QED BY <2>5, <2>6
<1>9. Adds(g, u, v)
  <2>1. ASSUME NEW t \in SUBSET u
        PROVE  (IF t = {} THEN 0 ELSE v[First(t)] + Total(rest(t), v)[rest(t)])
                 = (IF t = {} THEN 0 ELSE v[First(t)] + g[rest(t)])
    BY <1>8, Zenon
  <2>2. g = [t \in SUBSET u |-> IF t = {} THEN 0 ELSE v[First(t)] + g[rest(t)]]
    <3> DEFINE h == [t \in SUBSET u |-> IF t = {} THEN 0 ELSE v[First(t)] + g[rest(t)]]
    <3>1. \A t \in SUBSET u : g[t] = h[t]
      BY <2>1, Zenon
    <3> QED BY <3>1, Zenon
  <2> QED BY <2>2, Zenon DEF Adds
<1> QED BY <1>3, <1>7, <1>9, Zenon

LEMMA SumIsNatural ==
  ASSUME NEW list, IsFiniteSet(list), NEW field, \A e \in list : e.print[field] \in Nat
  PROVE  Sum(list, field) \in Nat
<1> DEFINE v == [e \in list |-> e.print[field]]
           body(g) == [t \in SUBSET list |->
                        IF t = {} THEN 0 ELSE (First(t)).print[field] + g[t \ {First(t)}]]
           iter == CHOOSE g : g = body(g)
<1>1. Sum(list, field) = iter[list]
  BY Zenon DEF Sum, MapThenSumSet, MapThenFoldSet, First
<1>2. \A x \in list : v[x] \in Nat
  OBVIOUS
<1>3. ASSUME NEW g PROVE body(g) = [t \in SUBSET list |-> IF t = {} THEN 0 ELSE v[First(t)] + g[t \ {First(t)}]]
  <2>1. ASSUME NEW t \in SUBSET list
        PROVE  (IF t = {} THEN 0 ELSE (First(t)).print[field] + g[t \ {First(t)}])
                 = (IF t = {} THEN 0 ELSE v[First(t)] + g[t \ {First(t)}])
    <3>1. t # {} => First(t) \in list
      BY DEF First
    <3>2. t # {} => v[First(t)] = (First(t)).print[field]
      BY <3>1, Zenon
    <3> QED BY <3>2, Zenon
  <2> QED BY <2>1, Zenon
<1>4. PICK g : g \in [SUBSET list -> Nat] /\ Adds(g, list, v)
  <2> HIDE DEF v
  <2> QED BY <1>2, AddsExists
<1>5. g = body(g)
  BY <1>3, <1>4, Zenon DEF Adds
<1>6. iter = body(iter)
  <2> HIDE DEF body
  <2> QED BY <1>5, Zenon
<1>7. Adds(iter, list, v)
  BY <1>3, <1>6, Zenon DEF Adds
<1>8. iter[list] = g[list]
  <2> HIDE DEF iter, v
  <2> QED BY <1>4, <1>7, AddsAgree
<1>9. g[list] \in Nat
  BY <1>4
<1> QED BY <1>1, <1>8, <1>9, Zenon

-----------------------------------------------------------------------------
\* What accumulates: the events told are finitely many, of signals the memory may be told.
Summable(list) == IsFiniteSet(list) /\ \A e \in list : e.print \in Fingerprints

AccumulationInv == CampaignInv /\ Summable(told)

LEMMA SummableStep ==
  ASSUME Summable(told), [Next]_vars
  PROVE  Summable(told)'
<1>1. CASE \E f \in Fingerprints, age \in Ages : StoreEvent(f, age)
  <2> PICK f \in Fingerprints, age \in Ages : StoreEvent(f, age)
    BY <1>1
  <2> PICK e : e = Event(f, today - age)
    OBVIOUS
  <2>1. e.print = f
    BY DEF Event
  <2>2. told' = told \cup {e}
    BY DEF StoreEvent
  <2> QED BY <2>1, <2>2, FS_AddElement DEF Summable
<1>2. CASE RestartCampaignMemory
  BY <1>2, FS_EmptySet DEF RestartCampaignMemory, Summable
<1>3. CASE UNCHANGED told
  BY <1>3 DEF Summable
<1>4. CASE InAdvisors
  BY <1>1, <1>2, <1>3, <1>4
     DEF InAdvisors, DaysPass, IngestConduct, IngestDeed, RestartInsiderDecay, RestartAdminAnomaly,
         campaignVars
<1>5. CASE UNCHANGED advisorVars
  BY <1>3, <1>5 DEF advisorVars
<1> QED BY <1>4, <1>5 DEF Next, Ask, Unavailable, Answer, Fetch, vars

\* The figures of a window.
Figures == [count : Nat, weak : Nat, novelty : Nat, anomaly : Nat]

LEMMA RoundedIsNatural ==
  ASSUME NEW n \in Nat, NEW d \in Nat \ {0}
  PROVE  Rounded(100 * n, d) \in Nat
<1> DEFINE x == 2 * (100 * n) + d
           y == 2 * d
<1>1. x \in Nat /\ y \in Nat \ {0}
  OBVIOUS
<1>2. Rounded(100 * n, d) = x \div y
  BY DEF Rounded
<1> HIDE DEF x, y
<1>3. x \div y \in Nat
  BY <1>1
<1> QED BY <1>2, <1>3

LEMMA ScoresAreNatural ==
  ASSUME NEW list, Summable(list), NEW field \in {"weak", "novelty", "anomaly"}
  PROVE  Sum(list, field) \in Nat /\ Average(list, field) \in Nat
<1>1. Sum(list, field) \in Nat
  <2>1. ASSUME NEW e \in list PROVE e.print[field] \in Nat
    <3> PICK f \in Fingerprints : f = e.print
      BY DEF Summable
    <3>1. {f.weak, f.novelty, f.anomaly} \subseteq Scores
      BY AdvisorsAssumption
    <3>2. f[field] \in Scores
      BY <3>1
    <3> QED BY <3>2 DEF Scores
  <2> QED BY <2>1, SumIsNatural DEF Summable
<1>2. CASE list = {}
  BY <1>1, <1>2 DEF Average
<1>3. CASE list # {}
  <2>1. Cardinality(list) \in Nat \ {0}
    BY <1>3, FS_CardinalityType, FS_EmptySet DEF Summable
  <2>2. Rounded(100 * Sum(list, field), Cardinality(list)) \in Nat
    BY <1>1, <2>1, RoundedIsNatural
  <2> QED BY <1>1, <1>3, <2>2 DEF Average
<1> QED BY <1>2, <1>3

LEMMA AggregateIsNatural ==
  ASSUME NEW list, Summable(list), NEW w \in DOMAIN Windows
  PROVE  /\ Aggregate(list)[w] \in Figures
         /\ Aggregate(list)[w].count = Cardinality(Within(list, w))
         /\ Aggregate(list)[w].weak = Sum(Within(list, w), "weak")
<1> DEFINE scoped == Within(list, w)
<1>1. scoped \subseteq list /\ IsFiniteSet(scoped) /\ Summable(scoped)
  BY FS_Subset DEF Within, Summable
<1>2. Cardinality(scoped) \in Nat
  BY <1>1, FS_CardinalityType
<1>3. Aggregate(list)[w] = [count |-> Cardinality(scoped), weak |-> Sum(scoped, "weak"),
                            novelty |-> Average(scoped, "novelty"),
                            anomaly |-> Average(scoped, "anomaly")]
  BY DEF Aggregate
<1> HIDE DEF scoped
<1>4. Sum(scoped, "weak") \in Nat /\ Average(scoped, "novelty") \in Nat
      /\ Average(scoped, "anomaly") \in Nat
  BY <1>1, ScoresAreNatural
<1>5. Aggregate(list)[w] \in Figures
  BY <1>2, <1>3, <1>4 DEF Figures
<1> QED BY <1>3, <1>5 DEF scoped

LEMMA GreatestBounds ==
  ASSUME NEW a \in Nat, NEW b \in Nat, NEW c \in Nat
  PROVE  Greatest(a, b, c) \in Nat /\ a <= Greatest(a, b, c)
<1>1. \E x \in {a, b, c} : \A y \in {a, b, c} : x >= y
  OBVIOUS
<1>2. Greatest(a, b, c) = CHOOSE x \in {a, b, c} : \A y \in {a, b, c} : x >= y
  BY Zenon DEF Greatest, Max
<1>3. Greatest(a, b, c) \in {a, b, c} /\ \A y \in {a, b, c} : Greatest(a, b, c) >= y
  BY <1>1, <1>2, Zenon
<1>4. PICK x : x = Greatest(a, b, c)
  OBVIOUS
<1>5. x \in {a, b, c} /\ x >= a
  BY <1>3, <1>4
<1> QED BY <1>4, <1>5

LEMMA MergedBounds ==
  ASSUME NEW a, NEW b, NEW c, NEW w \in DOMAIN Windows,
         a[w] \in Figures, b[w] \in Figures, c[w] \in Figures
  PROVE  /\ Merged(a, b, c)[w].count \in Nat /\ Merged(a, b, c)[w].novelty \in Nat
         /\ Merged(a, b, c)[w].anomaly \in Nat
         /\ a[w].count <= Merged(a, b, c)[w].count
<1>1. Merged(a, b, c)[w] = [count |-> Greatest(a[w].count, b[w].count, c[w].count),
                            novelty |-> Greatest(a[w].novelty, b[w].novelty, c[w].novelty),
                            anomaly |-> Greatest(a[w].anomaly, b[w].anomaly, c[w].anomaly)]
  BY DEF Merged
<1>2. \A d \in {a, b, c} : d[w].count \in Nat /\ d[w].novelty \in Nat /\ d[w].anomaly \in Nat
  BY DEF Figures
<1>3. /\ Greatest(a[w].count, b[w].count, c[w].count) \in Nat
      /\ a[w].count <= Greatest(a[w].count, b[w].count, c[w].count)
      /\ Greatest(a[w].novelty, b[w].novelty, c[w].novelty) \in Nat
      /\ Greatest(a[w].anomaly, b[w].anomaly, c[w].anomaly) \in Nat
  BY <1>2, GreatestBounds
<1> QED BY <1>1, <1>3

\* Fifty points of deviation and twenty-five for each of six signals are the 65 of the bar.
Likely(score) == score >= 6500

LEMMA LikelihoodSum ==
  ASSUME NEW p \in Nat, p >= 50, NEW c \in Nat, c >= 6, NEW n \in Nat, NEW a \in Nat
  PROVE  Likely(LikelihoodScore(p, c, n, a))
<1> DEFINE s == 10000 * p + 25000 * c + 12 * n + 18 * a
<1>1. s \in Nat /\ s >= 650000
  OBVIOUS
<1> HIDE DEF s
<1>2. Likely(AtMost(10000, Rounded(s, 100)))
  BY <1>1 DEF Likely, AtMost, Rounded
<1> QED BY <1>2 DEF s, LikelihoodScore



\* The campaign memory of any key, named or not, is of signals told.
LEMMA KeptIsSummable ==
  ASSUME AccumulationInv, NEW k
  PROVE  /\ Summable(Entry(byIdentity, k))
         /\ Summable(Named(byPath, k)) /\ Summable(Named(byFamily, k))
<1>1. /\ Entry(byIdentity, k) \subseteq told
      /\ Entry(byPath, k) \subseteq told /\ Entry(byFamily, k) \subseteq told
  BY DEF AccumulationInv, CampaignInv, IndexInv, ToldOf
<1>2. ASSUME NEW list \in SUBSET told PROVE Summable(list)
  BY FS_Subset DEF AccumulationInv, Summable
<1>3. Named(byPath, k) \in SUBSET told /\ Named(byFamily, k) \in SUBSET told
  BY <1>1 DEF Named
<1> QED BY <1>1, <1>2, <1>3

\* What was told of an identity within a month is what the memory finds under it, and no
\* more than it finds within three.
LEMMA MonthIsKept ==
  ASSUME AccumulationInv, NEW k, Accumulated(k)
  PROVE  /\ Cardinality(Within(Entry(byIdentity, k), "30d")) >= 6
         /\ Sum(Within(Entry(byIdentity, k), "30d"), "weak") >= 90
         /\ Cardinality(Within(Entry(byIdentity, k), "90d")) >= 6
<1> DEFINE month == {e \in told : e.print.identity = k /\ today - e.at <= 30}
           quarter == Within(Entry(byIdentity, k), "90d")
<1>1. Windows["30d"] = 30 /\ Windows["90d"] = 90
  BY DEF Windows
<1>2. /\ Entry(byIdentity, k) \subseteq ToldOf("identity", k)
      /\ Within(ToldOf("identity", k), "90d") \subseteq Entry(byIdentity, k)
      /\ ToldOf("identity", k) = {e \in told : e.print.identity = k}
      /\ today \in Int /\ \A e \in told : e.at \in Int
  BY DEF AccumulationInv, CampaignInv, IndexInv, ToldOf
<1>3. month \subseteq quarter
  <2> SUFFICES ASSUME NEW e \in month PROVE e \in quarter
    OBVIOUS
  <2>1. today - e.at <= 90
    BY <1>2
  <2>2. e \in Entry(byIdentity, k)
    BY <1>1, <1>2, <2>1 DEF Within
  <2> QED BY <1>1, <2>1, <2>2 DEF Within
<1>4. Within(Entry(byIdentity, k), "30d") = month
  <2>1. month \subseteq Entry(byIdentity, k)
    BY <1>3 DEF Within
  <2> QED BY <1>1, <1>2, <2>1 DEF Within
<1>5. Cardinality(month) >= 6 /\ Sum(month, "weak") >= 90
  BY DEF Accumulated
<1>6. IsFiniteSet(month) /\ IsFiniteSet(quarter)
  BY KeptIsSummable, <1>3, FS_Subset DEF Summable, Within
<1> HIDE DEF month, quarter
<1>7. /\ Cardinality(month) \in Nat /\ Cardinality(quarter) \in Nat
      /\ Cardinality(month) <= Cardinality(quarter)
  BY <1>3, <1>6, FS_Subset, FS_CardinalityType
<1>8. Cardinality(quarter) >= 6
  BY <1>5, <1>7
<1> QED BY <1>4, <1>5, <1>8 DEF quarter

LEMMA ProgressiveBounds ==
  ASSUME NEW i, NEW p, NEW f, i["30d"].count >= 6, i["30d"].weak >= 90, i["90d"].count >= 6,
         i["30d"].count \in Nat, i["90d"].count \in Nat
  PROVE  Progressive(i, p, f) \in Nat /\ Progressive(i, p, f) >= 50
<1>1. LowAndSlow(i["30d"]) /\ i["90d"].count >= 5
  BY DEF LowAndSlow
<1> QED BY <1>1 DEF Progressive

LEMMA AccumulatedIsLikely ==
  ASSUME AccumulationInv, NEW k, Accumulated(k), NEW path, NEW family
  PROVE  Likely(Likelihood(k, path, family))
<1> DEFINE i == Aggregate(Entry(byIdentity, k))
           p == Aggregate(Named(byPath, path))
           f == Aggregate(Named(byFamily, family))
           m == Merged(i, p, f)
<1>1. "7d" \in DOMAIN Windows /\ "30d" \in DOMAIN Windows /\ "90d" \in DOMAIN Windows
  BY DEF Windows
<1>2. /\ Summable(Entry(byIdentity, k)) /\ Summable(Named(byPath, path))
      /\ Summable(Named(byFamily, family))
  BY KeptIsSummable
<1>3. \A w \in DOMAIN Windows : i[w] \in Figures /\ p[w] \in Figures /\ f[w] \in Figures
  BY <1>2, AggregateIsNatural
<1>4. i["30d"].count >= 6 /\ i["30d"].weak >= 90 /\ i["90d"].count >= 6
  BY <1>1, <1>2, AggregateIsNatural, MonthIsKept
<1> DEFINE count == m["7d"].count + m["30d"].count
           novelty == m["30d"].novelty + m["90d"].novelty
           anomaly == m["7d"].anomaly + m["30d"].anomaly
<1>5. Likelihood(k, path, family) = LikelihoodScore(Progressive(i, p, f), count, novelty, anomaly)
  BY Zenon DEF Likelihood
<1> HIDE DEF i, p, f
<1>6. Progressive(i, p, f) \in Nat /\ Progressive(i, p, f) >= 50
  <2>1. i["30d"].count \in Nat /\ i["90d"].count \in Nat
    BY <1>1, <1>3 DEF Figures
  <2> QED BY <1>4, <2>1, ProgressiveBounds
<1>7. \A w \in DOMAIN Windows :
        m[w].count \in Nat /\ m[w].novelty \in Nat /\ m[w].anomaly \in Nat
        /\ i[w].count <= m[w].count
  BY <1>3, MergedBounds
<1> HIDE DEF m
<1>8. /\ count \in Nat /\ count >= 6
      /\ novelty \in Nat /\ anomaly \in Nat
  <2>1. i["30d"].count \in Nat /\ i["30d"].count <= m["30d"].count /\ m["30d"].count \in Nat
    BY <1>1, <1>3, <1>7 DEF Figures
  <2>2. m["30d"].count >= 6 /\ m["7d"].count \in Nat
    BY <1>1, <1>4, <1>7, <2>1
  <2> QED BY <1>1, <1>7, <2>1, <2>2
<1> HIDE DEF count, novelty, anomaly
<1>9. Likely(LikelihoodScore(Progressive(i, p, f), count, novelty, anomaly))
  BY <1>6, <1>8, LikelihoodSum
<1> QED BY <1>5, <1>9

\* Six signals of one identity within a month, of 90 points together, bring every analysis of
\* a critical asset before Sentinel, in whatever order, with whatever dates and among
\* however many others they came (campaign_likelihood_score, route_priority).
THEOREM AccumulationIsNotMissed == Spec => []AccumulationReachesSentinel
<1>1. Init => AccumulationInv
  BY CampaignStart, FS_EmptySet DEF Init, AdvisorsInit, AccumulationInv, Summable
<1>2. AccumulationInv /\ [Next]_vars => AccumulationInv'
  BY CampaignStep, SummableStep DEF AccumulationInv
<1>3. AccumulationInv => AccumulationReachesSentinel
  <2> SUFFICES ASSUME AccumulationInv, NEW k, Accumulated(k), NEW path, NEW family,
                      NEW t \in Targets, t.criticality >= 80
               PROVE  Route(t, Likelihood(k, path, family)) = "sentinel_immediate_attention"
    BY DEF AccumulationReachesSentinel
  <2>1. Likely(Likelihood(k, path, family))
    BY AccumulatedIsLikely
  <2> QED BY <2>1 DEF Likely, Route
<1> QED BY <1>1, <1>2, <1>3, PTL DEF Spec

-----------------------------------------------------------------------------
\* The suspicions.
HistoriesInv ==
  /\ conducts \in [Staff -> Seq(EventsTold)]
  /\ deeds \in [Staff -> Seq(Deeds)]

LEMMA HistoriesStep ==
  ASSUME HistoriesInv, [Next]_vars
  PROVE  HistoriesInv'
<1>1. CASE \E p \in Staff, c \in Conducts : IngestConduct(p, c)
  <2> PICK p \in Staff, c \in Conducts : IngestConduct(p, c)
    BY <1>1
  <2>1. conducts[p] \in Seq(EventsTold) /\ c \in EventsTold
    BY AdvisorsAssumption DEF HistoriesInv
  <2>2. Append(conducts[p], c) \in Seq(EventsTold)
    BY <2>1
  <2>3. conducts' = [conducts EXCEPT ![p] = Append(@, c)] /\ deeds' = deeds
    BY DEF IngestConduct
  <2>4. conducts' \in [Staff -> Seq(EventsTold)]
    BY <2>2, <2>3 DEF HistoriesInv
  <2> QED BY <2>3, <2>4 DEF HistoriesInv
<1>2. CASE \E p \in Staff, d \in Deeds : IngestDeed(p, d)
  <2> PICK p \in Staff, d \in Deeds : IngestDeed(p, d)
    BY <1>2
  <2>1. Append(deeds[p], d) \in Seq(Deeds)
    BY DEF HistoriesInv
  <2> QED BY <2>1 DEF IngestDeed, HistoriesInv
<1>3. CASE RestartInsiderDecay \/ RestartAdminAnomaly
  <2>1. ASSUME NEW S PROVE [p \in Staff |-> << >>] \in [Staff -> Seq(S)]
    OBVIOUS
  <2>2. CASE RestartInsiderDecay
    <3>1. conducts' = [p \in Staff |-> << >>] /\ deeds' = deeds
      BY <2>2 DEF RestartInsiderDecay
    <3> QED BY <2>1, <3>1 DEF HistoriesInv
  <2>3. CASE RestartAdminAnomaly
    <3>1. deeds' = [p \in Staff |-> << >>] /\ conducts' = conducts
      BY <2>3 DEF RestartAdminAnomaly
    <3> QED BY <2>1, <3>1 DEF HistoriesInv
  <2> QED BY <1>3, <2>2, <2>3
<1>4. CASE UNCHANGED <<conducts, deeds>>
  BY <1>4 DEF HistoriesInv
<1>5. CASE InAdvisors
  BY <1>1, <1>2, <1>3, <1>4, <1>5 DEF InAdvisors, StoreEvent, DaysPass, RestartCampaignMemory
<1>6. CASE UNCHANGED advisorVars
  BY <1>4, <1>6 DEF advisorVars
<1> QED BY <1>5, <1>6 DEF Next, Ask, Unavailable, Answer, Fetch, vars

\* The arithmetic, apart: what a share may be, and one of three or more; what stays below
\* the bar of the insiders; what reaches the one of the administrators.
Hundredths == 0..10000
Thirds == 0..3334
Tolerated == 0..6499
Alarming(score) == score >= 8500

LEMMA DivisionBound ==
  ASSUME NEW x \in Nat, NEW d \in Nat \ {0}, NEW c \in Nat, x < (c + 1) * d
  PROVE  x \div d \in 0..c
<1> PICK q : q = x \div d
  OBVIOUS
<1>1. q \in Int /\ q >= 0 /\ q * d <= x
  OBVIOUS
<1>2. ASSUME q >= c + 1 PROVE q * d >= (c + 1) * d
  BY <1>1, <1>2
<1>3. (c + 1) * d \in Int /\ q * d \in Int
  BY <1>1
<1> QED BY <1>1, <1>2, <1>3

LEMMA QuotientBound ==
  ASSUME NEW x \in Nat, NEW d \in Nat \ {0}, x < 10001 * d
  PROVE  x \div d \in Hundredths
<1>1. \A c \in Nat : x < (c + 1) * d => x \div d \in 0..c
  BY DivisionBound
<1>2. 10000 \in Nat /\ x < (10000 + 1) * d
  OBVIOUS
<1> QED BY <1>1, <1>2 DEF Hundredths

LEMMA RatioBound ==
  ASSUME NEW k \in Nat, NEW n \in Nat \ {0}, k <= n
  PROVE  (2 * (10000 * k) + n) \div (2 * n) \in Hundredths
<1>1. 2 * (10000 * k) + n \in Nat /\ 2 * n \in Nat \ {0}
  OBVIOUS
<1>2. 2 * (10000 * k) + n < 10001 * (2 * n)
  OBVIOUS
<1> QED BY <1>1, <1>2, QuotientBound

\* A share of the whole is at most all, and one of three or more at most a third.
LEMMA ShareBound ==
  ASSUME NEW k \in Nat, NEW n \in Nat, k <= n
  PROVE  Share(k, n) \in Hundredths
<1>1. CASE n = 0
  <2>1. Share(k, n) = (2 * (10000 * 0) + 1) \div (2 * 1)
    BY <1>1 DEF Share, Rounded
  <2> QED BY <2>1 DEF Hundredths
<1>2. CASE n # 0
  <2>1. Share(k, n) = (2 * (10000 * k) + n) \div (2 * n)
    BY <1>2 DEF Share, Rounded
  <2>2. n \in Nat \ {0}
    BY <1>2
  <2>3. (2 * (10000 * k) + n) \div (2 * n) \in Hundredths
    BY <2>2, RatioBound
  <2> QED BY <2>1, <2>3
<1> QED BY <1>1, <1>2

LEMMA ThirdBound ==
  ASSUME NEW k \in 0..1, NEW n \in Nat, n >= 3
  PROVE  Share(k, n) \in Thirds
<1>1. 2 * (10000 * k) + n \in Nat /\ 2 * n \in Nat \ {0}
  OBVIOUS
<1>2. 2 * (10000 * k) + n < (3334 + 1) * (2 * n)
  OBVIOUS
<1>3. (2 * (10000 * k) + n) \div (2 * n) \in 0..3334
  BY <1>1, <1>2, DivisionBound
<1>4. Share(k, n) = (2 * (10000 * k) + n) \div (2 * n)
  BY DEF Share, Rounded
<1> QED BY <1>3, <1>4 DEF Thirds

\* What one event adds out of context, what repetition does, what speaks for the identity,
\* and how familiar an administrator may look.
LEMMA ContextSum ==
  ASSUME NEW u \in 0..1, NEW n \in 0..1, NEW o \in 0..1
  PROVE  AtMost(100, 25 * u + 10 * n + 15 * o) \in 0..50
BY DEF AtMost

LEMMA RepetitionSum ==
  ASSUME NEW len \in Nat
  PROVE  /\ (IF len > 2 THEN AtMost(25, 3 * (len - 2)) ELSE 0) \in 0..25
         /\ len >= 3 \/ (IF len > 2 THEN AtMost(25, 3 * (len - 2)) ELSE 0) = 0
BY DEF AtMost

LEMMA RecoverySum ==
  ASSUME NEW k \in Nat
  PROVE  100 * AtMost(40, 12 * k) \in Nat
BY DEF AtMost

LEMMA ProfileSum ==
  ASSUME NEW size \in Nat
  PROVE  100 - AtMost(80, 2 * size) \in 20..100
BY DEF AtMost

LEMMA NetSum ==
  ASSUME NEW decay \in Tolerated, NEW recovery \in Nat
  PROVE  ~((IF decay - recovery < 0 THEN 0 ELSE decay - recovery) >= 6500)
BY DEF Tolerated

\* cumulative_trust_decay is below the bar as long as the role and what repetition adds do
\* not come to more than 100 and 0, or 33.34 and 25.
LEMMA DecaySum ==
  ASSUME NEW role \in Hundredths, NEW context \in 0..50, NEW added \in 0..25,
         added = 0 \/ role \in Thirds
  PROVE  DecayScore(role, context, added) \in Tolerated
<1> DEFINE n == 35 * role + 4500 * context + 10000 * added
<1>1. n \in Nat
  BY DEF Hundredths
<1>2. n <= 100 * 6499
  BY DEF Hundredths, Thirds
<1> HIDE DEF n
<1>3. AtMost(10000, Rounded(n, 100)) \in Tolerated
  BY <1>1, <1>2 DEF AtMost, Rounded, Tolerated
<1> QED BY <1>3 DEF n, DecayScore

LEMMA EscalationSum ==
  ASSUME NEW profile \in 20..100, NEW rarity \in Hundredths, NEW causal \in 0..65
  PROVE  ~Alarming(EscalationScore(profile, rarity, causal))
<1> DEFINE n == 2000 * profile + 35 * rarity + 4500 * causal
<1>1. n \in Nat
  BY DEF Hundredths
<1>2. n <= 100 * 8425
  BY DEF Hundredths
<1> HIDE DEF n
<1>3. ~(AtMost(10000, Rounded(n, 100)) >= 8500)
  BY <1>1, <1>2 DEF AtMost, Rounded
<1> QED BY <1>3 DEF n, EscalationScore, Alarming

LEMMA PlacesOf ==
  ASSUME NEW S, NEW list \in Seq(S)
  PROVE  /\ DOMAIN list = 1..Len(list) /\ IsFiniteSet(DOMAIN list)
         /\ Cardinality(DOMAIN list) = Len(list)
         /\ \A part \in SUBSET DOMAIN list :
              IsFiniteSet(part) /\ Cardinality(part) \in Nat /\ Cardinality(part) <= Len(list)
<1>1. DOMAIN list = 1..Len(list) /\ Len(list) \in Nat
  OBVIOUS
<1>2. IsFiniteSet(1..Len(list)) /\ Cardinality(1..Len(list)) = Len(list)
  BY <1>1, FS_Interval
<1>3. ASSUME NEW part \in SUBSET DOMAIN list
      PROVE  IsFiniteSet(part) /\ Cardinality(part) \in Nat /\ Cardinality(part) <= Len(list)
  <2>1. IsFiniteSet(part) /\ Cardinality(part) <= Len(list)
    BY <1>1, <1>2, FS_Subset
  <2> QED BY <2>1, FS_CardinalityType
<1> QED BY <1>1, <1>2, <1>3

Alone(w) == Cardinality(Irregular(w)) < 2

\* What is held against a list is among its events.
LEMMA HeldAgainst ==
  ASSUME NEW w \in Seq(EventsTold), Alone(w)
  PROVE  /\ Cardinality(Misaligned(w)) \in 0..1 /\ Cardinality(Misaligned(w)) <= Len(w)
         /\ Cardinality(Unexplained(w)) \in 0..1
         /\ Cardinality(AtNight(w)) \in 0..1
         /\ Cardinality(OffProcess(w)) \in 0..1
         /\ Len(w) = 0 => ContextScore(w) = 0
<1>1. Irregular(w) \subseteq DOMAIN w
  BY DEF Misaligned, Unexplained, AtNight, OffProcess, Irregular
<1>2. IsFiniteSet(Irregular(w)) /\ Cardinality(Irregular(w)) \in Nat
  BY <1>1, PlacesOf
<1>3. ASSUME NEW S \in SUBSET Irregular(w)
      PROVE  Cardinality(S) \in 0..1 /\ Cardinality(S) <= Len(w)
  <2>1. Cardinality(S) <= Cardinality(Irregular(w))
    BY <1>2, FS_Subset
  <2>2. Cardinality(S) \in Nat /\ Cardinality(S) <= Len(w)
    BY <1>1, PlacesOf
  <2> QED BY <1>2, <2>1, <2>2 DEF Alone
<1>4. ASSUME Len(w) = 0 PROVE ContextScore(w) = 0
  <2>1. DOMAIN w = {}
    BY <1>4
  <2>2. Unexplained(w) = {} /\ AtNight(w) = {} /\ OffProcess(w) = {}
    BY <2>1 DEF Unexplained, AtNight, OffProcess
  <2> QED BY <2>2, FS_EmptySet DEF ContextScore, AtMost
<1>5. /\ Misaligned(w) \in SUBSET Irregular(w) /\ Unexplained(w) \in SUBSET Irregular(w)
      /\ AtNight(w) \in SUBSET Irregular(w) /\ OffProcess(w) \in SUBSET Irregular(w)
  BY DEF Irregular
<1> QED BY <1>3, <1>4, <1>5

\* One irregular event, alone, comes to 57.5; among others its role weighs less than the
\* repetition adds.
LEMMA RoleBounds ==
  ASSUME NEW w \in Seq(EventsTold), Alone(w)
  PROVE  RoleScore(w) \in Hundredths /\ (Len(w) >= 3 => RoleScore(w) \in Thirds)
<1>1. /\ Cardinality(Misaligned(w)) \in 0..1 /\ Cardinality(Misaligned(w)) <= Len(w)
      /\ Len(w) \in Nat
  BY HeldAgainst
<1>2. Cardinality(Misaligned(w)) \in Nat
  BY <1>1
<1>3. Share(Cardinality(Misaligned(w)), Len(w)) \in Hundredths
  BY <1>1, <1>2, ShareBound
<1>4. ASSUME Len(w) >= 3 PROVE Share(Cardinality(Misaligned(w)), Len(w)) \in Thirds
  BY <1>1, <1>4, ThirdBound
<1> QED BY <1>3, <1>4 DEF RoleScore

LEMMA ContextBounds ==
  ASSUME NEW w \in Seq(EventsTold), Alone(w)
  PROVE  ContextScore(w) \in 0..50
BY HeldAgainst, ContextSum DEF ContextScore

LEMMA RepetitionBounds ==
  ASSUME NEW w \in Seq(EventsTold)
  PROVE  Repetition(w) \in 0..25 /\ (Len(w) >= 3 \/ Repetition(w) = 0)
<1>1. Len(w) \in Nat
  OBVIOUS
<1> QED BY <1>1, RepetitionSum DEF Repetition

LEMMA OneIsNotEnough ==
  ASSUME NEW w \in Seq(EventsTold), Alone(w)
  PROVE  DecayScore(RoleScore(w), ContextScore(w), Repetition(w)) \in Tolerated
<1>1. RoleScore(w) \in Hundredths
  BY RoleBounds
<1>2. ContextScore(w) \in 0..50
  BY ContextBounds
<1>3. Repetition(w) \in 0..25
  BY RepetitionBounds
<1>4. Repetition(w) = 0 \/ RoleScore(w) \in Thirds
  BY RoleBounds, RepetitionBounds
<1> QED BY <1>1, <1>2, <1>3, <1>4, DecaySum

\* What speaks for the identity only lowers its decay.
LEMMA RecoveryIsNatural ==
  ASSUME NEW review \in Reviews
  PROVE  Recovery(review) \in Nat
<1> DEFINE excused == {i \in DOMAIN review : review[i].recovery \/ review[i].justified}
<1>1. review \in Seq(EventsTold) /\ excused \in SUBSET DOMAIN review
  BY AdvisorsAssumption
<1>2. Cardinality(excused) \in Nat
  BY <1>1, PlacesOf
<1>3. Recovery(review) = 100 * AtMost(40, 12 * Cardinality(excused))
  BY DEF Recovery
<1> HIDE DEF excused
<1> QED BY <1>2, <1>3, RecoverySum

LEMMA WindowIsTold ==
  ASSUME HistoriesInv, NEW p \in Staff, NEW review \in Reviews
  PROVE  Window(p, review) \in Seq(EventsTold)
<1> PICK list : list = conducts[p] /\ list \in Seq(EventsTold)
  BY DEF HistoriesInv
<1>1. Latest(list) \in Seq(EventsTold)
  <2> PICK from : from = IF Len(list) > HistoryWindow THEN Len(list) - HistoryWindow + 1 ELSE 1
    OBVIOUS
  <2>1. from \in Nat /\ from >= 1
    BY AdvisorsAssumption
  <2>2. SubSeq(list, from, Len(list)) \in Seq(EventsTold)
    BY <2>1
  <2> QED BY <2>2 DEF Latest
<1>2. review \in Seq(EventsTold)
  BY AdvisorsAssumption
<1> QED BY <1>1, <1>2 DEF Window

LEMMA InsiderIsCorroborated ==
  ASSUME HistoriesInv, NEW p \in Staff, NEW review \in Reviews, InsiderSuspected(p, review)
  PROVE  Cardinality(Irregular(Window(p, review))) >= 2
<1>1. Window(p, review) \in Seq(EventsTold)
  BY WindowIsTold
<1>2. ASSUME Alone(Window(p, review)) PROVE FALSE
  <2>1. Decay(p, review) \in Tolerated
    BY <1>1, <1>2, OneIsNotEnough DEF Decay
  <2>2. Recovery(review) \in Nat
    BY RecoveryIsNatural
  <2>3. ~(NetDecay(p, review) >= 6500)
    BY <2>1, <2>2, NetSum DEF NetDecay
  <2> QED BY <2>3 DEF InsiderSuspected
<1>3. Cardinality(Irregular(Window(p, review))) \in Nat
  <2>1. Irregular(Window(p, review)) \in SUBSET DOMAIN Window(p, review)
    BY DEF Misaligned, Unexplained, AtNight, OffProcess, Irregular
  <2> QED BY <1>1, <2>1, PlacesOf
<1>4. ~(Cardinality(Irregular(Window(p, review))) < 2)
  BY <1>2 DEF Alone
<1> QED BY <1>3, <1>4

Rare(p, chain) == {i \in DOMAIN chain : Cardinality(Done(p, chain[i].action)) <= 1}

LEMMA RarityBounds ==
  ASSUME NEW p \in Staff, NEW chain \in Chains
  PROVE  Rarity(p, chain) \in Hundredths
<1>1. chain \in Seq(Deeds) /\ Rare(p, chain) \in SUBSET DOMAIN chain
  BY AdvisorsAssumption DEF Rare
<1>2. Len(chain) \in Nat
  BY <1>1
<1>3. Cardinality(Rare(p, chain)) \in Nat /\ Cardinality(Rare(p, chain)) <= Len(chain)
  BY <1>1, PlacesOf
<1>4. Share(Cardinality(Rare(p, chain)), Len(chain)) \in Hundredths
  BY <1>2, <1>3, ShareBound
<1>5. Rarity(p, chain) = IF deeds[p] = << >> THEN 8000
                         ELSE Share(Cardinality(Rare(p, chain)), Len(chain))
  BY DEF Rarity, Rare
<1>6. 8000 \in Hundredths
  BY DEF Hundredths
<1> QED BY <1>4, <1>5, <1>6

LEMMA ProfileBounds ==
  ASSUME HistoriesInv, NEW p \in Staff
  PROVE  ProfileScore(p) \in 20..100
<1>1. deeds[p] \in Seq(Deeds)
  BY DEF HistoriesInv
<1>2. Len(deeds[p]) \in Nat
  BY <1>1
<1> QED BY <1>2, ProfileSum DEF ProfileScore

\* Without the jump or the new family the break comes to 65, and the whole to 84.25.
LEMMA AdminIsCorroborated ==
  ASSUME HistoriesInv, NEW p \in Staff, NEW chain \in Chains, AdminSuspected(p, chain)
  PROVE  LeavesFamilies(p, chain) /\ Escalates(chain)
<1> SUFFICES ASSUME ~(LeavesFamilies(p, chain) /\ Escalates(chain)) PROVE FALSE
  OBVIOUS
<1>1. CausalBreak(p, chain) \in 0..65
  BY DEF CausalBreak
<1>2. ProfileScore(p) \in 20..100
  BY ProfileBounds
<1>3. Rarity(p, chain) \in Hundredths
  BY RarityBounds
<1>4. ~Alarming(Escalation(p, chain))
  BY <1>1, <1>2, <1>3, EscalationSum DEF Escalation
<1> QED BY <1>4 DEF AdminSuspected, Alarming

\* However long the histories and whatever is asked about, no one event raises a suspicion
\* the policy engine minds (cumulative_trust_decay, causal_break_score, engine.py).
THEOREM SuspicionsAreCorroborated == Spec => []SuspicionIsCorroborated
<1>1. Init => HistoriesInv
  BY DEF Init, AdvisorsInit, HistoriesInv
<1>2. HistoriesInv /\ [Next]_vars => HistoriesInv'
  BY HistoriesStep
<1>3. HistoriesInv => SuspicionIsCorroborated
  BY InsiderIsCorroborated, AdminIsCorroborated DEF SuspicionIsCorroborated
<1> QED BY <1>1, <1>2, <1>3, PTL DEF Spec

-----------------------------------------------------------------------------
LEMMA PutDomain ==
  ASSUME NEW map, NEW k, NEW value
  PROVE  DOMAIN Put(map, k, value) = DOMAIN map \cup {k}
BY DEF Put

LEMMA NobodyIsEmpty == DOMAIN Nobody = {}
BY DEF Nobody

\* Valid tokens name sessions that are kept.
LEMMA ValidAreKept ==
  ASSUME KeysInv
  PROVE  ValidSessions \subseteq DOMAIN sessions
BY DEF KeysInv, ValidSessions, Validates

LEMMA SessionsInit == Init => KeysInv /\ HeldInv /\ SessionsAreShown
<1> SUFFICES ASSUME Init PROVE KeysInv /\ HeldInv /\ SessionsAreShown
  OBVIOUS
<1>1. KeysInv
  <2>1. key = 0 /\ tokens = << >> /\ DOMAIN sessions = {}
    BY NobodyIsEmpty DEF Init, ServicesInit
  <2> QED BY <2>1, FS_EmptySet DEF KeysInv
<1>2. HeldInv
  BY NobodyIsEmpty DEF Init, HeldInv
<1>3. SessionsAreShown
  BY DEF Init, SessionsAreShown, Blank
<1> QED BY <1>1, <1>2, <1>3

\* cortex-auth: an issue records the session with the token, a restart forgets the
\* sessions with the key.
LEMMA KeysStep ==
  ASSUME KeysInv, [Next]_vars
  PROVE  KeysInv'
<1>1. CASE UNCHANGED authVars
  BY <1>1 DEF authVars, KeysInv
<1>2. CASE \E q \in Requests : IssueToken(q)
  <2> PICK q \in Requests : IssueToken(q)
    BY <1>2
  <2> DEFINE token == CAPToken(q)
  <2>1. tokens' = Append(tokens, token) /\ key' = key
    BY DEF IssueToken
  <2>2. DOMAIN sessions' = DOMAIN sessions \cup {q.session}
    BY PutDomain DEF IssueToken, RecordSession
  <2>3. token \in [claims : Requests, key : Nat]
    BY DEF KeysInv, CAPToken
  <2>4. tokens' \in Seq([claims : Requests, key : Nat])
    BY <2>1, <2>3 DEF KeysInv
  <2>5. ASSUME NEW i \in DOMAIN tokens'
        PROVE  /\ tokens'[i].key <= key'
               /\ tokens'[i].key = key' => tokens'[i].claims.session \in DOMAIN sessions'
    <3>1. CASE i = Len(tokens) + 1
      <4>1. tokens'[i] = token
        BY <2>1, <3>1 DEF KeysInv
      <4> QED BY <2>1, <2>2, <4>1 DEF KeysInv, CAPToken
    <3>2. CASE i # Len(tokens) + 1
      <4>1. i \in DOMAIN tokens /\ tokens'[i] = tokens[i]
        BY <2>1, <3>2 DEF KeysInv
      <4> QED BY <2>1, <2>2, <4>1 DEF KeysInv
    <3> QED BY <3>1, <3>2
  <2>6. IsFiniteSet(DOMAIN sessions')
    BY <2>2, FS_AddElement DEF KeysInv
  <2>7. key' \in Nat
    BY <2>1 DEF KeysInv
  <2> QED BY <2>4, <2>5, <2>6, <2>7 DEF KeysInv
<1>3. CASE ExpireOldest
  <2>1. tokens # << >> /\ tokens' = Tail(tokens) /\ key' = key /\ sessions' = sessions
    BY <1>3 DEF ExpireOldest
  <2>2. tokens' \in Seq([claims : Requests, key : Nat])
    BY <2>1 DEF KeysInv
  <2>3. ASSUME NEW i \in DOMAIN tokens'
        PROVE  i + 1 \in DOMAIN tokens /\ tokens'[i] = tokens[i + 1]
    BY <2>1 DEF KeysInv
  <2>4. \A i \in DOMAIN tokens' :
          /\ tokens'[i].key <= key'
          /\ tokens'[i].key = key' => tokens'[i].claims.session \in DOMAIN sessions'
    BY <2>1, <2>3 DEF KeysInv
  <2>5. key' \in Nat /\ IsFiniteSet(DOMAIN sessions')
    BY <2>1 DEF KeysInv
  <2> QED BY <2>2, <2>4, <2>5 DEF KeysInv
<1>4. CASE RestartAuth
  <2>1. key' = key + 1 /\ tokens' = tokens /\ DOMAIN sessions' = {}
    BY <1>4, NobodyIsEmpty DEF RestartAuth
  <2>2. \A i \in DOMAIN tokens : tokens[i].key \in Nat
    <3> SUFFICES ASSUME NEW i \in DOMAIN tokens PROVE tokens[i].key \in Nat
      OBVIOUS
    <3>1. tokens \in Seq([claims : Requests, key : Nat])
      BY DEF KeysInv
    <3>2. \A Token : tokens \in Seq(Token) => tokens[i] \in Token
      OBVIOUS
    <3> QED BY <3>1, <3>2
  <2>3. \A i \in DOMAIN tokens' : tokens'[i].key <= key' /\ tokens'[i].key # key'
    BY <2>1, <2>2 DEF KeysInv
  <2>4. tokens' \in Seq([claims : Requests, key : Nat]) /\ key' \in Nat
    BY <2>1 DEF KeysInv
  <2> QED BY <2>1, <2>3, <2>4, FS_EmptySet DEF KeysInv
<1>5. QED
  <2>1. CASE InServices
    BY <1>1, <1>2, <1>3, <1>4, <2>1
      DEF InServices, QueueSync, QueueSyncFails, ClockAdvances, RestartSync, Enqueue,
          AuditAndAnswer, RestartGateway
  <2>2. CASE UNCHANGED svcVars
    BY <1>1, <2>2 DEF svcVars, authVars
  <2>3. InServices \/ UNCHANGED svcVars
    BY DEF Next, Ask, Unavailable, Answer, Fetch, vars
  <2> QED BY <2>1, <2>2, <2>3

\* What was held and is held still was valid, and stays counted.
LEMMA HeldShrinks ==
  ASSUME KeysInv, HeldInv, held' \subseteq held, got' = got
  PROVE  "auth" \in DOMAIN got' =>
           \/ got'["auth"] = {}
           \/ \E a : got'["auth"] = {a} /\ a.active \in Nat /\ Cardinality(held') <= a.active
<1> SUFFICES ASSUME "auth" \in DOMAIN got, NEW a, got["auth"] = {a}, a.active \in Nat,
                    Cardinality(held) <= a.active
             PROVE  Cardinality(held') <= a.active
  BY DEF HeldInv
<1>1. IsFiniteSet(held)
  BY ValidAreKept, FS_Subset DEF HeldInv, KeysInv
<1>2. Cardinality(held') <= Cardinality(held)
  BY <1>1, FS_Subset
<1>3. Cardinality(held) \in Nat /\ Cardinality(held') \in Nat
  BY <1>1, FS_Subset, FS_CardinalityType
<1> QED BY <1>2, <1>3

\* cortex-auth counts all sessions it keeps, those held among them.
LEMMA AuthAnswersAll ==
  ASSUME KeysInv, HeldInv, NEW a \in Answers("auth")
  PROVE  a.active \in Nat /\ Cardinality(held) <= a.active
<1>1. a.active = Cardinality(DOMAIN sessions)
  BY DEF Answers, SessionSummary
<1>2. held \subseteq DOMAIN sessions /\ IsFiniteSet(DOMAIN sessions)
  BY ValidAreKept DEF HeldInv, KeysInv
<1> QED BY <1>1, <1>2, FS_Subset, FS_CardinalityType

\* A token of the present key that is kept stays valid.
LEMMA ValidityDependsOnAuth ==
  ASSUME UNCHANGED authVars
  PROVE  ValidSessions' = ValidSessions
BY DEF authVars, ValidSessions, Validates

LEMMA HeldStep ==
  ASSUME KeysInv, HeldInv, [Next]_vars
  PROVE  HeldInv'
<1>1. CASE Ask
  <2>1. held' = ValidSessions /\ got' = Nobody /\ asking' /\ UNCHANGED authVars
    BY <1>1 DEF Ask, svcVars, authVars, HeldInv
  <2> QED BY <2>1, ValidityDependsOnAuth, NobodyIsEmpty DEF HeldInv
<1>2. CASE \E s \in Timed : Fetch(s)
  <2> PICK s \in Timed : Fetch(s)
    BY <1>2
  <2> PICK answer \in {{}} \cup {{a} : a \in Answers(s)} : got' = Put(got, s, answer)
    BY DEF Fetch
  <2>1. asking' /\ held' = held /\ UNCHANGED authVars
    BY DEF Fetch, svcVars, authVars
  <2>2. DOMAIN got' = DOMAIN got \cup {s}
    BY PutDomain
  <2>3. CASE s = "auth"
    <3>1. got'["auth"] = answer
      BY <2>3 DEF Put
    <3>2. answer = {} \/ \E a : answer = {a} /\ a.active \in Nat /\ Cardinality(held) <= a.active
      BY <2>3, AuthAnswersAll
    <3> QED BY <2>1, <3>1, <3>2, ValidityDependsOnAuth DEF HeldInv
  <2>4. CASE s # "auth"
    <3>1. "auth" \in DOMAIN got' => "auth" \in DOMAIN got /\ got'["auth"] = got["auth"]
      BY <2>2, <2>4 DEF Put
    <3> QED BY <2>1, <3>1, ValidityDependsOnAuth DEF HeldInv
  <2> QED BY <2>3, <2>4
<1>3. CASE Unavailable \/ Answer
  <2>1. got' = Nobody /\ held' = {}
    BY <1>3 DEF Unavailable, Answer
  <2> QED BY <2>1, NobodyIsEmpty DEF HeldInv
<1>4. CASE InServices /\ held' = held \cap ValidSessions' /\ UNCHANGED <<obsVars, advisorVars, auditVars, asking, got, shown>>
  BY <1>4, HeldShrinks DEF HeldInv
<1>5. CASE UNCHANGED <<authVars, asking, got, held>>
  BY <1>5, ValidityDependsOnAuth DEF HeldInv
<1> QED BY <1>1, <1>2, <1>3, <1>4, <1>5 DEF Next, vars, dashboardVars, svcVars, authVars

\* A session is never a node of the overview, so that without cortex-auth none is shown.
LEMMA NoSessionInOverview ==
  ASSUME NEW graph \in {Overview, << >>}
  PROVE  Cardinality(SessionNodes(graph)) = 0
<1>1. SessionNodes(graph) = {}
  BY DEF SessionNodes, Overview
<1> QED BY <1>1, FS_EmptySet

LEMMA AnswerShows ==
  ASSUME HeldInv, Answer
  PROVE  SessionsAreShown'
<1> PICK metrics \in {"", "some"}, graph \in {Overview, << >>},
         approvals \in Approvals \cup {0}, warnings \in {SurfaceWarnings(f) : f \in Surfaces} \cup {{}} :
       shown' = Dashboard(metrics, graph, approvals, warnings)
  BY DEF Answer
<1>1. /\ shown'.active = ActiveSessions(graph)
      /\ shown'.held = held
      /\ shown'.warnings = warnings \cup Gaps(metrics, ActiveSessions(graph))
  BY DEF Dashboard
<1>2. "auth" \in DOMAIN got
  BY DEF Answer, Timed
<1>3. CASE got["auth"] = {}
  <2>1. ActiveSessions(graph) = 0
    BY <1>3, NoSessionInOverview DEF ActiveSessions, Shown
  <2>2. "sessions" \in Gaps(metrics, ActiveSessions(graph))
    BY <2>1 DEF Gaps
  <2> QED BY <1>1, <2>2 DEF SessionsAreShown
<1>4. CASE got["auth"] # {}
  <2> PICK a : got["auth"] = {a} /\ a.active \in Nat /\ Cardinality(held) <= a.active
    BY <1>2, <1>4 DEF HeldInv
  <2>1. (CHOOSE answer \in got["auth"] : TRUE) = a
    OBVIOUS
  <2>2. ActiveSessions(graph) = a.active
    BY <1>4, <2>1 DEF ActiveSessions, Shown
  <2> QED BY <1>1, <2>2 DEF SessionsAreShown
<1> QED BY <1>3, <1>4

\* The dashboard shows what held while it was made, although it reads its sources one
\* after the other and a failed one counts as empty: the sessions of cortex-auth are
\* forgotten only together with the key of their tokens (api/handlers.go, route.ts).
THEOREM ValidSessionsAreShown == Spec => []SessionsAreShown
<1>1. SessionsInv /\ [Next]_vars => SessionsInv'
  <2> SUFFICES ASSUME SessionsInv, [Next]_vars PROVE SessionsInv'
    OBVIOUS
  <2>1. KeysInv' /\ HeldInv'
    BY KeysStep, HeldStep DEF SessionsInv
  <2>2. SessionsAreShown'
    <3>1. CASE Answer
      BY <3>1, AnswerShows DEF SessionsInv
    <3>2. CASE Unavailable
      BY <3>2 DEF Unavailable, SessionsAreShown
    <3>3. CASE UNCHANGED shown
      BY <3>3 DEF SessionsInv, SessionsAreShown
    <3> QED BY <3>1, <3>2, <3>3 DEF Next, Ask, Fetch, dashboardVars, vars
  <2> QED BY <2>1, <2>2 DEF SessionsInv
<1>2. Init => SessionsInv
  BY SessionsInit DEF SessionsInv
<1>3. SessionsInv => SessionsAreShown
  BY DEF SessionsInv
<1> QED BY <1>1, <1>2, <1>3, PTL DEF Spec

-----------------------------------------------------------------------------
\* The signals of the obs agent, the one it handles, and what it asked for on them.
Signalled == [entity : Entities, signals : Seq(Entities)]

SignalsInv ==
  /\ queue \in Seq(Entities) /\ window \in Seq(Entities) /\ tasks \in Seq(Signalled)
  /\ announced \in Nat
  /\ handling = [signal |-> handling.signal, step |-> handling.step]
  /\ handling.step # "none" => handling.signal \in Entities /\ queue # << >>

\* An anomaly that went out has its signal at the end of a window long enough; its task
\* is still to be sent.
AnnouncedInv ==
  IF handling.step = "task"
  THEN Len(tasks) < announced /\ Len(window) >= AnomalousRatio /\ Last(window) = handling.signal
  ELSE Len(tasks) <= announced

TasksInv == SignalsInv /\ AnnouncedInv /\ TasksAreAnnounced

\* The last n of a sequence, or all of it.
LEMMA LastOfType ==
  ASSUME NEW S, NEW s \in Seq(S), NEW n \in Nat \ {0}
  PROVE  /\ LastOf(s, n) \in Seq(S)
         /\ Len(LastOf(s, n)) = IF Len(s) > n THEN n ELSE Len(s)
         /\ s # << >> => Last(LastOf(s, n)) = Last(s)
<1> DEFINE from == IF Len(s) > n THEN Len(s) - n + 1 ELSE 1
<1>1. from \in 1..Len(s) + 1 /\ LastOf(s, n) = SubSeq(s, from, Len(s))
  BY DEF LastOf
<1> HIDE DEF from
<1>2. /\ SubSeq(s, from, Len(s)) \in Seq(S)
      /\ Len(SubSeq(s, from, Len(s))) = Len(s) - from + 1
      /\ \A i \in 1..Len(s) - from + 1 : SubSeq(s, from, Len(s))[i] = s[from + i - 1]
  BY <1>1, SubSeqProperties
<1>3. Len(s) - from + 1 = IF Len(s) > n THEN n ELSE Len(s)
  BY DEF from
<1>4. ASSUME s # << >> PROVE Last(LastOf(s, n)) = Last(s)
  <2>1. Len(s) - from + 1 \in 1..Len(s) - from + 1
    BY <1>3, <1>4
  <2>2. from + (Len(s) - from + 1) - 1 = Len(s)
    BY <1>1
  <2> QED BY <1>1, <1>2, <2>1, <2>2 DEF Last
<1> QED BY <1>1, <1>2, <1>3, <1>4

\* on_sentinel up to its first publish.
LEMMA CorrelateKeeps ==
  ASSUME TasksInv, Correlate, AnomalousRatio <= 1000
  PROVE  TasksInv'
<1> DEFINE longer == Append(window, handling.signal)
           value == Len(window')
<1>1. handling.step = "new" /\ handling.signal \in Entities /\ queue # << >>
  BY DEF Correlate, TasksInv, SignalsInv
<1>2. longer \in Seq(Entities) /\ longer # << >> /\ Last(longer) = handling.signal
  BY <1>1 DEF TasksInv, SignalsInv, Last
<1>3. window' = LastOf(longer, WindowSize)
  BY DEF Correlate
<1>4. window' \in Seq(Entities) /\ Last(window') = handling.signal
  BY <1>2, <1>3, LastOfType, ObsAgentAssumption
<1>5. UNCHANGED <<queue, tasks>>
  BY DEF Correlate
<1>6. CASE announced' = announced /\ handling' = [handling EXCEPT !.step = "ack"]
  <2>1. handling'.step = "ack" /\ handling'.signal = handling.signal
        /\ handling' = [signal |-> handling'.signal, step |-> handling'.step]
    BY <1>6 DEF TasksInv, SignalsInv
  <2> QED BY <1>1, <1>4, <1>5, <1>6, <2>1 DEF TasksInv, SignalsInv, AnnouncedInv, TasksAreAnnounced
<1>7. CASE /\ announced' = announced + 1 /\ handling' = [handling EXCEPT !.step = "task"]
           /\ Anomalous(value)
  <2>1. handling'.step = "task" /\ handling'.signal = handling.signal
        /\ handling' = [signal |-> handling'.signal, step |-> handling'.step]
    BY <1>7 DEF TasksInv, SignalsInv
  <2>2. Len(window') >= AnomalousRatio
    BY <1>4, <1>7, ObsAgentAssumption DEF Anomalous
  <2>3. Len(tasks) <= announced
    BY <1>1 DEF TasksInv, AnnouncedInv
  <2>4. AnnouncedInv'
    BY <1>4, <1>5, <1>7, <2>1, <2>2, <2>3 DEF AnnouncedInv, TasksInv, SignalsInv
  <2>5. TasksAreAnnounced'
    BY <1>5, <1>7 DEF TasksInv, TasksAreAnnounced, SignalsInv
  <2>6. SignalsInv'
    BY <1>1, <1>4, <1>5, <1>7, <2>1 DEF TasksInv, SignalsInv
  <2> QED BY <2>4, <2>5, <2>6 DEF TasksInv
<1> QED BY <1>6, <1>7 DEF Correlate

\* A task carries the end of the window.
LEMMA SendTaskKeeps ==
  ASSUME TasksInv, SendTask
  PROVE  TasksInv'
<1> DEFINE sent == [entity |-> handling.signal, signals |-> LastOf(window, TaskSignals)]
<1>1. handling.step = "task" /\ handling.signal \in Entities /\ queue # << >>
  BY DEF SendTask, TasksInv, SignalsInv
<1>2. Len(tasks) < announced /\ Len(window) >= AnomalousRatio /\ Last(window) = handling.signal
  BY <1>1 DEF TasksInv, AnnouncedInv
<1>3. handling' = [handling EXCEPT !.step = "ack"] /\ UNCHANGED <<queue, window, announced>>
  BY DEF SendTask
<1>4. handling'.step = "ack" /\ handling'.signal = handling.signal
      /\ handling' = [signal |-> handling'.signal, step |-> handling'.step]
  BY <1>3 DEF TasksInv, SignalsInv
<1>5. tasks' = tasks \/ tasks' = Append(tasks, sent)
  BY DEF SendTask
<1>6. window \in Seq(Entities) /\ window # << >>
  <2>1. window \in Seq(Entities)
    BY DEF TasksInv, SignalsInv
  <2>2. AnomalousRatio \in Nat \ {0}
    BY ObsAgentAssumption
  <2> QED BY <1>2, <2>1, <2>2
<1>7. /\ LastOf(window, TaskSignals) \in Seq(Entities)
      /\ \/ Len(LastOf(window, TaskSignals)) >= AnomalousRatio
         \/ Len(LastOf(window, TaskSignals)) = TaskSignals
      /\ Last(LastOf(window, TaskSignals)) = handling.signal
  BY <1>2, <1>6, LastOfType, ObsAgentAssumption
<1>8. sent \in Signalled
  BY <1>1, <1>7 DEF Signalled
<1> HIDE DEF sent
<1>9. tasks' \in Seq(Signalled) /\ Len(tasks') <= announced'
  <2>1. tasks \in Seq(Signalled) /\ announced \in Nat /\ announced' = announced
    BY <1>3 DEF TasksInv, SignalsInv
  <2>2. CASE tasks' = tasks
    BY <1>2, <2>1, <2>2
  <2>3. CASE tasks' = Append(tasks, sent)
    BY <1>2, <1>8, <2>1, <2>3
  <2> QED BY <1>5, <2>2, <2>3
<1>10. ASSUME NEW i \in DOMAIN tasks'
       PROVE  /\ Last(tasks'[i].signals) = tasks'[i].entity
              /\ \/ Len(tasks'[i].signals) >= AnomalousRatio
                 \/ Len(tasks'[i].signals) = TaskSignals
  <2>1. CASE i \in DOMAIN tasks
    <3>1. tasks \in Seq(Signalled)
      BY DEF TasksInv, SignalsInv
    <3>2. tasks'[i] = tasks[i]
      BY <1>5, <2>1, <3>1
    <3> QED BY <2>1, <3>2 DEF TasksInv, TasksAreAnnounced
  <2>2. CASE i \notin DOMAIN tasks
    <3>1. tasks \in Seq(Signalled)
      BY DEF TasksInv, SignalsInv
    <3>2. tasks'[i] = sent
      BY <1>5, <2>2, <3>1
    <3> QED BY <1>7, <3>2 DEF sent
  <2> QED BY <2>1, <2>2
<1>11. TasksAreAnnounced'
  BY <1>9, <1>10 DEF TasksAreAnnounced
<1>12. SignalsInv'
  BY <1>1, <1>3, <1>4, <1>9 DEF TasksInv, SignalsInv
<1>13. AnnouncedInv'
  BY <1>4, <1>9 DEF AnnouncedInv
<1> QED BY <1>11, <1>12, <1>13 DEF TasksInv

LEMMA InAgentTasks ==
  ASSUME TasksInv, InAgent, AnomalousRatio <= 1000
  PROVE  TasksInv'
<1> USE DEF TasksInv
<1>1. CASE TelemetryTurn \/ ForecastTurn \/ ProbeNext \/ ReportHealth \/ Subscribe \/ LoseNats
           \/ (\E list \in StreamLists : CreateStream(list))
           \/ (\E s \in Probed, a \in {"up", "failing", "down"} : ServiceBecomes(s, a))
  <2>1. UNCHANGED <<queue, handling, window, announced, tasks>>
    BY <1>1 DEF TelemetryTurn, ForecastTurn, LoopTurn, ProbeNext, ReportHealth, Subscribe, LoseNats,
         CreateStream, ServiceBecomes
  <2> QED BY <2>1 DEF SignalsInv, AnnouncedInv, TasksAreAnnounced
<1>2. CASE Deliver
  <2>1. handling' = [signal |-> Head(queue), step |-> "new"] /\ handling = Nothing /\ queue # << >>
        /\ UNCHANGED <<queue, window, announced, tasks>>
    BY <1>2 DEF Deliver
  <2>2. handling'.step = "new" /\ handling'.signal \in Entities
    BY <2>1 DEF SignalsInv
  <2> QED BY <2>1, <2>2 DEF SignalsInv, AnnouncedInv, TasksAreAnnounced, Nothing
<1>3. CASE Correlate
  BY <1>3, CorrelateKeeps
<1>4. CASE SendTask
  BY <1>4, SendTaskKeeps
<1>5. CASE Ack \/ AckTooLate \/ RestartObs
  <2>1. handling' = Nothing /\ UNCHANGED <<announced, tasks>> /\ window' \in {window, << >>}
    BY <1>5 DEF Ack, AckTooLate, RestartObs, Started
  <2>2. queue' \in Seq(Entities)
    <3>1. queue' = queue \/ (handling.step = "ack" /\ queue' = Tail(queue))
      BY <1>5 DEF Ack, AckTooLate, RestartObs
    <3>2. queue \in Seq(Entities) /\ (handling.step = "ack" => queue # << >>)
      BY DEF SignalsInv
    <3> QED BY <3>1, <3>2
  <2>3. Len(tasks) <= announced
    BY DEF AnnouncedInv, SignalsInv
  <2>4. window' \in Seq(Entities)
    <3>1. window \in Seq(Entities) /\ << >> \in Seq(Entities)
      BY DEF SignalsInv
    <3> QED BY <2>1, <3>1
  <2>5. SignalsInv'
    BY <2>1, <2>2, <2>4 DEF SignalsInv, Nothing
  <2> QED BY <2>1, <2>3, <2>5 DEF AnnouncedInv, TasksAreAnnounced, Nothing
<1>6. CASE \E e \in Entities : Signal(e)
  <2>1. queue' \in Seq(Entities) /\ queue' # << >>
    BY <1>6 DEF Signal, SignalsInv
  <2>2. UNCHANGED <<handling, window, announced, tasks>>
    BY <1>6 DEF Signal
  <2> QED BY <2>1, <2>2 DEF SignalsInv, AnnouncedInv, TasksAreAnnounced
<1> QED BY <1>1, <1>2, <1>3, <1>4, <1>5, <1>6 DEF InAgent

\* A decision task stands on an anomaly that went out and on enough signals of its window,
\* whatever is redelivered or lost, where the ratio of an anomaly is at most the absolute
\* threshold of classify_threshold, as in the code (on_sentinel).
THEOREM DecisionsAreAnnounced ==
  ASSUME AnomalousRatio <= 1000
  PROVE  Spec => []TasksAreAnnounced
<1>1. Init => TasksInv
  BY DEF Init, ObsInit, TasksInv, SignalsInv, AnnouncedInv, TasksAreAnnounced, Nothing
<1>2. TasksInv /\ [Next]_vars => TasksInv'
  <2> SUFFICES ASSUME TasksInv, [Next]_vars PROVE TasksInv'
    OBVIOUS
  <2>1. CASE InAgent
    BY <2>1, InAgentTasks
  <2>2. CASE UNCHANGED obsVars
    BY <2>2 DEF obsVars, TasksInv, SignalsInv, AnnouncedInv, TasksAreAnnounced
  <2> QED BY <2>1, <2>2 DEF Next, Ask, Unavailable, Answer, Fetch, vars
<1>3. TasksInv => TasksAreAnnounced
  BY DEF TasksInv
<1> QED BY <1>1, <1>2, <1>3, PTL DEF Spec
=============================================================================
