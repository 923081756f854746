----------------------------- MODULE ControlRoom -----------------------------
(***************************************************************************)
(* The dashboard of the console over the services it reads.                *)
(*                                                                         *)
(* GET /api/dashboard asks eight sources at once and waits for all.  Five  *)
(* of them, when they cannot be reached, make it answer 503; the metrics,  *)
(* cortex-auth and cortex-sync then count as empty.  What each answers is  *)
(* read when it is asked, so that one dashboard joins several moments of   *)
(* the system, while tokens are issued and expire and services restart.    *)
(*                                                                         *)
(* The metrics, the graph, whose overview never changes, the approvals and *)
(* the decision surface are inputs: what the latter two answer is left to  *)
(* choice within what their code may answer.                               *)
(***************************************************************************)
EXTENDS ControlServices, ObsAgent, Advisors, AuditTrail

CONSTANTS TrustEngine, Envoy,   \* the two services whose latency is shown
          Approvals,            \* how many pending approvals there may be
          Surfaces,             \* what the decision surface may find
          Loads                 \* bounds: how often each kind of thing may happen

Kinds == {"issue", "expire", "restartAuth", "job", "clock", "restartSync", "post",
          "restartGateway", "connect", "stream", "signal", "late", "tick", "service", "lose",
          "restartObs", "ask", "fingerprint", "days", "conduct", "deed", "restartAdvisor",
          "audit", "restartAudit"}

\* The warnings of the decision surface.  Governance that answers other than 2xx counts as
\* unreachable with every task ready, health that fails as no provider.
SurfaceWarnings(found) ==
  (IF found.reachable THEN {} ELSE {"mcp unreachable"}) \cup
  (IF found.ready THEN {} ELSE {"tasks without a model"}) \cup
  (IF found.provider THEN {} ELSE {"no provider"})

ASSUME ControlRoomAssumption ==
  /\ {TrustEngine, Envoy} \subseteq Probed
  /\ Approvals \subseteq Nat
  /\ Surfaces \subseteq [reachable : BOOLEAN, ready : BOOLEAN, provider : BOOLEAN]
  /\ Loads \subseteq [Kinds -> Nat]

VARIABLES asking,  \* a dashboard is under way
          got,     \* got[s]: the answer of source s so far: one value, or none if it failed
          held,    \* history: the sessions with a valid token ever since it was asked
          shown,   \* the last dashboard answered
          load     \* bound: what may still happen

dashboardVars == <<asking, got, held, shown>>
vars == <<svcVars, obsVars, advisorVars, auditVars, dashboardVars, load>>

Timed == {"feed", "health", "auth", "sync"}
Blank == [status |-> 0]

Init ==
  /\ ServicesInit /\ ObsInit /\ AdvisorsInit /\ AuditInit
  /\ asking = FALSE
  /\ got = Nobody
  /\ held = {}
  /\ shown = Blank
  /\ load \in Loads
  /\ nats = "open" => load["connect"] > 0
  /\ ~pooled => load["audit"] > 0

Spend(kind) == load[kind] > 0 /\ load' = [load EXCEPT ![kind] = @ - 1]

\* Sessions a token validates for.
ValidSessions == {tokens[i].claims.session : i \in {i \in DOMAIN tokens : Validates(tokens[i])}}

-----------------------------------------------------------------------------
\* The dashboard.

Ask ==
  /\ ~asking
  /\ Spend("ask")
  /\ asking' = TRUE
  /\ held' = ValidSessions
  /\ UNCHANGED <<svcVars, obsVars, advisorVars, auditVars, got, shown>>

\* What source s answers now.
Answers(s) ==
  CASE s = "feed" -> {Len(SelectSeq(feed, LAMBDA e : e.severity >= 4))}
    [] s = "health" -> {health}
    [] s = "auth" -> {[active |-> SessionSummary.active, lowTrust |-> SessionSummary.lowTrust]}
    [] s = "sync" -> {[pending |-> y.pending] : y \in SyncSummaries}

\* It answers, or fails: with a status other than 2xx or, for cortex-auth and cortex-sync,
\* with no connection at all.
Fetch(s) ==
  /\ asking /\ s \notin DOMAIN got
  /\ \E answer \in {{}} \cup {{a} : a \in Answers(s)} : got' = Put(got, s, answer)
  /\ UNCHANGED <<svcVars, obsVars, advisorVars, auditVars, asking, held, shown, load>>

\* A fetch of the feed, the health, the approvals, the graph or the surface rejects.
Unavailable ==
  /\ asking
  /\ asking' = FALSE
  /\ got' = Nobody
  /\ shown' = [status |-> 503]
  /\ held' = {}
  /\ UNCHANGED <<svcVars, obsVars, advisorVars, auditVars, load>>

\* healthLatency: 0 for a service unreachable, unknown, or asked of an agent that failed.
Latency(s) ==
  IF \E h \in got["health"] : h[s] \in {"healthy", "degraded"} THEN 1 ELSE 0

\* The types of the nodes of the graph, and of none when it fails.
Overview == <<"user", "group", "resource">>
SessionNodes(graph) == {n \in DOMAIN graph : graph[n] = "session"}

\* The answer of s, or what stands in for it.
Shown(s, standIn) ==
  IF got[s] = {} THEN standIn ELSE CHOOSE answer \in got[s] : TRUE

ActiveSessions(graph) ==
  Shown("auth", [active |-> Cardinality(SessionNodes(graph)), lowTrust |-> 0]).active

\* The warnings the dashboard adds to those of the surface.
Gaps(metrics, active) ==
  (IF metrics = "" THEN {"metrics"} ELSE {}) \cup
  (IF active = 0 THEN {"sessions"} ELSE {}) \cup
  (IF Latency(TrustEngine) = 0 THEN {"trust latency"} ELSE {}) \cup
  (IF Latency(Envoy) = 0 THEN {"envoy latency"} ELSE {})

\* A failed answer of the surface counts as no warning, one of the approvals as none
\* pending, one of the feed or of cortex-sync as nothing critical and nothing to do.
Dashboard(metrics, graph, approvals, warnings) ==
  [status |-> 200,
   critical |-> Shown("feed", 0),
   approvals |-> approvals,
   active |-> ActiveSessions(graph),
   lowTrust |-> Shown("auth", [active |-> 0, lowTrust |-> 0]).lowTrust,
   trustLatency |-> Latency(TrustEngine),
   envoyLatency |-> Latency(Envoy),
   pending |-> Shown("sync", [pending |-> 0]).pending,
   warnings |-> warnings \cup Gaps(metrics, ActiveSessions(graph)),
   held |-> held]

Answer ==
  /\ asking
  /\ DOMAIN got = Timed
  /\ \E metrics \in {"", "some"}, graph \in {Overview, <<>>},
        approvals \in Approvals \cup {0}, warnings \in {SurfaceWarnings(f) : f \in Surfaces} \cup {{}} :
       shown' = Dashboard(metrics, graph, approvals, warnings)
  /\ asking' = FALSE
  /\ got' = Nobody
  /\ held' = {}
  /\ UNCHANGED <<svcVars, obsVars, advisorVars, auditVars, load>>

-----------------------------------------------------------------------------
\* The services and the agent, within the load.

InServices ==
  \/ Spend("issue") /\ \E q \in Requests : IssueToken(q)
  \/ Spend("expire") /\ ExpireOldest
  \/ Spend("restartAuth") /\ RestartAuth
  \/ Spend("job") /\ \E m \in Modes, o \in Sources : QueueSync(m, o)
  \/ Spend("job") /\ \E m \in Modes, o \in Sources : QueueSyncFails(m, o)
  \/ Spend("clock") /\ ClockAdvances
  \/ Spend("restartSync") /\ RestartSync
  \/ Spend("post") /\ \E p \in Posts : Enqueue(p)
  \/ (\E p \in Posts : AuditAndAnswer(p)) /\ UNCHANGED load
  \/ Spend("restartGateway") /\ RestartGateway

InAgent ==
  \/ Spend("tick") /\ (TelemetryTurn \/ ForecastTurn)
  \/ (ProbeNext \/ ReportHealth \/ Subscribe \/ Deliver \/ Correlate \/ SendTask \/ Ack)
     /\ UNCHANGED load
  \/ Spend("late") /\ AckTooLate
  \/ Spend("signal") /\ \E e \in Entities : Signal(e)
  \/ Spend("stream") /\ \E list \in StreamLists : CreateStream(list)
  \/ Spend("service") /\ \E s \in Probed, a \in {"up", "failing", "down"} : ServiceBecomes(s, a)
  \/ Spend("lose") /\ LoseNats
  \/ Spend("restartObs") /\ RestartObs /\ (nats' = "open" => load["connect"] > 0)

InAdvisors ==
  \/ Spend("fingerprint") /\ \E f \in Fingerprints, age \in Ages : StoreEvent(f, age)
  \/ Spend("days") /\ \E n \in Pauses : DaysPass(n)
  \/ Spend("conduct") /\ \E p \in Staff, c \in Conducts : IngestConduct(p, c)
  \/ Spend("deed") /\ \E p \in Staff, d \in Deeds : IngestDeed(p, d)
  \/ /\ Spend("restartAdvisor")
     /\ RestartCampaignMemory \/ RestartInsiderDecay \/ RestartAdminAnomaly

InAudit ==
  \/ Spend("audit") /\ \E e \in AuditEvents : WriteEvent(e)
  \/ (\E payload \in inserting : Inserted(payload) \/ InsertFails(payload)) /\ UNCHANGED load
  \/ Spend("restartAudit") /\ RestartAudit

Next ==
  \/ Ask \/ Unavailable \/ Answer
  \/ \E s \in Timed : Fetch(s)
  \/ /\ InServices
     /\ held' = held \cap ValidSessions'
     /\ UNCHANGED <<obsVars, advisorVars, auditVars, asking, got, shown>>
  \/ InAgent /\ UNCHANGED <<svcVars, advisorVars, auditVars, dashboardVars>>
  \/ InAdvisors /\ UNCHANGED <<svcVars, obsVars, auditVars, dashboardVars>>
  \/ InAudit /\ UNCHANGED <<svcVars, obsVars, advisorVars, dashboardVars>>

\* The event loop of the agent runs whatever is ready, and a sleep ends.
Spec ==
  /\ Init /\ [][Next]_vars
  /\ WF_vars((ProbeNext \/ ReportHealth)
             /\ UNCHANGED <<svcVars, advisorVars, auditVars, dashboardVars, load>>)

-----------------------------------------------------------------------------
\* Properties.

\* A dashboard that answers shows every session that had a valid token from its request
\* to its answer, or warns that it has none to show: a restart of cortex-auth forgets the
\* sessions and the key together, and nothing else forgets a session (api/handlers.go,
\* app/api/dashboard/route.ts).
SessionsAreShown ==
  shown.status = 200 =>
    shown.active >= Cardinality(shown.held) \/ "sessions" \in shown.warnings

\* The promises of cortex-sync and of cortex-gateway.
ServicesHold ==
  /\ promised \subseteq DOMAIN db
  /\ \A p \in Posts : posting[p] \in {"queued", "answered"} =>
       depth[p] \in DOMAIN events[Kind(p)] /\ events[Kind(p)][depth[p]] = p

\* What a service has answered it holds: a synchronisation answered 202 stays in the
\* store, whatever fails or restarts; a post answered with a depth is the event at that
\* place of its queue; a weak signal stored counts in every window its date is in; an
\* audit event recorded is found (cortex-sync main.go, httpapi/handler.go, store.py,
\* cortex_audit/main.py).
AnsweredIsHeld == ServicesHold /\ CampaignRemembers /\ TrailHolds

\* No decision is asked for that was not announced as an anomaly before, and none on
\* fewer signals of the stream than make one, the last of them about the entity to decide
\* on (on_sentinel).
TasksAreAnnounced ==
  /\ Len(tasks) <= announced
  /\ \A i \in DOMAIN tasks :
       /\ Last(tasks[i].signals) = tasks[i].entity
       /\ \/ Len(tasks[i].signals) >= AnomalousRatio
          \/ Len(tasks[i].signals) = TaskSignals

\* A service that stays up is in the end reported healthy for good, while the agent does
\* not lose its connection: no answer of any service ends the loop that asks them
\* (health_loop).
HealthConverges ==
  \A s \in Probed :
    <>[](service[s] = "up" /\ nats # "closed") => <>[](health[s] = "healthy")
=============================================================================
