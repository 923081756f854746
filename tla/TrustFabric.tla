---------------------------- MODULE TrustFabric -----------------------------
(***************************************************************************)
(* The trust engine with the services around it.  Evaluations come over    *)
(* HTTP, from the bus and from cortex-edge-inference, which records a      *)
(* signal with cortex-audit first.  The handlers of one process share the  *)
(* profile of an entity and are suspended at every publish and every       *)
(* read of a request body.  A low score publishes a task to prepare a SOT; *)
(* the remediation agent has the engine issue it; the engine announces     *)
(* each change of a SOT; the observer has somebody watch its entity.       *)
(*                                                                         *)
(* Profiles and SOTs live in memory: a restart forgets them.  A malformed  *)
(* evaluation raises before it changes anything and is left out, with the  *)
(* reads (profile, SOT, impact) that change nothing.                       *)
(***************************************************************************)
EXTENDS TrustScoring

CONSTANTS Entities,    \* the entities evaluated
          Handlers,    \* evaluations in flight at a time
          Bodies,      \* what evaluations are asked with
          Sessions,    \* requests to the edge service
          Contexts,    \* the sets of hints a session may show
          Configs,     \* the settings the services may run with
          Tokens,      \* bound: the SOTs issued
          Ttl,         \* ttl_seconds of a SOT, in ticks
          MaxTime      \* bound of the clock

\* auditRequired, forwardRequired: of the edge; edge: the flag of the trust engine.
Settings == [auditRequired : BOOLEAN, forwardRequired : BOOLEAN, edge : BOOLEAN]

ASSUME FabricAssumption ==
  /\ Configs \subseteq Settings /\ Ttl \in Nat /\ MaxTime \in Nat
  /\ \A b \in Bodies : IsFiniteSet(b.evidences)

VARIABLES config,      \* the settings of this deployment
          profile,     \* profile[e]: [score, eligibility], and what they rest on
          handler,     \* handler[h]: the set of [entity, session], an evaluation suspended, or {}
          tasks,       \* prepare_issue_sot tasks the bus holds
          session,     \* session[x]: where the request to the edge is
          audited,     \* the sessions whose signal cortex-audit recorded
          now,         \* the clock
          sot,         \* sot[t]: the set holding the record of t, or {}
          revoking,    \* revoking[t]: the set holding the copy a revocation read, or {}
          announced,   \* SOT messages the stream holds for the observer
          watching,    \* the observer's handler: the set of the message it handles
          watched,     \* the tokens a watch task was published for
          inferred,    \* history: the sessions whose evidence the engine judged
          issued,      \* history: the tokens issued
          missed       \* history: the tokens whose watch raised

evaluation == <<profile, handler, tasks, inferred>>
edge == <<session, audited>>
observer == <<announced, watching, watched, missed>>
tokens == <<now, sot, revoking, issued>>
vars == <<config, evaluation, edge, observer, tokens>>

\* strong, sources and exposed are a history: of the evaluation that wrote the profile.
Fresh == [score |-> 85, eligibility |-> "none", strong |-> 0, sources |-> 0, exposed |-> FALSE]

Init ==
  /\ config \in Configs
  /\ profile = [e \in Entities |-> Fresh]
  /\ handler = [h \in Handlers |-> {}]
  /\ tasks = {} /\ inferred = {}
  /\ session = [x \in Sessions |-> "new"] /\ audited = {}
  /\ announced = {} /\ watching = {} /\ watched = {} /\ missed = {}
  /\ now = 0 /\ issued = {}
  /\ sot = [t \in Tokens |-> {}] /\ revoking = [t \in Tokens |-> {}]

-----------------------------------------------------------------------------
\* Trust evaluation.
Retained(body) == {e \in body.evidences : config.edge \/ e.source # "edge_inference"}

\* _internal_evaluate on the profile as it is.  The threat level, only told, is left out.
Verdict(entity, body) ==
  LET evidences == Retained(body)
      strong == Cardinality({e \in evidences : IsStrong(e)})
      sources == Cardinality({e.source : e \in evidences})
      score == ScoreEvidences(profile[entity].score, evidences, body.criticality)
  IN  [score |-> score,
       eligibility |-> ResponseEligibilityFor(score, strong, sources, body.exposed),
       strong |-> strong, sources |-> sources, exposed |-> body.exposed]

\* The profile is written in one go, then the decision is published.
Judge(h, entity, body, from) ==
  /\ handler[h] = {}
  /\ profile' = [profile EXCEPT ![entity] = Verdict(entity, body)]
  /\ inferred' = inferred \cup from
  /\ handler' = [handler EXCEPT ![h] = {[entity |-> entity, session |-> from]}]
  /\ UNCHANGED tasks

\* POST /trust/evaluate/v2, or a message on cortex.trust.updates.
Evaluate(h) ==
  \E e \in Entities, b \in Bodies :
    Judge(h, e, b, {}) /\ UNCHANGED <<config, edge, observer, tokens>>

Due(p) == p.score < 55 /\ p.eligibility \in {"reversible_only", "approval_gated"}

\* Mutant: the eligibility, read before the suspension, is not looked at again.
PublishOnScore(e, lost) ==
  tasks' = IF profile[e].score < 55 /\ ~lost
           THEN tasks \cup {[entity |-> e, says |-> profile[e]]} ELSE tasks

\* Whether a task is due is read from the profile again, where another evaluation may
\* have written; a publish that fails is passed over.
PublishTask(e, lost) ==
  tasks' = IF Due(profile[e]) /\ ~lost
           THEN tasks \cup {[entity |-> e, says |-> profile[e]]} ELSE tasks

\* The decision is published: the task and the answer follow, and a session that still
\* waits for the answer is served.
Decide(h) ==
  /\ \E d \in handler[h], lost \in BOOLEAN :
       /\ PublishTask(d.entity, lost)
       /\ session' = [x \in Sessions |->
            IF x \in d.session /\ session[x] = "waiting" THEN "served" ELSE session[x]]
  /\ handler' = [handler EXCEPT ![h] = {}]
  /\ UNCHANGED <<config, profile, inferred, audited, observer, tokens>>

-----------------------------------------------------------------------------
\* The edge service.  AuditDecisions are the values the audit service validates.
AuditDecisions == {"allow", "deny", "monitor", "step_up"}
EdgeDecision == "recorded"

\* write_event: an event that does not validate is refused with 422 and not stored.
Records(x) == IF EdgeDecision \in AuditDecisions THEN audited \cup {x} ELSE audited

\* Mutant: what the audit service answers is not looked at.
AuditIgnored(x, up) ==
  /\ audited' = IF config.auditRequired /\ up THEN Records(x) ELSE audited
  /\ session' = [session EXCEPT ![x] = "forwarding"]

\* _audit_signal: fail closed, when the audit is required.
AuditSignal(x, up) ==
  LET stored == IF config.auditRequired /\ up THEN Records(x) ELSE audited
  IN  /\ audited' = stored
      /\ session' = [session EXCEPT
           ![x] = IF config.auditRequired => x \in stored THEN "forwarding"
                  ELSE IF up THEN "refused" ELSE "unavailable"]

Infer(x) ==
  /\ session[x] = "new"
  /\ \E up \in BOOLEAN : AuditSignal(x, up)
  /\ UNCHANGED <<config, evaluation, observer, tokens>>

\* _forward_to_trust: the evaluation runs in the trust engine.  One piece of evidence
\* makes nothing eligible, whatever the session exposes.
Forward(x, h) ==
  /\ session[x] = "forwarding"
  /\ session' = [session EXCEPT ![x] = "waiting"]
  /\ \E e \in Entities, hints \in Contexts :
       Judge(h, e, [evidences |-> {EdgeEvidence(hints)}, criticality |-> "normal",
                    exposed |-> TRUE], {x})
  /\ UNCHANGED <<config, audited, observer, tokens>>

\* The edge gives up after its timeout, or cannot connect; the evaluation may go on.
ForwardFails(x) ==
  /\ session[x] \in {"forwarding", "waiting"}
  /\ session' = [session EXCEPT
       ![x] = IF config.forwardRequired THEN "unavailable" ELSE "degraded"]
  /\ UNCHANGED <<config, evaluation, audited, observer, tokens>>

-----------------------------------------------------------------------------
\* Suspicion observation tokens.  A record is active until it is revoked or runs out.
Active(t) == \E r \in sot[t] : ~r.revoked /\ r.expires > now

\* Every change is announced, if the publish does not fail.
Announce(t) == announced' \in {announced, announced \cup {t}}

\* POST /trust/sot/issue, by the remediation agent for a task, which stays in the
\* stream until the agent acknowledged it: a task may issue more than one SOT.
IssueSot(t) ==
  /\ t \notin issued
  /\ \E m \in tasks :
       /\ sot' = [sot EXCEPT ![t] = {[entity |-> m.entity, expires |-> now + Ttl, revoked |-> FALSE]}]
       /\ tasks' \in {tasks, tasks \ {m}}
  /\ issued' = issued \cup {t}
  /\ Announce(t)
  /\ UNCHANGED <<config, profile, handler, inferred, edge, watching, watched,
                 missed, now, revoking>>

\* POST /trust/sot/{token_id}/expire: no suspension before the record is written.
ExpireSot(t) ==
  /\ \E r \in sot[t] :
       sot' = [sot EXCEPT ![t] = {[r EXCEPT !.expires = Lesser(@, now)]}]
  /\ Announce(t)
  /\ UNCHANGED <<config, evaluation, edge, watching, watched, missed, now, revoking, issued>>

\* POST /trust/sot/{token_id}/revoke reads the record, and then the body of the request
\* (bound: one revocation of a token at a time).
ReadToRevoke(t) ==
  /\ revoking[t] = {}
  /\ sot[t] # {}
  /\ revoking' = [revoking EXCEPT ![t] = sot[t]]
  /\ UNCHANGED <<config, evaluation, edge, observer, now, sot, issued>>

\* Mutant: the revocation is noted in the metadata only.
RevokedInMetadata(r) == r

\* revoke_sot.
Revoked(r) == [r EXCEPT !.revoked = TRUE]

\* The copy it read goes over whatever the record has become.
RevokeSot(t) ==
  /\ \E r \in revoking[t] : sot' = [sot EXCEPT ![t] = {Revoked(r)}]
  /\ revoking' = [revoking EXCEPT ![t] = {}]
  /\ Announce(t)
  /\ UNCHANGED <<config, evaluation, edge, watching, watched, missed, now, issued>>

Tick ==
  /\ now < MaxTime
  /\ now' = now + 1
  /\ UNCHANGED <<config, evaluation, edge, observer, sot, revoking, issued>>

\* The trust engine restarts.
Restart ==
  /\ profile' = [e \in Entities |-> Fresh]
  /\ handler' = [h \in Handlers |-> {}]
  /\ sot' = [t \in Tokens |-> {}]
  /\ revoking' = [t \in Tokens |-> {}]
  /\ UNCHANGED <<config, tasks, inferred, edge, observer, now, issued>>

-----------------------------------------------------------------------------
\* Mutant: the observer acknowledges before it publishes.
TakeAndAcknowledge(t) ==
  /\ t \in announced
  /\ watching = {}
  /\ watching' = {t}
  /\ announced' = announced \ {t}
  /\ UNCHANGED <<config, evaluation, edge, watched, missed, tokens>>

\* The observer: on_sot, one message at a time.
TakeSot(t) ==
  /\ t \in announced
  /\ watching = {}
  /\ watching' = {t}
  /\ UNCHANGED <<config, evaluation, edge, announced, watched, missed, tokens>>

\* The message is acknowledged in any case, also when the publish raised.
WatchSot(t) ==
  /\ t \in watching
  /\ \/ watched' = watched \cup {t} /\ UNCHANGED missed
     \/ missed' = missed \cup {t} /\ UNCHANGED watched
  /\ watching' = {}
  /\ announced' = announced \ {t}
  /\ UNCHANGED <<config, evaluation, edge, tokens>>

\* The observer restarts: the stream delivers the message again.
ObserverRestarts ==
  /\ watching # {}
  /\ watching' = {}
  /\ UNCHANGED <<config, evaluation, edge, announced, watched, missed, tokens>>

-----------------------------------------------------------------------------
Next ==
  \/ \E h \in Handlers : Evaluate(h) \/ Decide(h)
  \/ \E x \in Sessions : Infer(x) \/ ForwardFails(x) \/ \E h \in Handlers : Forward(x, h)
  \/ \E t \in Tokens : IssueSot(t) \/ ExpireSot(t) \/ ReadToRevoke(t) \/ RevokeSot(t)
  \/ \E t \in Tokens : TakeSot(t) \/ WatchSot(t)
  \/ Tick
  \/ Restart
  \/ ObserverRestarts

\* The observer's subscription is served; that its process is not restarted in every
\* single delivery is what the strong fairness of the publish says.
Fairness == \A t \in Tokens : WF_vars(TakeSot(t)) /\ SF_vars(WatchSot(t))

Spec == Init /\ [][Next]_vars /\ Fairness
-----------------------------------------------------------------------------
Profiles == [score : 0..100, eligibility : Eligibilities,
             strong : Nat, sources : Nat, exposed : BOOLEAN]
SotRecords == [entity : Entities, expires : 0..MaxTime + Ttl, revoked : BOOLEAN]
SessionStates == {"new", "forwarding", "waiting", "served", "degraded", "refused", "unavailable"}

AtMostOne(S) == \A a, b \in S : a = b

\* Types; a suspended handler knows its entity, only an issued token has a record, and
\* only announced tokens are watched.
TypeOK ==
  /\ config \in Configs
  /\ profile \in [Entities -> Profiles]
  /\ handler \in [Handlers -> SUBSET [entity : Entities, session : SUBSET Sessions]]
  /\ \A h \in Handlers : AtMostOne(handler[h])
  /\ tasks \subseteq [entity : Entities, says : Profiles]
  /\ session \in [Sessions -> SessionStates]
  /\ audited \subseteq Sessions /\ inferred \subseteq Sessions
  /\ now \in 0..MaxTime
  /\ sot \in [Tokens -> SUBSET SotRecords] /\ revoking \in [Tokens -> SUBSET SotRecords]
  /\ \A t \in Tokens : AtMostOne(sot[t]) /\ AtMostOne(revoking[t])
  /\ issued \subseteq Tokens
  /\ \A t \in Tokens \ issued : sot[t] = {} /\ revoking[t] = {}
  /\ announced \cup watching \cup watched \cup missed \subseteq issued

\* A SOT task on the bus rests on one evaluation of its entity, with two strong signals
\* and either an exposure or two sources and a score under 40, under 20 where it says that
\* an approval is due.  The handler that publishes it reads score and eligibility from the
\* shared profile after a suspension, and may be another than the one that found them.
TaskIsCorroborated ==
  \A m \in tasks :
    /\ m.says.strong >= 2
    /\ \/ m.says.exposed
       \/ /\ m.says.sources >= 2
          /\ m.says.score < IF m.says.eligibility = "approval_gated" THEN 20 ELSE 40

\* A SOT that was issued and is not active, for whatever reason (revoked, expired, run
\* out or forgotten), is never active again, though a revocation writes back a copy of
\* the record as it was before.
InactiveStaysInactive ==
  [][\A t \in issued : ~Active(t) => ~Active(t)']_vars

\* Fail closed: while the audit is required, no evidence of a session the audit service
\* did not record reaches the trust engine.
EdgeFailsClosed == config.auditRequired => inferred \subseteq audited

\* A SOT announced on the stream is watched in the end, however often the observer
\* restarts, unless the publish of the watch task raises.
SotIsWatched ==
  \A t \in Tokens : t \in announced ~> t \in watched \cup missed
=============================================================================
