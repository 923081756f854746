------------------------- MODULE TrustFabricProofs -------------------------
(***************************************************************************)
(* The trust engine keeps to its own words for any evidence, entities and  *)
(* number of evaluations at a time: a SOT that is over is over, and a task *)
(* to issue one is corroborated.  The edge service keeps evidence nobody   *)
(* recorded from it.                                                       *)
(***************************************************************************)
EXTENDS TrustFabric, FiniteSetTheorems, TLAPS

SotRecord == [entity : Entities, expires : Int, revoked : BOOLEAN]

\* The records of the engine and the copies revocations hold.
RecordsInv ==
  /\ now \in Nat /\ issued \subseteq Tokens
  /\ sot = [t \in Tokens |-> sot[t]] /\ revoking = [t \in Tokens |-> revoking[t]]
  /\ \A t \in Tokens : sot[t] \subseteq SotRecord /\ revoking[t] \subseteq SotRecord
  /\ \A m \in tasks : m.entity \in Entities
  /\ \A h \in Handlers : \A d \in handler[h] : d.entity \in Entities
  /\ handler = [h \in Handlers |-> handler[h]]

-----------------------------------------------------------------------------
LEMMA RecordsInit == Init => RecordsInv
BY DEF Init, RecordsInv

LEMMA JudgeKeepsHandlers ==
  ASSUME RecordsInv, NEW h \in Handlers, NEW e \in Entities, NEW body, NEW from,
         Judge(h, e, body, from), UNCHANGED tokens
  PROVE  RecordsInv'
<1>1. handler' = [handler EXCEPT ![h] = {[entity |-> e, session |-> from]}] /\ UNCHANGED tasks
  BY DEF Judge
<1>2. \A k \in Handlers : \A d \in handler'[k] : d.entity \in Entities
  BY <1>1 DEF RecordsInv
<1>3. handler' = [k \in Handlers |-> handler'[k]]
  BY <1>1 DEF RecordsInv
<1> QED BY <1>1, <1>2, <1>3 DEF RecordsInv, tokens

LEMMA RecordsStep == RecordsInv /\ [Next]_vars => RecordsInv'
<1> SUFFICES ASSUME RecordsInv, [Next]_vars PROVE RecordsInv'
  OBVIOUS
<1>1. ASSUME NEW h \in Handlers, Evaluate(h) PROVE RecordsInv'
  BY <1>1, JudgeKeepsHandlers DEF Evaluate
<1>2. ASSUME NEW h \in Handlers, Decide(h) PROVE RecordsInv'
  <2>1. UNCHANGED <<now, sot, revoking, issued>> /\ handler' = [handler EXCEPT ![h] = {}]
    BY <1>2 DEF Decide, tokens
  <2>2. \A m \in tasks' : m.entity \in Entities
    BY <1>2 DEF Decide, PublishTask, RecordsInv
  <2> QED BY <2>1, <2>2 DEF RecordsInv
<1>3. ASSUME NEW x \in Sessions, Infer(x) \/ ForwardFails(x) PROVE RecordsInv'
  BY <1>3 DEF Infer, ForwardFails, evaluation, tokens, RecordsInv
<1>4. ASSUME NEW x \in Sessions, NEW h \in Handlers, Forward(x, h) PROVE RecordsInv'
  BY <1>4, JudgeKeepsHandlers DEF Forward
<1>5. ASSUME NEW t \in Tokens, IssueSot(t) PROVE RecordsInv'
  <2> PICK m \in tasks :
         /\ sot' = [sot EXCEPT ![t] = {[entity |-> m.entity, expires |-> now + Ttl, revoked |-> FALSE]}]
         /\ tasks' \in {tasks, tasks \ {m}}
    BY <1>5 DEF IssueSot
  <2>1. [entity |-> m.entity, expires |-> now + Ttl, revoked |-> FALSE] \in SotRecord
    BY FabricAssumption DEF RecordsInv, SotRecord
  <2> QED BY <1>5, <2>1 DEF IssueSot, RecordsInv
<1>6. ASSUME NEW t \in Tokens, ExpireSot(t) PROVE RecordsInv'
  <2> PICK r \in sot[t] : sot' = [sot EXCEPT ![t] = {[r EXCEPT !.expires = Lesser(r.expires, now)]}]
    BY <1>6 DEF ExpireSot
  <2>1. [r EXCEPT !.expires = Lesser(r.expires, now)] \in SotRecord
    BY DEF RecordsInv, SotRecord, Lesser
  <2> QED BY <1>6, <2>1 DEF ExpireSot, evaluation, RecordsInv
<1>7. ASSUME NEW t \in Tokens, ReadToRevoke(t) PROVE RecordsInv'
  BY <1>7 DEF ReadToRevoke, evaluation, RecordsInv
<1>8. ASSUME NEW t \in Tokens, RevokeSot(t) PROVE RecordsInv'
  <2> PICK r \in revoking[t] : sot' = [sot EXCEPT ![t] = {Revoked(r)}]
    BY <1>8 DEF RevokeSot
  <2>1. Revoked(r) \in SotRecord
    BY DEF RecordsInv, SotRecord, Revoked
  <2> QED BY <1>8, <2>1 DEF RevokeSot, evaluation, RecordsInv
<1>9. ASSUME NEW t \in Tokens, TakeSot(t) \/ WatchSot(t) PROVE RecordsInv'
  BY <1>9 DEF TakeSot, WatchSot, evaluation, tokens, RecordsInv
<1>10. ASSUME Tick \/ ObserverRestarts PROVE RecordsInv'
  BY <1>10 DEF Tick, ObserverRestarts, evaluation, tokens, RecordsInv
<1>11. ASSUME Restart PROVE RecordsInv'
  BY <1>11 DEF Restart, RecordsInv
<1>12. ASSUME UNCHANGED vars PROVE RecordsInv'
  BY <1>12 DEF vars, evaluation, tokens, RecordsInv
<1> QED BY <1>1, <1>2, <1>3, <1>4, <1>5, <1>6, <1>7, <1>8, <1>9, <1>10, <1>11, <1>12 DEF Next

\* A SOT that was issued and is over stays so: an expiry sets a time that is past, and a
\* revocation, although it writes the record back as it read it before, revokes it first
\* (trust engine main.py, expire and revoke).
LEMMA OverStaysOver ==
  ASSUME RecordsInv, [Next]_vars, NEW t \in Tokens, t \in issued, ~Active(t)
  PROVE  ~Active(t)'
<1>1. ASSUME NEW u \in Tokens, IssueSot(u) PROVE ~Active(t)'
  <2>1. t # u /\ now' = now /\ \E new : sot' = [sot EXCEPT ![u] = new]
    BY <1>1 DEF IssueSot
  <2> QED BY <2>1 DEF Active, RecordsInv
<1>2. ASSUME NEW u \in Tokens, ExpireSot(u) PROVE ~Active(t)'
  <2> PICK r \in sot[u] : sot' = [sot EXCEPT ![u] = {[r EXCEPT !.expires = Lesser(r.expires, now)]}]
    BY <1>2 DEF ExpireSot
  <2>1. now' = now
    BY <1>2 DEF ExpireSot
  <2>2. r \in SotRecord /\ now \in Nat
    BY DEF RecordsInv
  <2>3. CASE t = u
    <3>1. sot'[t] = {[r EXCEPT !.expires = Lesser(r.expires, now)]}
      BY <2>3 DEF RecordsInv
    <3>2. ~([r EXCEPT !.expires = Lesser(r.expires, now)].expires > now)
      BY <2>2 DEF SotRecord, Lesser
    <3> QED BY <2>1, <3>1, <3>2 DEF Active
  <2>4. CASE t # u
    BY <2>1, <2>4 DEF Active, RecordsInv
  <2> QED BY <2>3, <2>4
<1>3. ASSUME NEW u \in Tokens, RevokeSot(u) PROVE ~Active(t)'
  <2> PICK r \in revoking[u] : sot' = [sot EXCEPT ![u] = {Revoked(r)}]
    BY <1>3 DEF RevokeSot
  <2>1. now' = now
    BY <1>3 DEF RevokeSot
  <2>2. Revoked(r).revoked
    BY DEF RecordsInv, SotRecord, Revoked
  <2>3. CASE t = u
    <3>1. sot'[t] = {Revoked(r)}
      BY <2>3 DEF RecordsInv
    <3> QED BY <2>2, <3>1 DEF Active
  <2>4. CASE t # u
    BY <2>1, <2>4 DEF Active, RecordsInv
  <2> QED BY <2>3, <2>4
<1>4. CASE Tick
  <2>1. \A r \in sot[t] : r.expires \in Int
    BY DEF RecordsInv, SotRecord
  <2> QED BY <1>4, <2>1 DEF Tick, Active, RecordsInv
<1>5. CASE Restart
  BY <1>5 DEF Restart, Active
<1>6. CASE UNCHANGED <<now, sot>>
  BY <1>6 DEF Active
<1> QED BY <1>1, <1>2, <1>3, <1>4, <1>5, <1>6
      DEF Next, vars, tokens, Evaluate, Decide, Infer, ForwardFails, Forward, ReadToRevoke,
          TakeSot, WatchSot, ObserverRestarts

\* No SOT comes back to life, for any lifetime and number of tokens.
THEOREM InactiveIsFinal == Spec => InactiveStaysInactive
<1>1. RecordsInv /\ [Next]_vars => [\A t \in issued : ~Active(t) => ~Active(t)']_vars
  <2> SUFFICES ASSUME RecordsInv, [Next]_vars, NEW t \in issued, ~Active(t)
               PROVE  ~Active(t)'
    OBVIOUS
  <2> QED BY OverStaysOver DEF RecordsInv
<1> QED BY RecordsInit, RecordsStep, <1>1, PTL DEF Spec, InactiveStaysInactive

-----------------------------------------------------------------------------
\* Evidence of an edge session reached the engine, or is on its way, only after the audit.
AuditInv ==
  /\ session = [x \in Sessions |-> session[x]]
  /\ config.auditRequired =>
       /\ inferred \subseteq audited
       /\ \A x \in Sessions : session[x] = "forwarding" => x \in audited

\* The audit of a signal fails closed, whichever values the audit service knows.
LEMMA AuditStep ==
  ASSUME AuditInv, NEW x \in Sessions, NEW up \in BOOLEAN, AuditSignal(x, up),
         UNCHANGED <<config, inferred>>
  PROVE  AuditInv'
<1> DEFINE stored == IF config.auditRequired /\ up THEN Records(x) ELSE audited
<1>1. audited \subseteq stored /\ audited' = stored
  BY DEF AuditSignal, Records
<1>2. session' = [session EXCEPT
        ![x] = IF config.auditRequired => x \in stored THEN "forwarding"
               ELSE IF up THEN "refused" ELSE "unavailable"]
  BY DEF AuditSignal
<1> HIDE DEF stored
<1>3. session' = [y \in Sessions |-> session'[y]]
  BY <1>2 DEF AuditInv
<1>4. ASSUME config.auditRequired, NEW y \in Sessions, session'[y] = "forwarding"
      PROVE  y \in audited'
  <2>1. CASE y = x
    BY <1>1, <1>2, <1>4, <2>1 DEF AuditInv
  <2>2. CASE y # x
    BY <1>1, <1>2, <1>4, <2>2 DEF AuditInv
  <2> QED BY <2>1, <2>2
<1> QED BY <1>1, <1>3, <1>4 DEF AuditInv

\* While the audit is required, the engine judges no evidence of a session that cortex-audit
\* did not record (edge main.py, _audit_signal before _forward_to_trust).
THEOREM UnauditedStaysOut == Spec => []EdgeFailsClosed
<1>1. Init => AuditInv
  BY DEF Init, AuditInv
<1>2. AuditInv /\ [Next]_vars => AuditInv'
  <2> SUFFICES ASSUME AuditInv, [Next]_vars PROVE AuditInv'
    OBVIOUS
  <2>1. ASSUME NEW h \in Handlers, Evaluate(h) PROVE AuditInv'
    BY <2>1 DEF Evaluate, Judge, edge, AuditInv
  <2>2. ASSUME NEW h \in Handlers, Decide(h) PROVE AuditInv'
    BY <2>2 DEF Decide, AuditInv
  <2>3. ASSUME NEW x \in Sessions, Infer(x) PROVE AuditInv'
    BY <2>3, AuditStep DEF Infer, evaluation
  <2>4. ASSUME NEW x \in Sessions, NEW h \in Handlers, Forward(x, h) PROVE AuditInv'
    <3>1. inferred' = inferred \cup {x} /\ session[x] = "forwarding" /\ UNCHANGED <<config, audited>>
          /\ session' = [session EXCEPT ![x] = "waiting"]
      BY <2>4 DEF Forward, Judge
    <3> QED BY <3>1 DEF AuditInv
  <2>5. ASSUME NEW x \in Sessions, ForwardFails(x) PROVE AuditInv'
    BY <2>5 DEF ForwardFails, evaluation, AuditInv
  <2>6. CASE UNCHANGED <<config, inferred, edge>>
    BY <2>6 DEF edge, AuditInv
  <2> QED BY <2>1, <2>2, <2>3, <2>4, <2>5, <2>6
        DEF Next, vars, evaluation, IssueSot, ExpireSot, ReadToRevoke, RevokeSot, TakeSot,
            WatchSot, Tick, Restart, ObserverRestarts
<1>3. AuditInv => EdgeFailsClosed
  BY DEF AuditInv, EdgeFailsClosed
<1> QED BY <1>1, <1>2, <1>3, PTL DEF Spec

-----------------------------------------------------------------------------
Corroborated(p) ==
  /\ p.strong >= 2
  /\ \/ p.exposed
     \/ p.sources >= 2 /\ p.score < IF p.eligibility = "approval_gated" THEN 20 ELSE 40

\* A profile that makes a SOT eligible is corroborated, whichever evaluation wrote it.
ProfilesInv ==
  /\ profile = [e \in Entities |-> profile[e]]
  /\ \A e \in Entities :
       profile[e].eligibility \in {"reversible_only", "approval_gated"} => Corroborated(profile[e])
  /\ \A m \in tasks : Corroborated(m.says)

LEMMA VerdictIsCorroborated ==
  ASSUME NEW e, NEW body, IsFiniteSet(body.evidences),
         Verdict(e, body).eligibility \in {"reversible_only", "approval_gated"}
  PROVE  Corroborated(Verdict(e, body))
<1> DEFINE strong == {x \in Retained(body) : IsStrong(x)}
           sources == {x.source : x \in Retained(body)}
           score == ScoreEvidences(profile[e].score, Retained(body), body.criticality)
<1>1. strong \subseteq body.evidences
  BY DEF Retained
<1>2. Cardinality(strong) \in Nat
  BY <1>1, FS_Subset, FS_CardinalityType
<1>3. Verdict(e, body) =
        [score |-> score,
         eligibility |-> ResponseEligibilityFor(score, Cardinality(strong), Cardinality(sources),
                                                body.exposed),
         strong |-> Cardinality(strong), sources |-> Cardinality(sources), exposed |-> body.exposed]
  BY DEF Verdict
<1> HIDE DEF strong, sources, score
<1> QED BY <1>2, <1>3 DEF ResponseEligibilityFor, Corroborated

LEMMA JudgeKeepsProfiles ==
  ASSUME ProfilesInv, NEW h, NEW e \in Entities, NEW body, IsFiniteSet(body.evidences), NEW from,
         Judge(h, e, body, from)
  PROVE  ProfilesInv'
<1>1. profile' = [profile EXCEPT ![e] = Verdict(e, body)] /\ UNCHANGED tasks
  BY DEF Judge
<1>2. ASSUME NEW f \in Entities, profile'[f].eligibility \in {"reversible_only", "approval_gated"}
      PROVE  Corroborated(profile'[f])
  <2>1. CASE f = e
    <3>1. profile'[f] = Verdict(e, body)
      BY <1>1, <2>1 DEF ProfilesInv
    <3> QED BY <1>2, <3>1, VerdictIsCorroborated
  <2>2. CASE f # e
    <3>1. profile'[f] = profile[f]
      BY <1>1, <2>2 DEF ProfilesInv
    <3> QED BY <1>2, <3>1 DEF ProfilesInv
  <2> QED BY <2>1, <2>2
<1> QED BY <1>1, <1>2 DEF ProfilesInv, Corroborated

\* The task to issue a SOT carries a corroborated evaluation, although another evaluation
\* may have replaced the one that found it due (trust engine main.py, evaluate).
THEOREM TasksAreCorroborated == Spec => []TaskIsCorroborated
<1>1. Init => ProfilesInv
  BY DEF Init, ProfilesInv, Fresh
<1>2. ProfilesInv /\ RecordsInv /\ [Next]_vars => ProfilesInv'
  <2> SUFFICES ASSUME ProfilesInv, RecordsInv, [Next]_vars PROVE ProfilesInv'
    OBVIOUS
  <2>1. ASSUME NEW h \in Handlers, Evaluate(h) PROVE ProfilesInv'
    BY <2>1, JudgeKeepsProfiles, FabricAssumption DEF Evaluate
  <2>2. ASSUME NEW h \in Handlers, Decide(h) PROVE ProfilesInv'
    <3> PICK d \in handler[h], lost \in BOOLEAN : PublishTask(d.entity, lost)
      BY <2>2 DEF Decide
    <3>1. profile' = profile
      BY <2>2 DEF Decide
    <3>2. tasks' = tasks \/ ( /\ tasks' = tasks \cup {[entity |-> d.entity, says |-> profile[d.entity]]}
                            /\ Corroborated(profile[d.entity]) )
      BY DEF PublishTask, Due, ProfilesInv, RecordsInv
    <3> QED BY <3>1, <3>2 DEF ProfilesInv, Corroborated
  <2>3. ASSUME NEW x \in Sessions, NEW h \in Handlers, Forward(x, h) PROVE ProfilesInv'
    <3> PICK e \in Entities, hints \in Contexts :
          Judge(h, e, [evidences |-> {EdgeEvidence(hints)}, criticality |-> "normal",
                       exposed |-> TRUE], {x})
      BY <2>3 DEF Forward
    <3>1. IsFiniteSet({EdgeEvidence(hints)})
      BY FS_Singleton
    <3> QED BY <3>1, JudgeKeepsProfiles
  <2>4. ASSUME NEW t \in Tokens, IssueSot(t) PROVE ProfilesInv'
    BY <2>4 DEF IssueSot, ProfilesInv, Corroborated
  <2>5. CASE Restart
    BY <2>5 DEF Restart, ProfilesInv, Fresh, Corroborated
  <2>6. CASE UNCHANGED <<profile, tasks>>
    BY <2>6 DEF ProfilesInv, Corroborated
  <2> QED BY <2>1, <2>2, <2>3, <2>4, <2>5, <2>6
        DEF Next, vars, evaluation, Infer, ForwardFails, ExpireSot, ReadToRevoke, RevokeSot,
            TakeSot, WatchSot, Tick, ObserverRestarts
<1>3. ProfilesInv => TaskIsCorroborated
  BY DEF ProfilesInv, TaskIsCorroborated, Corroborated
<1> QED BY RecordsInit, RecordsStep, <1>1, <1>2, <1>3, PTL DEF Spec
=============================================================================
