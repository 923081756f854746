------------------------------ MODULE Advisors ------------------------------
(***************************************************************************)
(* The four advisory services.  cortex-campaign-memory keeps the weak      *)
(* signals of ninety days and tells how likely they are one campaign;      *)
(* cortex-priority-engine routes an analysis by that likelihood, among     *)
(* others; cortex-insider-decay and cortex-admin-anomaly keep what         *)
(* identities did and score the next actions against it.  What the last    *)
(* two answer is compared with a bar by the policy engine.                 *)
(*                                                                         *)
(* Each is one asyncio process whose handlers do not suspend: an ingest is *)
(* one step, an evaluation changes nothing and is an operator of the state *)
(* it finds.  All is in memory.  Scores given are whole; scores computed   *)
(* are in hundredths where the code rounds to two decimals.  The evidence, *)
(* the confidence made of it, and the flags that turn the last two         *)
(* services off are left out.                                              *)
(***************************************************************************)
EXTENDS Integers, Sequences, FiniteSets, SequencesExt

CONSTANTS Fingerprints,  \* the weak signals: who, on which path, of what, and how strong
          Ages,          \* how many days before its arrival a signal may be dated
          Pauses,        \* how many days may pass at a time
          Staff,         \* the identities the last two services are asked about
          Conducts,      \* what cortex-insider-decay may be told of one event
          Reviews,       \* the lists of events it may be asked to evaluate
          HistoryWindow, \* 20 in the code: the history it looks at
          Deeds,         \* the actions of administrators
          Chains,        \* the lists of actions cortex-admin-anomaly may be asked about
          Targets        \* what else a priority is computed from

Scores == 0..100
EventsTold == [aligned : BOOLEAN, sensitive : BOOLEAN, justified : BOOLEAN,
               night : BOOLEAN, offProcess : BOOLEAN, recovery : BOOLEAN]

ASSUME AdvisorsAssumption ==
  /\ \A f \in Fingerprints : {f.weak, f.novelty, f.anomaly} \subseteq Scores
  /\ Ages \subseteq Int /\ Pauses \subseteq Nat
  /\ Conducts \subseteq EventsTold /\ Reviews \subseteq Seq(EventsTold)
  /\ HistoryWindow \in Nat
  /\ Chains \subseteq Seq(Deeds)
  /\ Targets \subseteq [anomaly : Scores, novelty : Scores, trust : Scores, graph : Scores,
                        criticality : Scores]

VARIABLES today,       \* the clock, in days
          kept,        \* CampaignMemoryStore._events
          byIdentity,  \* its three indexes: the events of each key that has some
          byPath,
          byFamily,
          told,        \* history: the events answered "stored" since it started
          conducts,    \* conducts[p]: InsiderDecayStore._history
          deeds        \* deeds[p]: AdminBehaviorStore._actions_by_admin

campaignVars == <<today, kept, byIdentity, byPath, byFamily, told>>
advisorVars == <<today, kept, byIdentity, byPath, byFamily, told, conducts, deeds>>

NoKeys == <<>>   \* the empty index
Entry(index, k) == IF k \in DOMAIN index THEN index[k] ELSE {}

AdvisorsInit ==
  /\ today = 0
  /\ kept = {} /\ told = {}
  /\ byIdentity = NoKeys /\ byPath = NoKeys /\ byFamily = NoKeys
  /\ conducts = [p \in Staff |-> <<>>]
  /\ deeds = [p \in Staff |-> <<>>]

\* n / d, rounded.
Rounded(n, d) == (2 * n + d) \div (2 * d)
AtMost(bound, n) == IF n < bound THEN n ELSE bound

\* k of n, of none as of one, in hundredths of a per cent.
Share(k, n) == Rounded(10000 * k, IF n = 0 THEN 1 ELSE n)

-----------------------------------------------------------------------------
\* cortex-campaign-memory.  Lists of events are sets: copy tells apart those alike.

Windows == [w \in {"24h", "7d", "30d", "90d"} |->
              CASE w = "24h" -> 1 [] w = "7d" -> 7 [] w = "30d" -> 30 [] w = "90d" -> 90]

\* The events of a window: a date in the future is in every one.
Within(list, w) == {e \in list : today - e.at <= Windows[w]}

Alike(f, at) == {e \in told : e.print = f /\ e.at = at}
Event(f, at) == [print |-> f, at |-> at, copy |-> Cardinality(Alike(f, at)) + 1]

\* _prune: a key left without events goes.
Pruned(index) ==
  [k \in {k \in DOMAIN index : Within(index[k], "90d") # {}} |-> Within(index[k], "90d")]

Indexed(index, k, e) ==
  [x \in DOMAIN index \cup {k} |-> Entry(index, x) \cup IF x = k THEN {e} ELSE {}]

\* store_event_fingerprint
StoreEvent(f, age) ==
  LET e == Event(f, today - age)
  IN  /\ kept' = Within(kept \cup {e}, "90d")
      /\ byIdentity' = Pruned(Indexed(byIdentity, f.identity, e))
      /\ byPath' = Pruned(Indexed(byPath, f.path, e))
      /\ byFamily' = Pruned(Indexed(byFamily, f.family, e))
      /\ told' = told \cup {e}
      /\ UNCHANGED <<today, conducts, deeds>>

DaysPass(n) ==
  /\ today' = today + n
  /\ UNCHANGED <<kept, byIdentity, byPath, byFamily, told, conducts, deeds>>

RestartCampaignMemory ==
  /\ kept' = {} /\ told' = {}
  /\ byIdentity' = NoKeys /\ byPath' = NoKeys /\ byFamily' = NoKeys
  /\ UNCHANGED <<today, conducts, deeds>>

\* _aggregate: of the events of a window, how many, how strong and, on average, how new
\* and how anomalous.
Sum(list, score) == MapThenSumSet(LAMBDA e : e.print[score], list)
Average(list, score) ==
  IF list = {} THEN 0 ELSE Rounded(100 * Sum(list, score), Cardinality(list))

Aggregate(list) ==
  [w \in DOMAIN Windows |->
     LET scoped == Within(list, w)
     IN  [count |-> Cardinality(scoped),
          weak |-> Sum(scoped, "weak"),
          novelty |-> Average(scoped, "novelty"),
          anomaly |-> Average(scoped, "anomaly")]]

\* A path or a family not named counts as one of which nothing is kept.
Named(index, k) == IF k = "" THEN {} ELSE Entry(index, k)

\* _merge_windows: the greatest of each figure.
Greatest(a, b, c) == Max({a, b, c})
Merged(a, b, c) ==
  [w \in DOMAIN Windows |->
     [count |-> Greatest(a[w].count, b[w].count, c[w].count),
      novelty |-> Greatest(a[w].novelty, b[w].novelty, c[w].novelty),
      anomaly |-> Greatest(a[w].anomaly, b[w].anomaly, c[w].anomaly)]]

\* Mutant: the threshold itself is not enough.
LowAndSlowAbove(month) == month.count >= 3 /\ month.weak > 90

LowAndSlow(month) == month.count >= 3 /\ month.weak >= 90

\* progressive_deviation_score, which never comes to more than 85.
Progressive(identity, path, family) ==
  (IF LowAndSlow(identity["30d"]) THEN 35 ELSE 0)
  + (IF identity["90d"].count >= 5 THEN 15 ELSE 0)
  + (IF path["30d"].novelty >= 5500 THEN 20 ELSE 0)
  + (IF family["30d"].anomaly >= 4500 THEN 15 ELSE 0)

\* campaign_likelihood_score
LikelihoodScore(deviation, count, novelty, anomaly) ==
  AtMost(10000, Rounded(10000 * deviation + 25000 * count + 12 * novelty + 18 * anomaly, 100))

Likelihood(identity, path, family) ==
  LET i == Aggregate(Entry(byIdentity, identity))
      p == Aggregate(Named(byPath, path))
      f == Aggregate(Named(byFamily, family))
      m == Merged(i, p, f)
  IN  LikelihoodScore(Progressive(i, p, f),
                      m["7d"].count + m["30d"].count,
                      m["30d"].novelty + m["90d"].novelty,
                      m["7d"].anomaly + m["30d"].anomaly)

-----------------------------------------------------------------------------
\* cortex-priority-engine, which keeps nothing.

\* compute_priority; likelihood in hundredths.
Priority(t, likelihood) ==
  AtMost(10000,
    Rounded(2500 * t.anomaly + 1500 * t.novelty + 2000 * (100 - t.trust) + 1500 * t.graph
            + 1500 * t.criticality + 10 * likelihood, 100))

\* route_priority
Route(t, likelihood) ==
  IF t.criticality >= 80 /\ likelihood >= 6500 THEN "sentinel_immediate_attention"
  ELSE IF Priority(t, likelihood) >= 7000 THEN "deep_graph_reasoning"
  ELSE IF Priority(t, likelihood) >= 4000 THEN "hybrid_analysis" ELSE "fast_path"

-----------------------------------------------------------------------------
\* cortex-insider-decay

IngestConduct(p, c) ==
  /\ conducts' = [conducts EXCEPT ![p] = Append(@, c)]
  /\ UNCHANGED <<campaignVars, deeds>>

\* What of the events is held against the identity.
Misaligned(list) == {i \in DOMAIN list : ~list[i].aligned}
Unexplained(list) == {i \in DOMAIN list : list[i].sensitive /\ ~list[i].justified}
AtNight(list) == {i \in DOMAIN list : list[i].night}
OffProcess(list) == {i \in DOMAIN list : list[i].offProcess}
Irregular(list) == Misaligned(list) \cup Unexplained(list) \cup AtNight(list) \cup OffProcess(list)

\* role_misalignment_score and sensitive_access_without_context
RoleScore(list) == Share(Cardinality(Misaligned(list)), Len(list))
ContextScore(list) ==
  AtMost(100, 25 * Cardinality(Unexplained(list)) + 10 * Cardinality(AtNight(list))
              + 15 * Cardinality(OffProcess(list)))

\* What repetition adds: it grows with every event, irregular or not.
Repetition(list) == IF Len(list) > 2 THEN AtMost(25, 3 * (Len(list) - 2)) ELSE 0

Latest(list) ==
  SubSeq(list, IF Len(list) > HistoryWindow THEN Len(list) - HistoryWindow + 1 ELSE 1, Len(list))
Window(p, review) == Latest(conducts[p]) \o review

\* cumulative_trust_decay
DecayScore(role, context, repetition) ==
  AtMost(10000, Rounded(35 * role + 4500 * context + 10000 * repetition, 100))

\* Mutant: the role is compared in the events asked about only.
DecayOfRequest(p, review) ==
  LET w == Window(p, review)
  IN  DecayScore(RoleScore(review), ContextScore(w), Repetition(w))

Decay(p, review) ==
  LET w == Window(p, review) IN DecayScore(RoleScore(w), ContextScore(w), Repetition(w))

\* trust_decay_recovery_if_legit looks at the events asked about only.
Recovery(review) ==
  100 * AtMost(40, 12 * Cardinality({i \in DOMAIN review :
                                       review[i].recovery \/ review[i].justified}))

\* evaluate: the decay left, and whether the policy engine minds it.
NetDecay(p, review) ==
  LET net == Decay(p, review) - Recovery(review) IN IF net < 0 THEN 0 ELSE net
InsiderSuspected(p, review) == NetDecay(p, review) >= 6500

-----------------------------------------------------------------------------
\* cortex-admin-anomaly

IngestDeed(p, d) ==
  /\ deeds' = [deeds EXCEPT ![p] = Append(@, d)]
  /\ UNCHANGED <<campaignVars, conducts>>

\* admin_behavior_profile, and its score.
Done(p, action) == {i \in DOMAIN deeds[p] : deeds[p][i].action = action}
Touched(p) == {deeds[p][i].family : i \in DOMAIN deeds[p]}
ProfileScore(p) == 100 - AtMost(80, 2 * Len(deeds[p]))

\* action_chain_rarity: the share of actions done once or never before.
Rarity(p, chain) ==
  IF deeds[p] = <<>> THEN 8000
  ELSE Share(Cardinality({i \in DOMAIN chain : Cardinality(Done(p, chain[i].action)) <= 1}),
             Len(chain))

\* causal_break_score
LeavesFamilies(p, chain) == \E i \in DOMAIN chain : chain[i].family \notin Touched(p)
Escalates(chain) ==
  \E i \in DOMAIN chain :
    /\ i + 1 \in DOMAIN chain
    /\ chain[i].level # "domain_admin" /\ chain[i + 1].level = "domain_admin"
OpensSecrets(chain) ==
  chain # <<>> /\ chain[1].action \in {"dump_secrets", "rotate_breakglass"}

CausalBreak(p, chain) ==
  (IF LeavesFamilies(p, chain) THEN 45 ELSE 0)
  + (IF Escalates(chain) THEN 35 ELSE 0)
  + (IF OpensSecrets(chain) THEN 20 ELSE 0)

\* admin_session_escalation_detector, and whether the policy engine minds it.
EscalationScore(profile, rarity, causal) ==
  AtMost(10000, Rounded(2000 * profile + 35 * rarity + 4500 * causal, 100))
Escalation(p, chain) ==
  EscalationScore(ProfileScore(p), Rarity(p, chain), CausalBreak(p, chain))
AdminSuspected(p, chain) == Escalation(p, chain) >= 8500

RestartInsiderDecay ==
  /\ conducts' = [p \in Staff |-> <<>>]
  /\ UNCHANGED <<campaignVars, deeds>>

RestartAdminAnomaly ==
  /\ deeds' = [p \in Staff |-> <<>>]
  /\ UNCHANGED <<campaignVars, conducts>>

-----------------------------------------------------------------------------
\* What the campaign memory finds under a key, in any window, is what it was told of it, as
\* long as it runs: pruning and the three indexes are not to be seen
\* (store_event_fingerprint, _prune, _aggregate).
Index == [identity |-> byIdentity, path |-> byPath, family |-> byFamily]
ToldOf(field, k) == {e \in told : e.print[field] = k}
CampaignRemembers ==
  \A field \in DOMAIN Index, w \in DOMAIN Windows : \A k \in {e.print[field] : e \in told} :
    Within(Entry(Index[field], k), w) = Within(ToldOf(field, k), w)

\* Low and slow: six signals of one identity within a month, of 90 points together, bring
\* any analysis that touches a critical asset before Sentinel at once, in whatever order,
\* with whatever dates and among whatever else they came (campaign_likelihood_score,
\* route_priority).
Accumulated(k) ==
  LET month == {e \in told : e.print.identity = k /\ today - e.at <= 30}
  IN  /\ Cardinality(month) >= 6
      /\ Sum(month, "weak") >= 90
Known(Key(_)) == {Key(f) : f \in Fingerprints} \cup {""}
AccumulationReachesSentinel ==
  \A k \in {f.identity : f \in Fingerprints} : Accumulated(k) =>
    \A path \in Known(LAMBDA f : f.path), family \in Known(LAMBDA f : f.family), t \in Targets :
      t.criticality >= 80 =>
        Route(t, Likelihood(k, path, family)) = "sentinel_immediate_attention"

\* "A single subtle deviation must not trigger a destructive action on its own": the bar of
\* the policy engine takes two irregular events among those looked at, and of an
\* administrator a jump to domain administration in a chain that leaves the families of
\* resources he ever touched (cumulative_trust_decay, causal_break_score, engine.py).
SuspicionIsCorroborated ==
  \A p \in Staff :
    /\ \A review \in Reviews :
         InsiderSuspected(p, review) => Cardinality(Irregular(Window(p, review))) >= 2
    /\ \A chain \in Chains :
         AdminSuspected(p, chain) => LeavesFamilies(p, chain) /\ Escalates(chain)
=============================================================================
