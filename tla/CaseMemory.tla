----------------------------- MODULE CaseMemory -----------------------------
(***************************************************************************)
(* The meta decision agent (cortex/meta_decision) with its case memory, as *)
(* the training loop (cortex/training_pipeline.py) drives it: each event   *)
(* is evaluated against the cases remembered, and what came out is         *)
(* remembered as a case in its turn.  An evaluation may reuse a case, run  *)
(* late (degraded) or raise (fallback), and all of them are remembered.    *)
(* cortex-orchestrator has an evaluator of its own for the same signals,   *)
(* without a memory, which also judges the intents it hands on.            *)
(*                                                                         *)
(* Scores are hundredths.  The risks are left out but for their conflict;  *)
(* the fingerprint of an event is abstracted to its kind, the computed     *)
(* trust to the set of agents that reach the threshold.  An event is broad *)
(* when its graph is, or when the weighted score makes it a DEEP_PATH.     *)
(***************************************************************************)
EXTENDS Integers, Sequences, FiniteSets, Functions

CONSTANTS Team,        \* the agents, in the order their messages are given
          Kinds,       \* kinds of events, as the fingerprint tells them apart
          Traits,      \* Traits[k]: what an event of kind k carries
          Similarity,  \* Similarity[j][k]: how like the materials of j and k are
          Versions,    \* signatures of the models a caller may run
          Intents,     \* intents given to the orchestrator
          MaxItems,    \* cases the memory keeps
          Ttl          \* ticks a case lives

Agents == Range(Team)
Percent == 0 .. 100

ASSUME CaseAssumption ==
  /\ Agents # {}
  /\ Traits \in [Kinds -> [novelty : Percent, criticality : Percent,
                           broad : BOOLEAN]]
  /\ Similarity \in [Kinds -> [Kinds -> Percent]]
  /\ Intents \subseteq [level : 0 .. 5, actions : Nat]
  /\ MaxItems \in Nat \ {0} /\ Ttl \in Nat

VARIABLES cases,   \* the memory, oldest case first; time is kept as the age of a case,
                   \* which stops counting once it is past the time to live
          last,    \* the result of the step before, if it evaluated (a set of one), or {}
          counted  \* history: counted[a][k]: ticks since a was last selected for an event
                   \* of kind k, Old once that is longer than a case lives

memoryVars == <<cases, last, counted>>

Old == Ttl + 1
Aged(t) == IF t < Old THEN t + 1 ELSE Old

MemoryInit == cases = <<>> /\ last = {} /\ counted = [a \in Agents |-> [k \in Kinds |-> Old]]

Tick ==
  /\ cases' = [i \in DOMAIN cases |-> [cases[i] EXCEPT !.age = Aged(@)]]
  /\ counted' = [a \in Agents |-> [k \in Kinds |-> Aged(counted[a][k])]]
  /\ last' = {}

-----------------------------------------------------------------------------
\* The memory.
Expired(case) == case.age > Ttl
Newest(s) == SubSeq(s, IF Len(s) > MaxItems THEN Len(s) - MaxItems + 1 ELSE 1, Len(s))

\* The cases are held oldest first, so that those that expired are the first ones.
ActiveCases ==
  Newest(SubSeq(cases, Cardinality({i \in DOMAIN cases : Expired(cases[i])}) + 1, Len(cases)))

Reusability(case) == 100 - Traits[case.kind].novelty
Matches(k) == {i \in DOMAIN ActiveCases : Similarity[ActiveCases[i].kind][k] >= 74}

\* The first match by similarity, reusability and time, the newest of equals.
BestMatch(k) ==
  LET active == ActiveCases
      rank(i) == 101 * Similarity[active[i].kind][k] + Reusability(active[i])
      matches == Matches(k)
  IN  {active[i] : i \in {j \in matches : \A l \in matches \ {j} :
                           rank(j) > rank(l) \/ (rank(j) = rank(l) /\ j > l)}}

-----------------------------------------------------------------------------
\* AnalysisReuseOrchestrator.decide.  Confidence is in 1/10000.
Clamped(x) == IF x < 0 THEN 0 ELSE IF x > 10000 THEN 10000 ELSE x

Confidence(k, case, version) ==
  LET alike == 45 * Similarity[case.kind][k] + 35 * Reusability(case) + 20 * (100 - Traits[k].novelty)
      matched == Clamped(alike + IF case.version = version THEN 800 ELSE 0)
  IN  IF Traits[k].criticality >= 80 THEN Clamped(matched - 2000) ELSE matched

Full(k, case, version) ==
  /\ Similarity[case.kind][k] >= 96
  /\ Confidence(k, case, version) >= 8000
  /\ case.version = version

\* The models may have changed since: a partial reuse does not ask.
Partial(k, case, version) ==
  /\ Similarity[case.kind][k] >= 80
  /\ Confidence(k, case, version) >= 5500

\* All but the first agent of a case, in the order of their messages.
AfterFirst(agents) ==
  {a \in agents : \E i, j \in DOMAIN Team : i < j /\ Team[i] \in agents /\ Team[j] = a}

\* What is reused of the best match: the case with the agents its decision bypasses, all
\* of a full reuse and all but the first, who checks again, of a partial one.
Reuse(k, version, flagged) ==
  LET best == IF flagged THEN {} ELSE BestMatch(k)
  IN  {[case |-> c, bypass |-> c.agents] : c \in {d \in best : Full(k, d, version)}}
        \cup {[case |-> c, bypass |-> AfterFirst(c.agents)] :
               c \in {d \in best : ~Full(k, d, version) /\ Partial(k, d, version)}}

-----------------------------------------------------------------------------
\* MetaDecisionAgent.evaluate.  An evaluation e: the kind of its event, whether a critical
\* flag blocks reuse, the version of the models, the agents that reach the trust threshold
\* (trusted), whether the agents' risks conflict, and whether it ends in time, late
\* (degraded), or by raising (fallback), where neither trust nor conflict count.
Trusts == SUBSET Agents
Evaluations ==
  {e \in [kind : Kinds, version : Versions, flagged : BOOLEAN, trusted : Trusts,
          conflict : BOOLEAN, ends : {"in time", "late", "raises"}] :
     /\ e.conflict => Len(Team) > 1
     /\ e.ends # "in time" => e.trusted = {} /\ ~e.conflict}

\* Why a deep analysis is required at all, and the reasons its requests give.
Required(e) ==
  e.conflict \/ Traits[e.kind].novelty >= 70 \/ Traits[e.kind].criticality >= 75 \/ Traits[e.kind].broad

Reasoned(e, reuse) ==
  \/ e.conflict \/ e.trusted # Agents
  \/ Traits[e.kind].novelty >= 70 \/ Traits[e.kind].criticality >= 75
  \/ reuse = {} /\ Matches(e.kind) # {}

Triggered(e, reuse) == e.ends = "in time" /\ Required(e) /\ Reasoned(e, reuse)

Bypassed(reuse) == UNION {r.bypass : r \in reuse}

\* The agents selected; a late result selects all, a failed one none.
Selected(e, reuse) ==
  CASE e.ends = "late" -> Agents
    [] e.ends = "raises" -> {}
    [] OTHER -> e.trusted \ Bypassed(reuse)

\* Mutant: nobody is asked where the reuse bypasses everybody.
AskSelected(e, reuse) == IF Triggered(e, reuse) THEN Selected(e, reuse) ELSE {}

\* Who is asked for a deep analysis: the selected agents, or all where nobody is left.
Asked(e, reuse) ==
  IF ~Triggered(e, reuse) THEN {} ELSE IF Selected(e, reuse) = {} THEN Agents ELSE Selected(e, reuse)

\* Mutant: the agents a reuse bypassed are remembered as used.
UseTrusted(e, reuse) == e.trusted

AgentsUsed(e, reuse) == Selected(e, reuse)

\* One turn of the training loop: the event is evaluated and the result remembered,
\* however the evaluation ended.  Pruning and storing keep the newest MaxItems.
Evaluate(e) ==
  LET reuse == IF e.ends = "in time" THEN Reuse(e.kind, e.version, e.flagged) ELSE {}
  IN  /\ cases' = Newest(Append(ActiveCases, [kind |-> e.kind, version |-> e.version, age |-> 0,
                                              agents |-> AgentsUsed(e, reuse)]))
      /\ counted' = [a \in Agents |-> [k \in Kinds |->
           IF k = e.kind /\ a \in Selected(e, reuse) THEN 0 ELSE counted[a][k]]]
      /\ last' = {[kind |-> e.kind, by |-> "agent", triggered |-> Triggered(e, reuse),
                   asked |-> Asked(e, reuse), trusted |-> e.trusted,
                   rests |-> Bypassed(reuse)]}

-----------------------------------------------------------------------------
\* cortex-orchestrator: _assess_meta_decision.  It asks the agents it trusts, and nobody
\* where it trusts none.
Assessments ==
  {e \in [kind : Kinds, trusted : Trusts, conflict : BOOLEAN] : e.conflict => Len(Team) > 1}

Assessed(by, reasons, trusted) ==
  /\ last' = {[by |-> by, triggered |-> reasons # {}, trusted |-> trusted, rests |-> {},
               asked |-> IF reasons # {} THEN trusted ELSE {}]}
  /\ UNCHANGED <<cases, counted>>

Reasons(conflict, distrust, novelty, criticality) ==
  {r \in {"agent_conflict", "low_agent_trust", "high_novelty", "critical_asset"} :
     CASE r = "agent_conflict"  -> conflict
       [] r = "low_agent_trust" -> distrust
       [] r = "high_novelty"    -> novelty >= 70
       [] r = "critical_asset"  -> criticality >= 75}

AssessMetaDecision(e) ==
  Assessed("orchestrator",
           Reasons(e.conflict, e.trusted # Agents, Traits[e.kind].novelty, Traits[e.kind].criticality),
           e.trusted)

\* decision: an intent is assessed on one signal of the orchestrator's
\* own, whose trust is 0.75 by its constants, and then handed to the MCP server.
Capped(n) == IF n > 5 THEN 5 ELSE n
IntentNovelty(level) == 20 * level
IntentCriticality(level, actions) ==
  11 * level + 6 * Capped(actions) + IF level = 5 THEN 15 ELSE 0
NeedsApproval(level) == level >= 4

Decision(level, actions) ==
  Assessed(IF NeedsApproval(level) THEN "risky intent" ELSE "intent",
           Reasons(FALSE, FALSE, IntentNovelty(level), IntentCriticality(level, actions)),
           {"orchestrator"})

\* Bound: the orchestrator neither reads nor writes the memory, so that it is asked while
\* the memory is empty only.
Fresh == cases = <<>>

MemoryNext ==
  \/ Tick
  \/ \E e \in Evaluations : Evaluate(e)
  \/ Fresh /\ \E e \in Assessments : AssessMetaDecision(e)
  \/ Fresh /\ \E i \in Intents : Decision(i.level, i.actions)
MemorySpec == MemoryInit /\ [][MemoryNext]_memoryVars

-----------------------------------------------------------------------------
\* Properties.
Case == [kind : Kinds, version : Versions, age : 0 .. Old, agents : SUBSET Agents]

\* The memory stays within its limit and holds its cases oldest first (CaseMemoryStore.store_case, _active_cases).
MemoryTypeOK ==
  /\ cases \in Seq(Case) /\ Len(cases) <= MaxItems
  /\ \A i \in DOMAIN cases : i > 1 => cases[i - 1].age >= cases[i].age
  /\ counted \in [Agents -> [Kinds -> 0 .. Old]]

\* An agent a reuse bypasses was itself selected for a like event no longer than a
\* case's life ago: a reused analysis is remembered anew each time, yet its agents'
\* part does not outlive the time to live by being handed from case to case
\* (decide's bypass, evaluate's selected_agents, remember_case's agents_used).
BypassRestsOnAnalysis ==
  \A r \in last : \A a \in r.rests : \E k \in Kinds :
    /\ Similarity[k][r.kind] >= 80
    /\ counted[a][k] <= Ttl

\* A deep analysis that is triggered is asked of somebody, and never of an agent the
\* reuse bypassed while another is left: neither low trust nor a reuse nor both
\* together silence it (evaluate's requests to selected_agents or every sender).  The
\* orchestrator's evaluator asks nobody only where it trusts nobody, and an intent that
\* needs approval always has one asked (_assess_meta_decision, decision).
DeepAnalysisIsAsked ==
  \A r \in last :
    /\ r.triggered =>
         /\ r.asked # {} \/ (r.by = "orchestrator" /\ r.trusted = {})
         /\ r.by = "agent" => r.asked = Agents \/ r.asked \cap r.rests = {}
    /\ r.by = "risky intent" => r.asked # {}
=============================================================================
