--------------------------- MODULE SentinelEngine ---------------------------
(***************************************************************************)
(* cortex-sentinel on one host: the polling cycle that scores the host and *)
(* acts on the score, and the handler of cortex.sentinel.commands, two     *)
(* coroutines that share the state of the entity and interleave at every   *)
(* publish.  The action of a cycle is chosen before it publishes the score *)
(* and carried out after.                                                  *)
(*                                                                         *)
(* The score is the band _recommend_action compares it with, from 0 (under *)
(* 20) to 5 (80 and over).  Abstracted: how events add up to a score, the  *)
(* baseline, the text of the messages.  _dependency_snapshot is never      *)
(* updated by the engine, so that its degraded branch is dead code and is  *)
(* left out; so is alert_human_only, since nothing sets is_protected.      *)
(***************************************************************************)
EXTENDS IsolationState, Integers

CONSTANTS MaxRestores   \* bound of the restore commands

ASSUME EngineAssumption == MaxRestores \in Nat

VARIABLES isolation,    \* state.isolation_state
          sot,          \* state.active_sot_id: NoSot, or the number of the SOT
          score,        \* the band of state.current_score
          firewall,     \* "open", or "closed": iptables took a policy of DROP for a chain
          cycle,        \* the coroutine of _cycle: [pc, action, seen, assessed, sot]
          command,      \* the coroutine of handle_command: NoSot, or the SOT it announces
          issued,       \* history: SOTs this process has made, numbered from 1
          announced,    \* history: those of which a message cortex.obs.sot.issued got out
          restores,     \* history: restore commands
          tasks         \* history: the set holding the last remediation task, or {}

vars ==
  <<isolation, sot, score, firewall, cycle, command, issued, announced, restores, tasks>>

Bands == 0..5
NoSot == 0

\* A reading of the collectors: a hard stop signal is among the events; events over
\* severity 0.6 come from two sources.
Readings == [hard : BOOLEAN, corroborated : BOOLEAN]

\* What SentinelMetaDecisionBridge makes of the agent signals: conflict_score of at
\* least 0.55; some other reason for a deep analysis; more than 20 ms spent.
Assessments == [conflict : BOOLEAN, otherReason : BOOLEAN, slow : BOOLEAN]
NoSignals == {}         \* evaluate returned None

Heavy == {"prepare_quarantine", "prepare_irreversible_containment"}
Actions == Heavy \cup {"none", "monitor", "restrict", "issue_sot", "immediate_quarantine"}

NoReading == [hard |-> FALSE, corroborated |-> FALSE]
Asleep == [pc |-> "asleep", action |-> "none", seen |-> NoReading,
           assessed |-> NoSignals, sot |-> NoSot]

Init ==
  /\ isolation = "free"
  /\ sot = NoSot
  /\ score = 5
  /\ firewall = "open"
  /\ cycle = Asleep
  /\ command = NoSot
  /\ issued = 0
  /\ announced = {}
  /\ restores = 0
  /\ tasks = {}

RecommendAction(band) ==
  CASE band = 0 -> "prepare_irreversible_containment"
    [] band = 1 -> "prepare_quarantine"
    [] band = 2 -> "issue_sot"
    [] band = 3 -> "restrict"
    [] band = 4 -> "monitor"
    [] band = 5 -> "none"

\* evaluate: a slow evaluation drops the reasons for a deep analysis.
DeepAnalysis(a) == (a.conflict \/ a.otherReason) /\ ~a.slow

\* The action of a cycle: compute_score's for a hard stop nobody assessed, else the
\* recommendation for the band, brought down to issue_sot by a deep analysis.
ChooseAction(band, reading, assessed) ==
  IF assessed = NoSignals /\ reading.hard THEN "immediate_quarantine"
  ELSE IF RecommendAction(band) \in Heavy /\ \E a \in assessed : DeepAnalysis(a)
       THEN "issue_sot"
       ELSE RecommendAction(band)

\* Mutant: no second source is asked for.
Uncorroborated(action, reading) == action

\* _act runs a containment of one source as issue_sot.
Effective(action, reading) ==
  IF action = "prepare_irreversible_containment" /\ ~reading.corroborated
  THEN "issue_sot"
  ELSE action

\* _local_isolation: each iptables command may fail and nobody looks ("|| true"); in the
\* chart's deployment all do, for the image has no iptables and the pod no capability.
LocalIsolation == firewall' \in {firewall, "closed"}

SetSot ==
  /\ sot' = issued + 1
  /\ issued' = issued + 1
  /\ isolation' = Transition(isolation, "observation")

\* Mutant: no test of active_sot_id.
IssueAnotherSot == SetSot

\* _act("issue_sot") up to its publish.
IssueSot == sot = NoSot /\ SetSot

-----------------------------------------------------------------------------
\* The cycle.  Collect the events and publish them.
Collect(reading) ==
  /\ cycle = Asleep
  /\ isolation' = IF isolation = "free" THEN Transition(isolation, "monitored") ELSE isolation
  /\ cycle' = [Asleep EXCEPT !.pc = "observe", !.seen = reading]
  /\ UNCHANGED <<sot, score, firewall, command, issued, announced, restores, tasks>>

\* compute_score, the assessment, the action; the score is stored and published.
Assess(band, assessed) ==
  /\ cycle.pc = "observe"
  /\ cycle.seen.hard => band = 0
  /\ score' = band
  /\ cycle' = [cycle EXCEPT !.pc = "report", !.assessed = assessed,
                            !.action = ChooseAction(band, cycle.seen, assessed)]
  /\ UNCHANGED <<isolation, sot, firewall, command, issued, announced, restores, tasks>>

Chosen == Effective(cycle.action, cycle.seen)

\* _act has no branch for the action, or the SOT is there already.
ActNothing ==
  /\ cycle.pc = "report"
  /\ \/ Chosen \in {"none", "monitor", "immediate_quarantine"}
     \/ Chosen = "issue_sot" /\ sot # NoSot
  /\ cycle' = Asleep
  /\ UNCHANGED <<isolation, sot, score, firewall, command, issued, announced, restores, tasks>>

ActRestrict ==
  /\ cycle.pc = "report" /\ Chosen = "restrict"
  /\ isolation' = Transition(isolation, "restricted")
  /\ cycle' = [cycle EXCEPT !.pc = "tell"]
  /\ UNCHANGED <<sot, score, firewall, command, issued, announced, restores, tasks>>

ActSot ==
  /\ cycle.pc = "report" /\ Chosen = "issue_sot"
  /\ IssueSot
  /\ cycle' = [cycle EXCEPT !.pc = "tell", !.action = "issue_sot", !.sot = issued + 1]
  /\ UNCHANGED <<score, firewall, command, announced, restores, tasks>>

ActContain ==
  /\ cycle.pc = "report" /\ Chosen \in Heavy
  /\ LocalIsolation
  /\ isolation' = Transition(isolation, "quarantined")
  /\ cycle' = [cycle EXCEPT !.pc = "tell"]
  /\ UNCHANGED <<sot, score, command, issued, announced, restores, tasks>>

\* The last message of _act goes out: local_restriction_applied, the SOT or the
\* remediation task.  _publish may send it twice, by JetStream, whose answer is lost,
\* and again by plain NATS.
MessageOut ==
  /\ announced' = IF cycle.action = "issue_sot" THEN announced \cup {cycle.sot} ELSE announced
  /\ tasks' = IF cycle.action \in Heavy
              THEN {[type |-> cycle.action, seen |-> cycle.seen, assessed |-> cycle.assessed]}
              ELSE tasks

Told ==
  /\ cycle.pc = "tell"
  /\ MessageOut
  /\ cycle' = Asleep
  /\ UNCHANGED <<isolation, sot, score, firewall, command, issued, restores>>

\* Both publishes of a message raise, after the first may have sent it all the same:
\* run() logs the error and sleeps.
CycleRaises ==
  /\ cycle # Asleep
  /\ \/ UNCHANGED <<announced, tasks>>
     \/ cycle.pc = "tell" /\ MessageOut
  /\ cycle' = Asleep
  /\ UNCHANGED <<isolation, sot, score, firewall, command, issued, restores>>

-----------------------------------------------------------------------------
\* The commands, one at a time (the callback of one subscription).
CommandSot ==
  /\ command = NoSot
  /\ IssueSot
  /\ command' = issued + 1
  /\ UNCHANGED <<score, firewall, cycle, announced, restores, tasks>>

\* The SOT of the command is published, once or twice; or the publish raises, whether
\* or not it got out, on_command answers nak, and the command comes again to find the
\* SOT set.
CommandAnnounces ==
  /\ command # NoSot
  /\ command' = NoSot
  /\ announced' \in {announced, announced \cup {command}}
  /\ UNCHANGED <<isolation, sot, score, firewall, cycle, issued, restores, tasks>>

CommandQuarantine ==
  /\ command = NoSot
  /\ isolation' = Transition(isolation, "quarantined")
  /\ LocalIsolation
  /\ UNCHANGED <<sot, score, cycle, command, issued, announced, restores, tasks>>

CommandRestrict ==
  /\ command = NoSot
  /\ isolation' = Transition(isolation, "restricted")
  /\ UNCHANGED <<sot, score, firewall, cycle, command, issued, announced, restores, tasks>>

\* Mutant: asks for "free" at once.
CommandRestoreAtOnce ==
  /\ command = NoSot
  /\ restores < MaxRestores
  /\ isolation' = Transition(isolation, "free")
  /\ sot' = NoSot
  /\ score' = 4
  /\ restores' = restores + 1
  /\ UNCHANGED <<firewall, cycle, command, issued, announced, tasks>>

\* Three transitions, each of which may be refused; the SOT is dropped and the score
\* set to 75 in any case.  The firewall is not touched.
CommandRestore ==
  /\ command = NoSot
  /\ restores < MaxRestores
  /\ isolation' = Transition(Transition(Transition(isolation, "recovery_pending"),
                                        "restored"), "free")
  /\ sot' = NoSot
  /\ score' = 4
  /\ restores' = restores + 1
  /\ UNCHANGED <<firewall, cycle, command, issued, announced, tasks>>

\* The container stops and starts again: the state is new, the rules of the pod's
\* network stay or, with a new pod, go.
Restart ==
  /\ isolation' = "free" /\ sot' = NoSot /\ score' = 5
  /\ firewall' \in {firewall, "open"}
  /\ cycle' = Asleep /\ command' = NoSot
  /\ issued' = 0 /\ announced' = {} /\ restores' = 0
  /\ UNCHANGED tasks

Cycle ==
  \/ \E reading \in Readings : Collect(reading)
  \/ \E band \in Bands, assessed \in {NoSignals} \cup {{a} : a \in Assessments} :
       Assess(band, assessed)
  \/ ActNothing \/ ActRestrict \/ ActSot \/ ActContain \/ Told \/ CycleRaises

Command ==
  \/ CommandSot \/ CommandAnnounces \/ CommandQuarantine \/ CommandRestrict
  \/ CommandRestore

Next == Cycle \/ Command \/ Restart

Spec == Init /\ [][Next]_vars

-----------------------------------------------------------------------------
TypeOK ==
  /\ isolation \in IsolationStates
  /\ issued \in Nat /\ restores \in 0..MaxRestores
  /\ sot \in 0..issued /\ command \in 0..issued /\ announced \subseteq 1..issued
  /\ score \in Bands
  /\ firewall \in {"open", "closed"}
  /\ cycle \in [pc : {"asleep", "observe", "report", "tell"}, action : Actions,
                seen : Readings, assessed : SUBSET Assessments, sot : 0..issued]
  /\ \A t \in tasks : t.type \in Heavy /\ t.seen \in Readings

\* An entity under observation or worse has an active SOT, however the cycle and the
\* commands interleave (_act, handle_command).
EscalatedUnderSot ==
  isolation \in {"observation", "restricted", "quarantined"} => sot # NoSot

\* Whichever of cycle and command issues them, and however often their messages go out,
\* the SOTs others hear of are the first and one more per restore: a token that is set
\* keeps both coroutines from making another until a restore has dropped it
\* (active_sot_id, _publish).
OneSotPerRestore == \A k \in announced : k <= restores + 1

\* No heavy action is asked for against a deep analysis the bridge called for, and no
\* irreversible containment on the word of one collector (_act, _cycle).
HeavyIsWeighed ==
  \A t \in tasks :
    /\ \A a \in t.assessed : ~DeepAnalysis(a)
    /\ t.type = "prepare_irreversible_containment" => t.seen.corroborated

\* A quarantine ends in freedom and without an SOT, by a restore command or a restart:
\* a cycle that acts on a score it computed earlier never weakens it (transition_to).
QuarantineHolds ==
  [][isolation = "quarantined" /\ isolation' # "quarantined"
       => isolation' = "free" /\ sot' = NoSot]_vars
=============================================================================
