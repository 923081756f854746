------------------------ MODULE SentinelEngineProofs ------------------------
(***************************************************************************)
(* Proofs about SentinelEngine for any number of restores: how the cycle   *)
(* and the commands share one SOT and one isolation state, what quarantine *)
(* is and who may leave it, and what a heavy action rests on.              *)
(***************************************************************************)
EXTENDS SentinelEngine, TLAPS

Escalated == {"observation", "restricted", "quarantined"}

\* The states the two coroutines can reach: the others have no way in.
Inv ==
  /\ isolation \in {"free", "monitored"} \cup Escalated
  /\ sot \in Nat /\ issued \in Nat
  /\ isolation \in Escalated => sot # NoSot

LEMMA PackagedMoves ==
  ASSUME Packaged, NEW s \in {"free", "monitored"} \cup Escalated
  PROVE  /\ Transition(s, "monitored") \in (IF s = "free" THEN {"monitored"} ELSE {s})
         /\ Transition(s, "observation") \in {s, "observation"}
         /\ Transition(s, "restricted") = IF s = "observation" THEN "restricted" ELSE s
         /\ Transition(s, "quarantined") =
              IF s \in {"observation", "restricted"} THEN "quarantined" ELSE s
         /\ Transition(Transition(Transition(s, "recovery_pending"), "restored"), "free")
              \in {"free", "monitored"}
  BY DEF Transition, Allowed, PackagedTransitions, Escalated

LEMMA SotInv == ASSUME Packaged PROVE Inv /\ [Next]_vars => Inv'
PROOF
<1> SUFFICES ASSUME Inv, [Next]_vars PROVE Inv'
  OBVIOUS
<1> USE PackagedMoves DEF Inv
<1>1. ASSUME NEW reading \in Readings, Collect(reading) PROVE Inv'
  BY <1>1 DEF Collect, Escalated
<1>2. CASE ActRestrict
  BY <1>2 DEF ActRestrict, Escalated
<1>3. CASE ActSot
  BY <1>3 DEF ActSot, IssueSot, SetSot, NoSot, Escalated
<1>4. CASE ActContain
  BY <1>4 DEF ActContain, Escalated
<1>5. CASE CommandSot
  BY <1>5 DEF CommandSot, IssueSot, SetSot, NoSot, Escalated
<1>6. CASE CommandQuarantine
  BY <1>6 DEF CommandQuarantine, Escalated
<1>7. CASE CommandRestrict
  BY <1>7 DEF CommandRestrict, Escalated
<1>8. CASE CommandRestore
  BY <1>8 DEF CommandRestore, NoSot, Escalated
<1>9. CASE Restart
  BY <1>9 DEF Restart, NoSot, Escalated
<1>10. CASE UNCHANGED <<isolation, sot, issued>>
  BY <1>10
<1>11. QED
  BY <1>1, <1>2, <1>3, <1>4, <1>5, <1>6, <1>7, <1>8, <1>9, <1>10
     DEF Next, Cycle, Command, Assess, ActNothing, Told, CycleRaises, CommandAnnounces, vars

\* In the packaged image an entity under observation or worse has an active SOT,
\* however the cycle and the commands interleave (_act, handle_command).
THEOREM EscalationHasSot == ASSUME Packaged PROVE Spec => []EscalatedUnderSot
PROOF
<1>1. Init => Inv
  BY DEF Init, Inv, NoSot, Escalated
<1>2. Inv => EscalatedUnderSot
  BY DEF Inv, Escalated, EscalatedUnderSot
<1>3. QED
  BY <1>1, <1>2, SotInv, PTL DEF Spec

-----------------------------------------------------------------------------
\* The process has made as many SOTs as it was restored, and one more while one is set;
\* what it announces, or is about to, is one of them.
CountInv ==
  /\ issued \in Nat /\ restores \in Nat /\ sot \in Nat
  /\ issued <= restores + (IF sot # NoSot THEN 1 ELSE 0)
  /\ cycle = [pc |-> cycle.pc, action |-> cycle.action, seen |-> cycle.seen,
              assessed |-> cycle.assessed, sot |-> cycle.sot]
  /\ cycle.sot \in 0..issued /\ command \in 0..issued
  /\ announced \subseteq 0..issued

LEMMA CountNext == CountInv /\ [Next]_vars => CountInv'
PROOF
<1> SUFFICES ASSUME CountInv, [Next]_vars PROVE CountInv'
  OBVIOUS
<1> USE DEF CountInv, NoSot
<1>1. ASSUME NEW reading \in Readings, Collect(reading) PROVE CountInv'
  BY <1>1 DEF Collect, Asleep
<1>2. ASSUME NEW band, NEW assessed, Assess(band, assessed) PROVE CountInv'
  BY <1>2 DEF Assess
<1>3. CASE ActNothing
  BY <1>3 DEF ActNothing, Asleep
<1>4. CASE ActRestrict
  BY <1>4 DEF ActRestrict
<1>5. CASE ActSot
  <2>1. /\ sot = 0 /\ sot' = issued + 1 /\ issued' = issued + 1
        /\ UNCHANGED <<announced, restores, command>>
    BY <1>5 DEF ActSot, IssueSot, SetSot
  <2>2. cycle' = [pc |-> "tell", action |-> "issue_sot", seen |-> cycle.seen,
                  assessed |-> cycle.assessed, sot |-> issued + 1]
    BY <1>5 DEF ActSot
  <2>3. issued' <= restores' + 1 /\ 0..issued \subseteq 0..issued' /\ issued + 1 \in 0..issued'
    BY <2>1
  <2>4. QED
    BY <2>1, <2>2, <2>3
<1>6. CASE ActContain
  BY <1>6 DEF ActContain
<1>7. ASSUME MessageOut PROVE announced' \subseteq announced \cup {cycle.sot}
  BY <1>7 DEF MessageOut
<1>8. CASE Told \/ CycleRaises
  <2>1. announced' \subseteq announced \cup {cycle.sot} /\ cycle' = Asleep
        /\ UNCHANGED <<issued, restores, sot, command>>
    BY <1>7, <1>8 DEF Told, CycleRaises
  <2>2. QED
    BY <2>1 DEF Asleep
<1>9. CASE CommandSot
  <2>1. /\ sot = 0 /\ sot' = issued + 1 /\ issued' = issued + 1 /\ command' = issued + 1
        /\ UNCHANGED <<announced, restores, cycle>>
    BY <1>9 DEF CommandSot, IssueSot, SetSot
  <2>2. issued' <= restores' + 1 /\ 0..issued \subseteq 0..issued' /\ issued + 1 \in 0..issued'
    BY <2>1
  <2>3. QED
    BY <2>1, <2>2
<1>10. CASE CommandAnnounces
  BY <1>10 DEF CommandAnnounces
<1>11. CASE CommandQuarantine \/ CommandRestrict
  BY <1>11 DEF CommandQuarantine, CommandRestrict
<1>12. CASE CommandRestore
  BY <1>12 DEF CommandRestore
<1>13. CASE Restart
  BY <1>13 DEF Restart, Asleep
<1>14. CASE UNCHANGED vars
  BY <1>14 DEF vars
<1>15. QED
  BY <1>1, <1>2, <1>3, <1>4, <1>5, <1>6, <1>8, <1>9, <1>10, <1>11, <1>12, <1>13, <1>14
     DEF Next, Cycle, Command

\* However often a message goes out, the SOTs others hear of are one, and one more for
\* every restore (_act's test of active_sot_id, handle_command, _publish).
THEOREM SotsAreCounted == Spec => []OneSotPerRestore
PROOF
<1>1. Init => CountInv
  BY DEF Init, CountInv, Asleep, NoSot
<1>2. CountInv => OneSotPerRestore
  BY DEF CountInv, OneSotPerRestore
<1>3. QED
  BY <1>1, <1>2, CountNext, PTL DEF Spec

-----------------------------------------------------------------------------
LEMMA QuarantineStep == ASSUME Packaged, Inv, [Next]_vars, isolation = "quarantined",
                               isolation' # "quarantined"
                        PROVE  isolation' = "free" /\ sot' = NoSot
PROOF
<1> USE PackagedMoves DEF Inv
<1>1. Transition("quarantined", "monitored") = "quarantined"
  BY DEF Escalated
<1>2. Transition("quarantined", "observation") = "quarantined"
      /\ Transition(Transition(Transition("quarantined", "recovery_pending"), "restored"), "free") = "free"
  BY DEF Transition, Allowed, PackagedTransitions
<1>3. CommandRestore \/ Restart
  BY <1>1, <1>2 DEF Next, Cycle, Command, Collect, Assess, ActNothing, ActRestrict, ActSot, ActContain,
     Told, CycleRaises, CommandSot, CommandAnnounces, CommandQuarantine, CommandRestrict, IssueSot, SetSot,
     vars, Escalated
<1>4. QED
  BY <1>2, <1>3 DEF CommandRestore, Restart

\* A quarantine ends in freedom and without an SOT, never by a cycle that acts on a score
\* it computed before (transition_to).
THEOREM QuarantineIsKept == ASSUME Packaged PROVE Spec => QuarantineHolds
PROOF
<1>1. Init => Inv
  BY DEF Init, Inv, NoSot, Escalated
<1>2. Inv /\ [Next]_vars => [isolation = "quarantined" /\ isolation' # "quarantined"
                               => isolation' = "free" /\ sot' = NoSot]_vars
  BY QuarantineStep
<1>3. QED
  BY <1>1, <1>2, SotInv, PTL DEF Spec, QuarantineHolds

-----------------------------------------------------------------------------
\* What a cycle is about to ask for was weighed by the bridge when it was chosen, and is
\* irreversible only on the word of two collectors when it is carried out.
WeighedInv ==
  /\ cycle = [pc |-> cycle.pc, action |-> cycle.action,
              seen |-> cycle.seen, assessed |-> cycle.assessed, sot |-> cycle.sot]
  /\ cycle.pc \in {"report", "tell"} /\ cycle.action \in Heavy =>
       \A a \in cycle.assessed : ~DeepAnalysis(a)
  /\ cycle.pc = "tell" /\ cycle.action = "prepare_irreversible_containment" =>
       cycle.seen.corroborated
  /\ HeavyIsWeighed

LEMMA WeighedNext == WeighedInv /\ [Next]_vars => WeighedInv'
PROOF
<1> SUFFICES ASSUME WeighedInv, [Next]_vars PROVE WeighedInv'
  OBVIOUS
<1> USE DEF WeighedInv, HeavyIsWeighed
<1>1. ASSUME NEW reading \in Readings, Collect(reading) PROVE WeighedInv'
  BY <1>1 DEF Collect, Asleep
<1>2. ASSUME NEW band \in Bands, NEW assessed \in {NoSignals} \cup {{a} : a \in Assessments},
             Assess(band, assessed)
      PROVE  WeighedInv'
  <2>1. /\ cycle' = [pc |-> "report", action |-> ChooseAction(band, cycle.seen, assessed),
                     seen |-> cycle.seen, assessed |-> assessed, sot |-> cycle.sot]
        /\ tasks' = tasks
    BY <1>2 DEF Assess
  <2>2. ChooseAction(band, cycle.seen, assessed) \in Heavy =>
          \A a \in assessed : ~DeepAnalysis(a)
    BY <1>2 DEF ChooseAction, Heavy, NoSignals
  <2>3. QED
    BY <2>1, <2>2
<1>3. CASE ActNothing
  BY <1>3 DEF ActNothing, Asleep
<1>4. CASE ActRestrict
  <2>1. cycle.action = "restrict"
    BY <1>4 DEF ActRestrict, Chosen, Effective
  <2>2. /\ cycle' = [pc |-> "tell", action |-> cycle.action, seen |-> cycle.seen,
                     assessed |-> cycle.assessed, sot |-> cycle.sot]
        /\ tasks' = tasks
    BY <1>4 DEF ActRestrict
  <2>3. QED
    BY <2>1, <2>2 DEF Heavy
<1>5. CASE ActSot
  <2>1. /\ cycle' = [pc |-> "tell", action |-> "issue_sot", seen |-> cycle.seen,
                     assessed |-> cycle.assessed, sot |-> issued + 1]
        /\ tasks' = tasks
    BY <1>5 DEF ActSot
  <2>2. QED
    BY <2>1 DEF Heavy
<1>6. CASE ActContain
  <2>1. /\ cycle' = [pc |-> "tell", action |-> cycle.action, seen |-> cycle.seen,
                     assessed |-> cycle.assessed, sot |-> cycle.sot]
        /\ tasks' = tasks /\ cycle.pc = "report" /\ Chosen \in Heavy
    BY <1>6 DEF ActContain
  <2>2. /\ cycle.action \in Heavy
        /\ cycle.action = "prepare_irreversible_containment" => cycle.seen.corroborated
    BY <2>1 DEF Chosen, Effective, Heavy
  <2>3. QED
    BY <2>1, <2>2
<1>7. CASE Told \/ CycleRaises
  <2>1. cycle' = Asleep /\ (tasks' = tasks \/ (cycle.pc = "tell" /\ MessageOut))
    BY <1>7 DEF Told, CycleRaises
  <2>2. CASE tasks' = tasks
    BY <2>1, <2>2 DEF Asleep
  <2>3. CASE cycle.pc = "tell" /\ MessageOut
    <3>1. tasks' = IF cycle.action \in Heavy
                   THEN {[type |-> cycle.action, seen |-> cycle.seen, assessed |-> cycle.assessed]}
                   ELSE tasks
      BY <2>3 DEF MessageOut
    <3>2. \A t \in tasks' : t.type = "prepare_irreversible_containment" => t.seen.corroborated
      BY <2>3, <3>1
    <3>3. \A t \in tasks' : \A a \in t.assessed : ~DeepAnalysis(a)
      BY <2>3, <3>1
    <3>4. QED
      BY <2>1, <3>2, <3>3 DEF Asleep
  <2>4. QED
    BY <2>1, <2>2, <2>3
<1>8. CASE Restart
  BY <1>8 DEF Restart, Asleep
<1>9. CASE UNCHANGED <<cycle, tasks>>
  BY <1>9
<1>10. QED
  BY <1>1, <1>2, <1>3, <1>4, <1>5, <1>6, <1>7, <1>8, <1>9
     DEF Next, Cycle, Command, CommandSot, CommandAnnounces, CommandQuarantine,
         CommandRestrict, CommandRestore, vars

\* With either table: nothing heavy is asked for against a deep analysis, and irreversible
\* containment only on the word of two collectors (_act, _cycle).
THEOREM HeavyActionsAreWeighed == Spec => []HeavyIsWeighed
PROOF
<1>1. Init => WeighedInv
  BY DEF Init, WeighedInv, Asleep, HeavyIsWeighed
<1>2. WeighedInv => HeavyIsWeighed
  BY DEF WeighedInv
<1>3. QED
  BY <1>1, <1>2, WeighedNext, PTL DEF Spec
=============================================================================
