---------------------------- MODULE LearningProofs ---------------------------
(***************************************************************************)
(* Proofs about what cortex-sentinel-machine learns, and what the decision *)
(* engine remembers.                                                       *)
(*                                                                         *)
(* LearningRound, for any threads, models and posts: where a snapshot      *)
(* points back to, when a promotion is approved, and what the main loop    *)
(* alone adopts and posts.                                                 *)
(*                                                                         *)
(* CaseMemory, for any agents, kinds of event and capacity: a case reused  *)
(* instead of an analysis rests on one made within its time to live.  The  *)
(* invariant says that the cases stay in the order of their ages, so that  *)
(* the expired ones are the first, and that no case is younger than the    *)
(* selection of the agents it names.                                       *)
(***************************************************************************)
EXTENDS LearningRound, CaseMemory, FiniteSetTheorems, SequenceTheorems, TLAPS

Threads == [at : Places, gain : Int, drift : BOOLEAN, id : Nat, disturbed : BOOLEAN, proof : Int]
AnySnapshot == [parent : Nat, manifest : Nat, report : Int]

\* The threads and the models they share.
ServiceInv ==
  /\ pool \subseteq Workers
  /\ trained \in 0 .. MaxModels /\ shadow \in 0 .. trained /\ champion \in 0 .. trained
  /\ worker = [w \in Workers |-> worker[w]] /\ \A w \in Workers : worker[w] \in Threads
  /\ model = [i \in Models |-> model[i]] /\ \A i \in Models : model[i] \in AnySnapshot

Known == adopted \cup {NoModel}

\* Every pointer back, and what will become one, is a former champion.
PointersInv ==
  /\ champion \in Known
  /\ \A w \in Workers : worker[w].at = "average" => worker[w].id \in Known
  /\ \A i \in Models : model[i].parent \in Known
  /\ registry = [i \in Models \cup {Colab} |-> registry[i]]
  /\ \A p \in posts : p.rollback \in Known
  /\ \A i \in Models \cup {Colab} : \A e \in registry[i] : e.rollback \in Known

\* The count of the manager is the number of clean verdicts since the last refusal.
PatienceInv ==
  /\ rounds = clean /\ clean \in 0 .. Patience
  /\ PromotionIsPatient

-----------------------------------------------------------------------------
LEMMA BeforeIsThread ==
  ASSUME NEW step \in Places, NEW id \in Nat
  PROVE  Before(step, id) \in Threads /\ Before(step, id).at = step /\ Before(step, id).id = id
BY DEF Before, Thread, Threads

LEMMA IdleIsThread == Idle \in Threads /\ Idle.at = "idle"
BY BeforeIsThread DEF Idle, NoModel, Places

LEMMA ServiceInit == Init => ServiceInv
<1> SUFFICES ASSUME Init PROVE ServiceInv
  OBVIOUS
<1>1. trained = 0 /\ shadow = 0 /\ champion = 0 /\ pool \subseteq Workers
  BY DEF Init, NoModel, Workers
<1>2. worker = [w \in Workers |-> worker[w]] /\ \A w \in Workers : worker[w] \in Threads
  BY IdleIsThread DEF Init
<1>3. Blank \in AnySnapshot
  BY DEF Blank, AnySnapshot, NoModel, Unreported
<1>4. model = [i \in Models |-> model[i]] /\ \A i \in Models : model[i] \in AnySnapshot
  BY <1>3 DEF Init
<1> QED BY <1>1, <1>2, <1>4, RoundAssumption DEF ServiceInv

LEMMA ForgetKeeps ==
  ASSUME ServiceInv, Forget, UNCHANGED pool
  PROVE  ServiceInv'
BY IdleIsThread DEF Forget, ServiceInv, NoModel

\* The thread moves to another step, and no other does.
LEMMA ThreadMoves ==
  ASSUME ServiceInv, NEW w \in Workers, NEW next \in Threads, worker' = [worker EXCEPT ![w] = next]
  PROVE  /\ worker' = [v \in Workers |-> worker'[v]] /\ \A v \in Workers : worker'[v] \in Threads
         /\ worker'[w] = next /\ \A v \in Workers \ {w} : worker'[v] = worker[v]
BY DEF ServiceInv

\* A snapshot is changed, and no other.
LEMMA SnapshotChanges ==
  ASSUME ServiceInv, NEW i \in Int, NEW new \in AnySnapshot, model' = [model EXCEPT ![i] = new]
  PROVE  /\ model' = [j \in Models |-> model'[j]] /\ \A j \in Models : model'[j] \in AnySnapshot
         /\ \A j \in Models : model'[j] = IF j = i THEN new ELSE model[j]
BY DEF ServiceInv

\* An observation disturbs the averages under way; the thread itself goes on to train, or
\* is done.
LEMMA ObserveMoves ==
  ASSUME ServiceInv, NEW w \in Workers, Observe(w)
  PROVE  /\ worker' = [v \in Workers |-> worker'[v]] /\ \A v \in Workers : worker'[v] \in Threads
         /\ worker'[w].at \in {"idle", "train"}
         /\ \A v \in Workers \ {w} :
              \/ worker'[v] = worker[v]
              \/ worker[v].at = "average" /\ worker'[v].at = "average" /\ worker'[v].id = worker[v].id
<1> PICK u \in Updates :
       worker' = [v \in Workers |->
         CASE v = w -> IF Accepted(u) /\ observed' = MinSupport /\ trained < MaxModels
                       THEN Before("train", NoModel) ELSE Idle
           [] v # w /\ worker[v].at = "average" -> [worker[v] EXCEPT !.disturbed = TRUE]
           [] OTHER -> worker[v]]
  BY DEF Observe
<1>1. worker'[w] \in {Before("train", NoModel), Idle}
  OBVIOUS
<1>2. worker'[w] \in Threads /\ worker'[w].at \in {"idle", "train"}
  BY <1>1, IdleIsThread, BeforeIsThread DEF NoModel, Places
<1>3. ASSUME NEW v \in Workers \ {w}
      PROVE  /\ worker'[v] \in Threads
             /\ \/ worker'[v] = worker[v]
                \/ worker[v].at = "average" /\ worker'[v].at = "average" /\ worker'[v].id = worker[v].id
  <2>1. worker[v] \in Threads
    BY DEF ServiceInv
  <2>2. CASE worker[v].at = "average"
    <3>1. worker'[v] = [worker[v] EXCEPT !.disturbed = TRUE]
      BY <2>2
    <3> QED BY <2>1, <2>2, <3>1 DEF Threads
  <2>3. CASE worker[v].at # "average"
    BY <2>1, <2>3
  <2> QED BY <2>2, <2>3
<1> QED BY <1>2, <1>3

\* What is weighed next, and what is adopted.
LEMMA WeighedAndApproved ==
  ASSUME NEW gain \in Int, NEW drift \in BOOLEAN, NEW proof \in Int
  PROVE  /\ Weighing(gain, drift) \in Threads
         /\ Weighing(gain, drift).at = "weigh" /\ Weighing(gain, drift).gain = gain
         /\ Weighing(gain, drift).drift = drift
         /\ Approved(proof) \in Threads
         /\ Approved(proof).at = "adopt" /\ Approved(proof).proof = proof
BY DEF Weighing, Approved, Thread, Threads, Places, NoModel

LEMMA GainIsInt ==
  ASSUME NEW e \in Events
  PROVE  Gain(e) \in Int /\ HardDrift(e) \in BOOLEAN
BY RoundAssumption DEF Gain, HardDrift

LEMMA RoundService ==
  ASSUME ServiceInv, PatienceInv, NEW w \in Workers, ProcessRawEvent(w), UNCHANGED pool
  PROVE  ServiceInv'
<1>1. CASE Observe(w)
  BY <1>1, ObserveMoves DEF Observe, ServiceInv
<1>2. CASE Train(w)
  <2>1. Before("average", champion) \in Threads
    BY BeforeIsThread DEF ServiceInv, Places
  <2> QED BY <1>2, <2>1, ThreadMoves DEF Train, ServiceInv
<1>3. CASE Trained(w)
  <2>1. Snapshot(w) \in AnySnapshot
    BY DEF ServiceInv, Snapshot, Blank, AnySnapshot, Threads, NoModel, Unreported
  <2>2. trained' \in Int /\ trained' \in 1 .. MaxModels /\ shadow' = trained' /\ champion' = champion
    BY <1>3, RoundAssumption DEF Trained, ServiceInv
  <2>3. Before("sign", NoModel) \in Threads
    BY BeforeIsThread DEF NoModel, Places
  <2>4. worker' = [v \in Workers |-> worker'[v]] /\ \A v \in Workers : worker'[v] \in Threads
    BY <1>3, <2>3, ThreadMoves DEF Trained
  <2>5. model' = [i \in Models |-> model'[i]] /\ \A i \in Models : model'[i] \in AnySnapshot
    BY <1>3, <2>1, <2>2, SnapshotChanges DEF Trained
  <2>6. trained' = trained + 1
    BY <1>3 DEF Trained
  <2> QED BY <2>2, <2>4, <2>5, <2>6 DEF ServiceInv
<1>4. CASE TrainRaises(w)
  <2>1. CASE w = Main
    BY <1>4, <2>1, ForgetKeeps DEF TrainRaises
  <2>2. CASE w # Main
    BY <1>4, <2>2, ThreadMoves, IdleIsThread DEF TrainRaises, ServiceInv
  <2> QED BY <2>1, <2>2
<1>5. CASE Sign(w)
  <2>1. Before("stamp", shadow) \in Threads
    BY BeforeIsThread DEF ServiceInv, Places
  <2> QED BY <1>5, <2>1, ThreadMoves DEF Sign, ServiceInv
<1>6. CASE Stamp(w)
  <2>1. Before("report", NoModel) \in Threads
    BY BeforeIsThread DEF NoModel, Places
  <2>2. model' = [i \in Models |-> model'[i]] /\ \A i \in Models : model'[i] \in AnySnapshot
    <3>1. worker[w].id \in Nat
      BY DEF ServiceInv, Threads
    <3> QED BY <1>6, <3>1 DEF Stamp, ServiceInv, AnySnapshot
  <2> QED BY <1>6, <2>1, <2>2, ThreadMoves DEF Stamp, ServiceInv
<1>7. CASE Report(w)
  <2> PICK e \in Events :
         /\ model' = [model EXCEPT ![shadow] = [model[shadow] EXCEPT !.report = Gain(e)]]
         /\ worker' = [worker EXCEPT ![w] = Weighing(Gain(e), HardDrift(e))]
    BY <1>7 DEF Report
  <2>1. Weighing(Gain(e), HardDrift(e)) \in Threads
    BY WeighedAndApproved, GainIsInt
  <2>2. model' = [i \in Models |-> model'[i]] /\ \A i \in Models : model'[i] \in AnySnapshot
    BY GainIsInt DEF ServiceInv, AnySnapshot
  <2> QED BY <1>7, <2>1, <2>2, ThreadMoves DEF Report, ServiceInv
<1>8. CASE Weigh(w)
  <2>1. clean' \in Int
    BY <1>8, RoundAssumption DEF Weigh, PatienceInv
  <2>2. Approved(clean') \in Threads
    BY <2>1, WeighedAndApproved
  <2> QED BY <1>8, <2>2, ThreadMoves, IdleIsThread DEF Weigh, ServiceInv
<1>9. CASE Adopt(w)
  BY <1>9, ThreadMoves, IdleIsThread DEF Adopt, ServiceInv
<1> QED BY <1>1, <1>2, <1>3, <1>4, <1>5, <1>6, <1>7, <1>8, <1>9 DEF ProcessRawEvent

\* Of a snapshot, the stamp changes the manifest and the report the gain.
LEMMA StampChanges ==
  ASSUME ServiceInv, NEW w \in Workers, Stamp(w), NEW i \in Models
  PROVE  /\ model'[i].parent = model[i].parent /\ model'[i].report = model[i].report
         /\ model'[i].manifest = IF i = shadow THEN worker[w].id ELSE model[i].manifest
<1>1. model[i] \in AnySnapshot /\ worker[w].id \in Nat
  BY DEF ServiceInv, Threads
<1>2. CASE i = shadow
  <2>1. model'[i] = [model[i] EXCEPT !.manifest = worker[w].id]
    BY <1>2 DEF Stamp, ServiceInv
  <2> QED BY <1>1, <1>2, <2>1 DEF AnySnapshot
<1>3. CASE i # shadow
  BY <1>3 DEF Stamp, ServiceInv
<1> QED BY <1>2, <1>3

LEMMA ReportChanges ==
  ASSUME ServiceInv, NEW w \in Workers, NEW e \in Events,
         model' = [model EXCEPT ![shadow] = [model[shadow] EXCEPT !.report = Gain(e)]],
         NEW i \in Models
  PROVE  /\ model'[i].parent = model[i].parent /\ model'[i].manifest = model[i].manifest
         /\ model'[i].report = IF i = shadow THEN Gain(e) ELSE model[i].report
<1>1. model[i] \in AnySnapshot /\ Gain(e) \in Int
  BY GainIsInt DEF ServiceInv
<1>2. CASE i = shadow
  <2>1. model'[i] = [model[i] EXCEPT !.report = Gain(e)]
    BY <1>2 DEF ServiceInv
  <2> QED BY <1>1, <1>2, <2>1 DEF AnySnapshot
<1>3. CASE i # shadow
  BY <1>3 DEF ServiceInv
<1> QED BY <1>2, <1>3

LEMMA PatienceInit == Init => PatienceInv
<1> SUFFICES ASSUME Init PROVE PatienceInv
  OBVIOUS
<1>1. \A w \in Workers : worker[w].at = "idle"
  BY IdleIsThread DEF Init
<1> QED BY <1>1, RoundAssumption DEF Init, PatienceInv, PromotionIsPatient

LEMMA ForgetIsPatient ==
  ASSUME Forget
  PROVE  PatienceInv'
<1>1. \A w \in Workers : worker'[w].at = "idle"
  BY IdleIsThread DEF Forget
<1> QED BY <1>1, RoundAssumption DEF Forget, PatienceInv, PromotionIsPatient

LEMMA RoundIsPatient ==
  ASSUME ServiceInv, PatienceInv, NEW w \in Workers, ProcessRawEvent(w)
  PROVE  PatienceInv'
<1> DEFINE patient == \A v \in Workers : worker[v].at = "adopt" => worker[v].proof = Patience
<1> SUFFICES /\ rounds' = clean' /\ clean' \in 0 .. Patience
             /\ patient'
  BY DEF PatienceInv, PromotionIsPatient
<1>1. CASE Observe(w)
  <2>1. UNCHANGED <<rounds, clean>>
    BY <1>1 DEF Observe
  <2>2. ASSUME NEW v \in Workers, worker'[v].at = "adopt" PROVE worker'[v] = worker[v]
    BY <1>1, <2>2, ObserveMoves
  <2> QED BY <2>1, <2>2 DEF PatienceInv, PromotionIsPatient
<1>2. ASSUME NEW next \in Threads, worker' = [worker EXCEPT ![w] = next], next.at # "adopt",
             UNCHANGED <<rounds, clean>>
      PROVE  rounds' = clean' /\ clean' \in 0 .. Patience /\ patient'
  BY <1>2, ThreadMoves DEF PatienceInv, PromotionIsPatient
<1>3. CASE Train(w)
  <2>1. Before("average", champion) \in Threads /\ Before("average", champion).at = "average"
    BY BeforeIsThread DEF ServiceInv, Places
  <2> QED BY <1>2, <1>3, <2>1 DEF Train
<1>4. CASE Trained(w)
  <2>1. Before("sign", NoModel) \in Threads /\ Before("sign", NoModel).at = "sign"
    BY BeforeIsThread DEF NoModel, Places
  <2> QED BY <1>2, <1>4, <2>1 DEF Trained
<1>5. CASE TrainRaises(w)
  <2>1. CASE w = Main
    BY <1>5, <2>1, ForgetIsPatient DEF TrainRaises, PatienceInv, PromotionIsPatient
  <2>2. CASE w # Main
    BY <1>2, <1>5, <2>2, IdleIsThread DEF TrainRaises
  <2> QED BY <2>1, <2>2
<1>6. CASE Sign(w)
  <2>1. Before("stamp", shadow) \in Threads /\ Before("stamp", shadow).at = "stamp"
    BY BeforeIsThread DEF ServiceInv, Places
  <2> QED BY <1>2, <1>6, <2>1 DEF Sign
<1>7. CASE Stamp(w)
  <2>1. Before("report", NoModel) \in Threads /\ Before("report", NoModel).at = "report"
    BY BeforeIsThread DEF NoModel, Places
  <2> QED BY <1>2, <1>7, <2>1 DEF Stamp
<1>8. CASE Report(w)
  <2> PICK e \in Events : worker' = [worker EXCEPT ![w] = Weighing(Gain(e), HardDrift(e))]
    BY <1>8 DEF Report
  <2>1. Weighing(Gain(e), HardDrift(e)) \in Threads /\ Weighing(Gain(e), HardDrift(e)).at = "weigh"
    BY WeighedAndApproved, GainIsInt
  <2> QED BY <1>2, <1>8, <2>1 DEF Report
<1>9. CASE Weigh(w)
  <2>1. rounds' = clean' /\ clean' \in 0 .. Patience
    BY <1>9, RoundAssumption DEF Weigh, StableRounds, PatienceInv
  <2>2. Approved(clean') \in Threads /\ Approved(clean').proof = clean'
    <3>1. clean' \in Int
      BY <2>1, RoundAssumption
    <3> HIDE <2>1
    <3> QED BY <3>1, WeighedAndApproved
  <2>3. worker' = [worker EXCEPT ![w] = IF Refused(w) \/ rounds' < Patience THEN Idle ELSE Approved(clean')]
    BY <1>9 DEF Weigh
  <2>4. CASE Refused(w) \/ rounds' < Patience
    <3>1. worker' = [worker EXCEPT ![w] = Idle]
      BY <2>3, <2>4
    <3>2. patient'
      BY <3>1, ThreadMoves, IdleIsThread DEF PatienceInv, PromotionIsPatient
    <3> QED BY <2>1, <3>2
  <2>5. CASE ~(Refused(w) \/ rounds' < Patience)
    <3>1. worker' = [worker EXCEPT ![w] = Approved(clean')] /\ clean' = Patience
      BY <2>1, <2>3, <2>5, RoundAssumption
    <3>2. patient'
      BY <2>2, <3>1, ThreadMoves DEF PatienceInv, PromotionIsPatient
    <3> QED BY <2>1, <3>2
  <2> QED BY <2>4, <2>5
<1>10. CASE Adopt(w)
  BY <1>2, <1>10, IdleIsThread DEF Adopt
<1> QED BY <1>1, <1>3, <1>4, <1>5, <1>6, <1>7, <1>8, <1>9, <1>10 DEF ProcessRawEvent

LEMMA ServiceAndPatience ==
  ServiceInv /\ PatienceInv /\ [Next]_vars => ServiceInv' /\ PatienceInv'
<1> SUFFICES ASSUME ServiceInv, PatienceInv, [Next]_vars PROVE ServiceInv' /\ PatienceInv'
  OBVIOUS
<1>1. ASSUME NEW w \in pool, ProcessRawEvent(w), UNCHANGED pool PROVE ServiceInv' /\ PatienceInv'
  <2>1. w \in Workers
    BY DEF ServiceInv
  <2> QED BY <1>1, <2>1, RoundService, RoundIsPatient
<1>2. CASE Restart
  BY <1>2, ForgetKeeps, ForgetIsPatient DEF Restart
<1>3. CASE UNCHANGED <<pool, service>>
  BY <1>3 DEF service, ServiceInv, PatienceInv, PromotionIsPatient
<1> QED BY <1>1, <1>2, <1>3
      DEF Next, vars, SyncShadow, IngestColab, OrchestratorRestart, PromoteModel, PostLost

\* A promotion is approved on Patience clean verdicts in a row, whichever threads gave
\* them: a refusal or a restart starts the count again, and nothing else touches it
\* (PromotionManager.evaluate).
THEOREM PromotionsArePatient == Spec => []PromotionIsPatient
<1>1. PatienceInv => PromotionIsPatient
  BY DEF PatienceInv
<1> QED BY ServiceInit, PatienceInit, ServiceAndPatience, <1>1, PTL DEF Spec

-----------------------------------------------------------------------------
LEMMA PointersInit == Init => PointersInv
<1> SUFFICES ASSUME Init PROVE PointersInv
  OBVIOUS
<1>1. \A w \in Workers : worker[w].at = "idle"
  BY IdleIsThread DEF Init
<1>2. \A i \in Models : model[i].parent = NoModel
  BY DEF Init, Blank
<1> QED BY <1>1, <1>2 DEF Init, PointersInv, Known

LEMMA ForgetKeepsPointers ==
  ASSUME PointersInv, Forget, UNCHANGED <<posts, registry>>
  PROVE  PointersInv'
<1>1. \A w \in Workers : worker'[w].at = "idle"
  BY IdleIsThread DEF Forget
<1> QED BY <1>1 DEF Forget, PointersInv, Known

LEMMA RoundKeepsPointers ==
  ASSUME ServiceInv, PointersInv, NEW w \in Workers, ProcessRawEvent(w), UNCHANGED <<posts, registry>>
  PROVE  PointersInv'
<1> DEFINE averaging == \A v \in Workers : worker[v].at = "average" => worker[v].id \in Known
           parents == \A i \in Models : model[i].parent \in Known
<1>1. ASSUME champion' \in Known', averaging', parents', adopted \subseteq adopted' PROVE PointersInv'
  BY <1>1 DEF PointersInv, Known
<1>2. ASSUME NEW next \in Threads, worker' = [worker EXCEPT ![w] = next],
             next.at = "average" => next.id \in Known, adopted \subseteq adopted'
      PROVE  averaging'
  <2>1. ASSUME NEW v \in Workers, worker'[v].at = "average" PROVE worker'[v].id \in Known
    BY <1>2, <2>1, ThreadMoves DEF PointersInv
  <2> QED BY <1>2, <2>1 DEF Known
<1>3. CASE Observe(w)
  <2>1. ASSUME NEW v \in Workers, worker'[v].at = "average" PROVE worker'[v].id \in Known
    BY <1>3, <2>1, ObserveMoves DEF PointersInv
  <2>2. UNCHANGED <<champion, model, adopted>>
    BY <1>3 DEF Observe
  <2> QED BY <1>1, <2>1, <2>2 DEF PointersInv, Known
<1>4. CASE Train(w)
  <2>1. Before("average", champion) \in Threads /\ Before("average", champion).id \in Known
    BY BeforeIsThread DEF ServiceInv, Places, PointersInv
  <2>2. averaging'
    BY <1>2, <1>4, <2>1 DEF Train
  <2> QED BY <1>1, <1>4, <2>2 DEF Train, PointersInv, Known
<1>5. CASE Trained(w)
  <2>1. Before("sign", NoModel) \in Threads /\ Before("sign", NoModel).at = "sign"
    BY BeforeIsThread DEF NoModel, Places
  <2>2. averaging'
    BY <1>2, <1>5, <2>1 DEF Trained
  <2>3. worker[w].at = "average" /\ worker[w].id \in Known /\ worker[w].id \in Nat
    BY <1>5 DEF Trained, PointersInv, ServiceInv, Threads
  <2>4. Snapshot(w) = [parent |-> worker[w].id, manifest |-> NoModel, report |-> Unreported]
    BY DEF Snapshot, Blank
  <2>5. Snapshot(w) \in AnySnapshot /\ trained' \in Int
    BY <1>5, <2>3, <2>4 DEF AnySnapshot, NoModel, Unreported, Trained, ServiceInv
  <2>6. \A i \in Models : model'[i] = IF i = trained' THEN Snapshot(w) ELSE model[i]
    BY <1>5, <2>5, SnapshotChanges DEF Trained
  <2>7. \A i \in Models : model'[i].parent \in Known
    BY <2>3, <2>4, <2>6 DEF PointersInv
  <2> QED BY <1>1, <1>5, <2>2, <2>7 DEF Trained, PointersInv, Known
<1>6. CASE TrainRaises(w)
  <2>1. CASE w = Main
    BY <1>6, <2>1, ForgetKeepsPointers DEF TrainRaises
  <2>2. CASE w # Main
    <3>1. averaging'
      BY <1>2, <1>6, <2>2, IdleIsThread DEF TrainRaises
    <3> QED BY <1>1, <1>6, <2>2, <3>1 DEF TrainRaises, PointersInv, Known
  <2> QED BY <2>1, <2>2
<1>7. CASE Sign(w)
  <2>1. Before("stamp", shadow) \in Threads /\ Before("stamp", shadow).at = "stamp"
    BY BeforeIsThread DEF ServiceInv, Places
  <2>2. averaging'
    BY <1>2, <1>7, <2>1 DEF Sign
  <2> QED BY <1>1, <1>7, <2>2 DEF Sign, PointersInv, Known
<1>8. CASE Stamp(w)
  <2>1. Before("report", NoModel) \in Threads /\ Before("report", NoModel).at = "report"
    BY BeforeIsThread DEF NoModel, Places
  <2>2. averaging'
    BY <1>2, <1>8, <2>1 DEF Stamp
  <2>3. \A i \in Models : model'[i].parent \in Known
    BY <1>8, StampChanges DEF PointersInv
  <2> QED BY <1>1, <1>8, <2>2, <2>3 DEF Stamp, PointersInv, Known
<1>9. CASE Report(w)
  <2> PICK e \in Events :
         /\ model' = [model EXCEPT ![shadow] = [model[shadow] EXCEPT !.report = Gain(e)]]
         /\ worker' = [worker EXCEPT ![w] = Weighing(Gain(e), HardDrift(e))]
    BY <1>9 DEF Report
  <2>1. Weighing(Gain(e), HardDrift(e)) \in Threads /\ Weighing(Gain(e), HardDrift(e)).at = "weigh"
    BY WeighedAndApproved, GainIsInt
  <2>2. averaging'
    BY <1>2, <1>9, <2>1 DEF Report
  <2>3. \A i \in Models : model'[i].parent \in Known
    BY ReportChanges DEF PointersInv
  <2> QED BY <1>1, <1>9, <2>2, <2>3 DEF Report, PointersInv, Known
<1>10. CASE Weigh(w)
  <2>1. ASSUME NEW v \in Workers, worker'[v].at = "average" PROVE worker'[v].id \in Known
    <3>1. v # w
      BY <1>10, <2>1, IdleIsThread DEF Weigh, ServiceInv, Approved, Thread
    <3>2. worker'[v] = worker[v]
      BY <1>10, <3>1 DEF Weigh, ServiceInv
    <3> QED BY <2>1, <3>2 DEF PointersInv
  <2> QED BY <1>1, <1>10, <2>1 DEF Weigh, PointersInv, Known
<1>11. CASE Adopt(w)
  <2>1. averaging'
    BY <1>2, <1>11, IdleIsThread DEF Adopt
  <2> QED BY <1>1, <1>11, <2>1 DEF Adopt, PointersInv, Known
<1> QED BY <1>3, <1>4, <1>5, <1>6, <1>7, <1>8, <1>9, <1>10, <1>11 DEF ProcessRawEvent

\* The entry a candidate makes, and what it says.
LEMMA EntryOf ==
  ASSUME PointersInv, NEW c, EvaluateCandidate(c),
         NEW i \in Models \cup {Colab}, NEW e \in registry'[i], e \notin registry[i]
  PROVE  /\ i = c.id /\ VerifyManifest(c)
         /\ e = [mode |-> Mode(c.report), rollback |-> c.rollback, manifest |-> c.manifest,
                 reviewed |-> c.reviewed]
         /\ registry'[i] = {e}
<1>1. VerifyManifest(c)
  BY DEF EvaluateCandidate
<1>2. registry' = [registry EXCEPT ![c.id] =
        {[mode |-> Mode(c.report), rollback |-> c.rollback, manifest |-> c.manifest,
          reviewed |-> c.reviewed]}]
  BY <1>1 DEF EvaluateCandidate
<1>3. i = c.id
  BY <1>2 DEF PointersInv
<1> QED BY <1>1, <1>2, <1>3 DEF PointersInv

LEMMA RegistryIsMap ==
  ASSUME PointersInv, NEW c, EvaluateCandidate(c)
  PROVE  registry' = [i \in Models \cup {Colab} |-> registry'[i]]
BY DEF EvaluateCandidate, PointersInv

LEMMA CandidateKeepsPointers ==
  ASSUME PointersInv, NEW c, EvaluateCandidate(c), c.rollback \in Known, UNCHANGED service,
         posts' \subseteq posts
  PROVE  PointersInv'
<1>1. UNCHANGED <<champion, worker, model, adopted>>
  BY DEF service
<1>2. ASSUME NEW i \in Models \cup {Colab}, NEW e \in registry'[i] PROVE e.rollback \in Known
  <2>1. CASE e \in registry[i]
    BY <2>1 DEF PointersInv
  <2>2. CASE e \notin registry[i]
    <3>1. e = [mode |-> Mode(c.report), rollback |-> c.rollback, manifest |-> c.manifest,
               reviewed |-> c.reviewed]
      BY <2>2, EntryOf
    <3> QED BY <3>1
  <2> QED BY <2>1, <2>2
<1> QED BY <1>1, <1>2, RegistryIsMap DEF PointersInv, Known

LEMMA PointersStep == ServiceInv /\ PointersInv /\ [Next]_vars => PointersInv'
<1> SUFFICES ASSUME ServiceInv, PointersInv, [Next]_vars PROVE PointersInv'
  OBVIOUS
<1>1. ASSUME NEW w \in pool, ProcessRawEvent(w), UNCHANGED <<pool, posts, registry>> PROVE PointersInv'
  <2>1. w \in Workers
    BY DEF ServiceInv
  <2> QED BY <1>1, <2>1, RoundKeepsPointers
<1>2. CASE SyncShadow
  <2>1. shadow \in Models
    BY <1>2, RoundAssumption DEF SyncShadow, ServiceInv, Models, NoModel
  <2>2. \A p \in posts' : p.rollback \in Known
    BY <1>2, <2>1 DEF SyncShadow, Payload, PointersInv
  <2> QED BY <1>2, <2>2 DEF SyncShadow, service, PointersInv, Known
<1>3. CASE IngestColab
  <2> PICK v \in Gates, signed \in {NoModel, Colab} :
        EvaluateCandidate([id |-> Colab, manifest |-> signed, report |-> 2,
                           rollback |-> NoModel, reviewed |-> v.humanReviewed])
    BY <1>3 DEF IngestColab
  <2> QED BY <1>3, CandidateKeepsPointers DEF IngestColab, Known
<1>4. CASE Restart
  BY <1>4, ForgetKeepsPointers DEF Restart
<1>5. CASE OrchestratorRestart
  BY <1>5 DEF OrchestratorRestart, service, PointersInv, Known
<1>6. ASSUME NEW p \in posts, PromoteModel(p) PROVE PointersInv'
  BY <1>6, CandidateKeepsPointers DEF PromoteModel, PointersInv
<1>7. ASSUME NEW p \in posts, PostLost(p) PROVE PointersInv'
  BY <1>7 DEF PostLost, service, PointersInv, Known
<1>8. CASE UNCHANGED vars
  BY <1>8 DEF vars, service, PointersInv, Known
<1> QED BY <1>1, <1>2, <1>3, <1>4, <1>5, <1>6, <1>7, <1>8 DEF Next

\* Rolling back leads to a model that was in use: the pointer is the champion of the
\* moment the training began, and whatever the threads, late posts or restarts do later
\* it is only handed on (train_shadow, build_model_candidate_payload).
THEOREM PointersLeadBack == Spec => []RollbackWasChampion
<1>1. PointersInv => RollbackWasChampion
  BY DEF PointersInv, RollbackWasChampion, Known
<1> QED BY ServiceInit, PatienceInit, PointersInit, ServiceAndPatience, PointersStep, <1>1, PTL DEF Spec

-----------------------------------------------------------------------------
\* The main loop alone: what it signs, reports, weighs and adopts is one new model.
Signing == {"sign", "stamp", "report", "weigh", "adopt"}

RoundIsOne ==
  /\ worker[Main].at \in Signing => shadow \in Models /\ champion < shadow
  /\ worker[Main].at = "stamp" => worker[Main].id = shadow
  /\ worker[Main].at \in {"report", "weigh", "adopt"} => model[shadow].manifest = shadow
  /\ worker[Main].at \in {"sign", "stamp", "report"} => model[shadow].report = Unreported
  /\ worker[Main].at = "weigh" => model[shadow].report = worker[Main].gain
  /\ worker[Main].at = "adopt" => model[shadow].report > 0
  /\ champion # NoModel => model[champion].manifest = champion /\ model[champion].report > 0
  /\ \A i \in Models : model[i].manifest \in {NoModel, i}

AloneInv == Alone => RoundIsOne

LEMMA ForgetKeepsRound ==
  ASSUME RoundIsOne, Forget
  PROVE  RoundIsOne'
<1>1. worker'[Main].at = "idle"
  BY IdleIsThread, RoundAssumption DEF Forget
<1> QED BY <1>1 DEF Forget, RoundIsOne, Signing, NoModel

LEMMA MainKeepsRound ==
  ASSUME ServiceInv, RoundIsOne, ProcessRawEvent(Main)
  PROVE  RoundIsOne'
<1> USE RoundAssumption
<1>1. /\ Main \in Workers /\ worker[Main] \in Threads
      /\ champion # NoModel => champion \in Models
      /\ champion \in Nat /\ shadow \in Nat /\ trained \in Nat
      /\ \A i \in Models : model[i].report \in Int
  BY DEF ServiceInv, Models, NoModel, AnySnapshot
<1>2. ASSUME NEW next, worker' = [worker EXCEPT ![Main] = next]
      PROVE  worker'[Main] = next
  BY <1>1, <1>2 DEF ServiceInv
<1>3. CASE Observe(Main)
  <2>1. worker'[Main].at \in {"idle", "train"}
    BY <1>1, <1>3, ObserveMoves
  <2> QED BY <1>3, <2>1 DEF Observe, RoundIsOne, Signing
<1>4. CASE Train(Main)
  <2>1. worker'[Main].at = "average"
    BY <1>2, <1>4 DEF Train, Before, Thread
  <2> QED BY <1>4, <2>1 DEF Train, RoundIsOne, Signing
<1>5. CASE Trained(Main)
  <2>1. worker'[Main].at = "sign"
    BY <1>2, <1>5 DEF Trained, Before, Thread
  <2>2. shadow' = trained + 1 /\ trained' = trained + 1 /\ shadow' \in Models /\ champion' = champion
        /\ champion < shadow'
    BY <1>1, <1>5 DEF Trained, ServiceInv, Models
  <2>3. Snapshot(Main) = [parent |-> worker[Main].id, manifest |-> NoModel, report |-> Unreported]
    BY DEF Snapshot, Blank
  <2>4. Snapshot(Main) \in AnySnapshot
    BY <1>1, <2>3 DEF AnySnapshot, NoModel, Unreported, Threads
  <2>5. \A i \in Models : model'[i] = IF i = trained + 1 THEN Snapshot(Main) ELSE model[i]
    <3>1. trained + 1 \in Int /\ model' = [model EXCEPT ![trained + 1] = Snapshot(Main)]
      BY <1>1, <1>5, <2>2 DEF Trained
    <3> HIDE <1>1, <1>2, <2>1, <2>2, <2>3
    <3> QED BY <2>4, <3>1, SnapshotChanges
  <2> QED BY <1>1, <2>1, <2>2, <2>3, <2>5 DEF RoundIsOne, Signing
<1>6. CASE TrainRaises(Main)
  BY <1>6, ForgetKeepsRound DEF TrainRaises
<1>7. CASE Sign(Main)
  <2>1. worker'[Main].at = "stamp" /\ worker'[Main].id = shadow
    BY <1>2, <1>7 DEF Sign, Before, Thread
  <2> QED BY <1>7, <2>1 DEF Sign, RoundIsOne, Signing
<1>8. CASE Stamp(Main)
  <2>1. worker'[Main].at = "report"
    BY <1>2, <1>8 DEF Stamp, Before, Thread
  <2>2. worker[Main].at = "stamp" /\ UNCHANGED <<shadow, champion>>
    BY <1>8 DEF Stamp
  <2>3. shadow \in Models /\ champion < shadow /\ worker[Main].id = shadow
    BY <2>2 DEF RoundIsOne, Signing
  <2>4. \A i \in Models : /\ model'[i].report = model[i].report
                          /\ model'[i].manifest = IF i = shadow THEN shadow ELSE model[i].manifest
    BY <1>1, <1>8, <2>3, StampChanges
  <2> QED BY <1>1, <2>1, <2>2, <2>3, <2>4 DEF RoundIsOne, Signing
<1>9. CASE Report(Main)
  <2> PICK e \in Events :
         /\ model' = [model EXCEPT ![shadow] = [model[shadow] EXCEPT !.report = Gain(e)]]
         /\ worker' = [worker EXCEPT ![Main] = Weighing(Gain(e), HardDrift(e))]
    BY <1>9 DEF Report
  <2>1. worker'[Main].at = "weigh" /\ worker'[Main].gain = Gain(e)
    BY <1>2 DEF Weighing, Thread
  <2>2. worker[Main].at = "report" /\ UNCHANGED <<shadow, champion>>
    BY <1>9 DEF Report
  <2>3. shadow \in Models /\ champion < shadow /\ model[shadow].manifest = shadow
    BY <2>2 DEF RoundIsOne, Signing
  <2>4. \A i \in Models : /\ model'[i].manifest = model[i].manifest
                          /\ model'[i].report = IF i = shadow THEN Gain(e) ELSE model[i].report
    BY <1>1, ReportChanges
  <2> QED BY <1>1, <2>1, <2>2, <2>3, <2>4 DEF RoundIsOne, Signing
<1>10. CASE Weigh(Main)
  <2>1. worker[Main].at = "weigh" /\ UNCHANGED <<shadow, champion, model>>
    BY <1>10 DEF Weigh
  <2>2. shadow \in Models /\ champion < shadow /\ model[shadow].manifest = shadow
        /\ model[shadow].report = worker[Main].gain
    BY <2>1 DEF RoundIsOne, Signing
  <2>3. \/ worker'[Main].at = "idle"
        \/ worker'[Main].at = "adopt" /\ worker[Main].gain > 0
    <3>1. worker'[Main] = IF Refused(Main) \/ rounds' < Patience THEN Idle ELSE Approved(clean')
      BY <1>1, <1>10 DEF Weigh, ServiceInv
    <3>2. worker[Main].gain \in Int
      BY <1>1 DEF Threads
    <3> QED BY <3>1, <3>2, IdleIsThread DEF Refused, Approved, Thread
  <2> QED BY <1>1, <2>1, <2>2, <2>3 DEF RoundIsOne, Signing
<1>11. CASE Adopt(Main)
  <2>1. worker'[Main].at = "idle"
    BY <1>1, <1>2, <1>11, IdleIsThread DEF Adopt
  <2>2. worker[Main].at = "adopt" /\ champion' = shadow /\ UNCHANGED <<shadow, model>>
    BY <1>11 DEF Adopt
  <2> QED BY <2>1, <2>2 DEF RoundIsOne, Signing
<1> QED BY <1>3, <1>4, <1>5, <1>6, <1>7, <1>8, <1>9, <1>10, <1>11 DEF ProcessRawEvent

LEMMA AloneInit == Init => AloneInv
<1> SUFFICES ASSUME Init PROVE RoundIsOne
  BY DEF AloneInv
<1>1. worker[Main].at = "idle"
  BY IdleIsThread, RoundAssumption DEF Init
<1>2. \A i \in Models : model[i].manifest = NoModel
  BY DEF Init, Blank
<1> QED BY <1>1, <1>2 DEF Init, RoundIsOne, Signing

LEMMA AloneStep == ServiceInv /\ AloneInv /\ [Next]_vars => AloneInv'
<1> SUFFICES ASSUME ServiceInv, AloneInv, [Next]_vars PROVE AloneInv'
  OBVIOUS
<1>0. pool' = pool
  BY DEF Next, vars, SyncShadow, IngestColab, Restart, OrchestratorRestart, PromoteModel, PostLost
<1> SUFFICES ASSUME Alone PROVE RoundIsOne'
  BY <1>0 DEF AloneInv, Alone
<1>1. RoundIsOne
  BY DEF AloneInv
<1>2. ASSUME NEW w \in pool, ProcessRawEvent(w) PROVE RoundIsOne'
  BY <1>1, <1>2, MainKeepsRound DEF Alone
<1>3. CASE Restart
  BY <1>1, <1>3, ForgetKeepsRound DEF Restart
<1>4. CASE UNCHANGED service
  BY <1>1, <1>4 DEF service, RoundIsOne
<1> QED BY <1>2, <1>3, <1>4
      DEF Next, vars, SyncShadow, IngestColab, OrchestratorRestart, PromoteModel, PostLost

\* Without peers pushing events, the champion was trained, signed and weighed with a gain
\* itself, although process_raw_event reads self.shadow again at each of these steps.
THEOREM ChampionsAreVouched == Spec => []ChampionIsVouched
<1>1. AloneInv => ChampionIsVouched
  BY DEF AloneInv, ChampionIsVouched, RoundIsOne
<1> QED BY ServiceInit, PatienceInit, AloneInit, ServiceAndPatience, AloneStep, <1>1, PTL DEF Spec

-----------------------------------------------------------------------------
\* What a post says of its model, and what an entry says, is what the model still says,
\* or that there was no report yet.
SaysSo(i, manifest, report) ==
  manifest \in {NoModel, i} /\ report \in {Unreported, model[i].report}

PostsInv ==
  \A p \in posts : /\ p.id \in Models /\ p.id <= trained
                   /\ Alone => SaysSo(p.id, p.manifest, p.report)

RegistryInv ==
  /\ \A i \in Models : \A e \in registry[i] : i <= trained
  /\ RegistryIsVouched

\* Posts and entries are of models trained before, and of those a round of the main loop
\* alone changes the report at most once, from none.
LEMMA ReportsAreKept ==
  ASSUME ServiceInv, RoundIsOne, ProcessRawEvent(Main), NEW i \in Models, i <= trained
  PROVE  /\ i <= trained'
         /\ model'[i].report = model[i].report \/ model[i].report = Unreported
<1>1. Main \in Workers /\ trained \in Nat /\ i \in Nat
  BY RoundAssumption DEF ServiceInv, Models
<1>2. CASE Trained(Main)
  <2>1. trained' = trained + 1
    BY <1>2 DEF Trained
  <2>2. Snapshot(Main) \in AnySnapshot
    BY <1>1 DEF ServiceInv, Snapshot, Blank, AnySnapshot, Threads, NoModel, Unreported
  <2>3. model' = [model EXCEPT ![trained + 1] = Snapshot(Main)]
    BY <1>2, <2>1 DEF Trained
  <2>4. model'[i] = model[i]
    BY <1>1, <2>2, <2>3, SnapshotChanges
  <2> QED BY <1>1, <2>1, <2>4
<1>3. CASE Stamp(Main)
  BY <1>1, <1>3, StampChanges DEF Stamp
<1>4. CASE Report(Main)
  <2> PICK e \in Events : model' = [model EXCEPT ![shadow] = [model[shadow] EXCEPT !.report = Gain(e)]]
    BY <1>4 DEF Report
  <2>1. model[shadow].report = Unreported
    BY <1>4 DEF Report, RoundIsOne
  <2>2. model'[i].report = IF i = shadow THEN Gain(e) ELSE model[i].report
    BY <1>1, ReportChanges
  <2> QED BY <1>4, <2>1, <2>2 DEF Report
<1>5. CASE UNCHANGED <<model, trained>>
  BY <1>5
<1> QED BY <1>2, <1>3, <1>4, <1>5
      DEF ProcessRawEvent, Observe, Train, TrainRaises, Forget, Sign, Weigh, Adopt

LEMMA TrainedGrows ==
  ASSUME ServiceInv, NEW w \in Workers, ProcessRawEvent(w)
  PROVE  trained' \in Nat /\ trained <= trained'
<1>1. trained \in Nat
  BY RoundAssumption DEF ServiceInv
<1> QED BY <1>1 DEF ProcessRawEvent, Observe, Train, Trained, TrainRaises, Forget, Sign, Stamp, Report,
                    Weigh, Adopt

\* A round of any thread leaves the posts and the registry true.
LEMMA RoundKeepsRegistry ==
  ASSUME ServiceInv, AloneInv, PostsInv, RegistryInv, NEW w \in pool, ProcessRawEvent(w),
         UNCHANGED <<pool, posts, registry>>
  PROVE  PostsInv' /\ RegistryInv'
<1>1. w \in Workers /\ (Alone => w = Main) /\ Alone' = Alone
  BY DEF ServiceInv, Alone
<1>2. trained \in Nat /\ trained' \in Nat /\ trained <= trained' /\ Models \subseteq Nat
  BY <1>1, TrainedGrows, RoundAssumption DEF ServiceInv, Models
<1>3. ASSUME Alone, NEW i \in Models, i <= trained
      PROVE  model'[i].report = model[i].report \/ model[i].report = Unreported
  BY <1>1, <1>3, ReportsAreKept DEF AloneInv
<1>4. ASSUME NEW p \in posts PROVE p.id <= trained' /\ (Alone => SaysSo(p.id, p.manifest, p.report)')
  <2>1. p.id \in Models /\ p.id <= trained /\ (Alone => SaysSo(p.id, p.manifest, p.report))
    BY DEF PostsInv
  <2>2. p.id <= trained'
    <3>1. p.id \in Nat
      BY <1>2, <2>1
    <3>2. \A a, b, c \in Nat : a <= b /\ b <= c => a <= c
      OBVIOUS
    <3> QED BY <1>2, <2>1, <3>1, <3>2
  <2>3. ASSUME Alone
        PROVE  p.manifest \in {NoModel, p.id} /\ p.report \in {Unreported, model'[p.id].report}
    BY <1>3, <2>1, <2>3 DEF SaysSo
  <2> QED BY <2>2, <2>3 DEF SaysSo
<1>5. ASSUME NEW i \in Models, NEW e \in registry[i]
      PROVE  /\ i <= trained'
             /\ Alone => (e.mode # "shadow" => e.mode = Mode(model'[i].report))
  <2>1. i <= trained /\ (Alone => (e.mode # "shadow" => e.mode = Mode(model[i].report)))
    BY DEF RegistryInv, RegistryIsVouched
  <2>2. Mode(Unreported) = "shadow"
    BY DEF Mode, Unreported
  <2> QED BY <1>2, <1>3, <2>1, <2>2
<1>6. PostsInv'
  BY <1>1, <1>4 DEF PostsInv
<1>7. RegistryInv'
  BY <1>1, <1>5 DEF RegistryInv, RegistryIsVouched
<1> QED BY <1>6, <1>7

LEMMA PostIsVouched ==
  ASSUME ServiceInv, PointersInv, PostsInv, RegistryInv, NEW p \in posts, PromoteModel(p)
  PROVE  PostsInv' /\ RegistryInv'
<1>1. UNCHANGED <<pool, trained, model>> /\ posts' \subseteq posts /\ EvaluateCandidate(p)
  BY DEF PromoteModel, service
<1>2. PostsInv'
  BY <1>1 DEF PostsInv, SaysSo, Alone
<1>3. p.id \in Models /\ p.id # Colab /\ p.id <= trained
      /\ (Alone => p.manifest \in {NoModel, p.id} /\ p.report \in {Unreported, model[p.id].report})
  BY RoundAssumption DEF PostsInv, SaysSo, Models
<1>4. ASSUME NEW i \in Models, NEW e \in registry'[i]
      PROVE  /\ i <= trained /\ e.manifest # NoModel
             /\ Alone => e.manifest = i /\ (e.mode # "shadow" => e.mode = Mode(model[i].report))
  <2>1. CASE e \in registry[i]
    BY <2>1 DEF RegistryInv, RegistryIsVouched
  <2>2. CASE e \notin registry[i]
    <3>1. /\ i = p.id /\ VerifyManifest(p)
          /\ e = [mode |-> Mode(p.report), rollback |-> p.rollback, manifest |-> p.manifest,
                  reviewed |-> p.reviewed]
      BY <1>1, <2>2, EntryOf
    <3>2. Mode(Unreported) = "shadow"
      BY DEF Mode, Unreported
    <3> QED BY <1>3, <3>1, <3>2 DEF VerifyManifest
  <2> QED BY <2>1, <2>2
<1>5. ASSUME NEW e \in registry'[Colab] PROVE e.reviewed
  <2>1. e \in registry[Colab]
    BY <1>1, <1>3, EntryOf
  <2> QED BY <2>1 DEF RegistryInv, RegistryIsVouched
<1> QED BY <1>1, <1>2, <1>4, <1>5 DEF RegistryInv, RegistryIsVouched, Alone

LEMMA ColabIsReviewed ==
  ASSUME ServiceInv, PointersInv, PostsInv, RegistryInv, IngestColab
  PROVE  PostsInv' /\ RegistryInv'
<1> PICK v \in Gates, signed \in {NoModel, Colab} :
      /\ PassesGates(v)
      /\ EvaluateCandidate([id |-> Colab, manifest |-> signed, report |-> 2,
                            rollback |-> NoModel, reviewed |-> v.humanReviewed])
  BY DEF IngestColab
<1> DEFINE c == [id |-> Colab, manifest |-> signed, report |-> 2,
                 rollback |-> NoModel, reviewed |-> v.humanReviewed]
<1>1. UNCHANGED <<pool, trained, model, posts>> /\ EvaluateCandidate(c) /\ c.id = Colab /\ c.reviewed
  BY DEF IngestColab, service, PassesGates
<1> HIDE DEF c
<1>2. PostsInv'
  BY <1>1 DEF PostsInv, SaysSo, Alone
<1>3. ASSUME NEW i \in Models, NEW e \in registry'[i] PROVE e \in registry[i]
  BY <1>1, <1>3, EntryOf, RoundAssumption DEF Models
<1>4. ASSUME NEW e \in registry'[Colab] PROVE e.reviewed
  <2>1. CASE e \in registry[Colab]
    BY <2>1 DEF RegistryInv, RegistryIsVouched
  <2>2. CASE e \notin registry[Colab]
    <3>1. e = [mode |-> Mode(c.report), rollback |-> c.rollback, manifest |-> c.manifest,
               reviewed |-> c.reviewed]
      BY <1>1, <2>2, EntryOf
    <3> QED BY <1>1, <3>1
  <2> QED BY <2>1, <2>2
<1> QED BY <1>1, <1>2, <1>3, <1>4 DEF RegistryInv, RegistryIsVouched, Alone

LEMMA RegistryStep ==
  ServiceInv /\ PointersInv /\ AloneInv /\ PostsInv /\ RegistryInv /\ [Next]_vars
    => PostsInv' /\ RegistryInv'
<1> SUFFICES ASSUME ServiceInv, PointersInv, AloneInv, PostsInv, RegistryInv, [Next]_vars
             PROVE  PostsInv' /\ RegistryInv'
  OBVIOUS
<1>1. ASSUME NEW w \in pool, ProcessRawEvent(w), UNCHANGED <<pool, posts, registry>>
      PROVE  PostsInv' /\ RegistryInv'
  BY <1>1, RoundKeepsRegistry
<1>2. CASE SyncShadow
  <2>1. UNCHANGED <<pool, trained, model, registry>> /\ shadow \in Models /\ shadow <= trained
        /\ posts' = posts \cup {Payload(shadow)}
    BY <1>2, RoundAssumption DEF SyncShadow, service, ServiceInv, Models, NoModel
  <2>2. Payload(shadow).id = shadow /\ Payload(shadow).manifest = model[shadow].manifest
        /\ Payload(shadow).report = model[shadow].report
    BY DEF Payload
  <2>3. Alone => SaysSo(shadow, Payload(shadow).manifest, Payload(shadow).report)
    BY <2>1, <2>2 DEF AloneInv, RoundIsOne, SaysSo
  <2>4. PostsInv'
    BY <2>1, <2>2, <2>3 DEF PostsInv, SaysSo, Alone
  <2> QED BY <2>1, <2>4 DEF RegistryInv, RegistryIsVouched, Alone
<1>3. CASE IngestColab
  BY <1>3, ColabIsReviewed
<1>4. CASE Restart
  BY <1>4 DEF Restart, Forget, PostsInv, SaysSo, RegistryInv, RegistryIsVouched, Alone
<1>5. CASE OrchestratorRestart
  <2>1. UNCHANGED <<pool, trained, model, posts>> /\ \A i \in Models \cup {Colab} : registry'[i] = {}
    BY <1>5 DEF OrchestratorRestart, service
  <2> QED BY <2>1 DEF PostsInv, SaysSo, RegistryInv, RegistryIsVouched, Alone
<1>6. ASSUME NEW p \in posts, PromoteModel(p) PROVE PostsInv' /\ RegistryInv'
  BY <1>6, PostIsVouched
<1>7. ASSUME NEW p \in posts, PostLost(p) PROVE PostsInv' /\ RegistryInv'
  BY <1>7 DEF PostLost, service, PostsInv, SaysSo, RegistryInv, RegistryIsVouched, Alone
<1>8. CASE UNCHANGED vars
  BY <1>8 DEF vars, service, PostsInv, SaysSo, RegistryInv, RegistryIsVouched, Alone
<1> QED BY <1>1, <1>2, <1>3, <1>4, <1>5, <1>6, <1>7, <1>8 DEF Next

\* The registry enters nothing unsigned and nothing of Colab nobody reviewed; of the main
\* loop alone an entry is what its model says, whenever the post was made and handled
\* (_evaluate_candidate, ingest_colab_training_result).
THEOREM EntriesAreVouched == Spec => []RegistryIsVouched
<1>1. Init => PostsInv /\ RegistryInv
  BY DEF Init, PostsInv, RegistryInv, RegistryIsVouched
<1>2. RegistryInv => RegistryIsVouched
  BY DEF RegistryInv
<1> QED BY ServiceInit, PatienceInit, PointersInit, AloneInit, <1>1, ServiceAndPatience, PointersStep,
          AloneStep, RegistryStep, <1>2, PTL DEF Spec

-----------------------------------------------------------------------------
(* The memory of cases: CaseMemory.                                            *)

\* t is the end of s.
Ends(t, s) ==
  /\ t \in Seq(Case)
  /\ \E d \in Nat : Len(t) + d = Len(s) /\ \A i \in 1 .. Len(t) : t[i] = s[i + d]

OldestFirst(s) == \A i, j \in 1 .. Len(s) : i <= j => s[j].age <= s[i].age

\* Every agent a case of s names was selected for an event of its kind since.
Founded(s) ==
  \A i \in 1 .. Len(s) : \A a \in s[i].agents : counted[a][s[i].kind] <= s[i].age

MemoryInv ==
  /\ cases \in Seq(Case) /\ OldestFirst(cases)
  /\ counted \in [Agents -> [Kinds -> 0 .. Old]]
  /\ Founded(cases)
  /\ BypassRestsOnAnalysis

(* The ends of a sequence.                                                    *)
LEMMA SubSeqEnds ==
  ASSUME NEW s \in Seq(Case), NEW m \in 1 .. Len(s) + 1
  PROVE  /\ Ends(SubSeq(s, m, Len(s)), s)
         /\ \A i \in 1 .. Len(SubSeq(s, m, Len(s))) :
              i + m - 1 \in m .. Len(s) /\ SubSeq(s, m, Len(s))[i] = s[i + m - 1]
<1> DEFINE t == SubSeq(s, m, Len(s))
<1>1. Len(s) \in Nat /\ m \in Nat /\ m >= 1 /\ m <= Len(s) + 1
  OBVIOUS
<1>2. \A i \in m .. Len(s) : s[i] \in Case
  BY <1>1
<1>3. t \in Seq(Case) /\ Len(t) = Len(s) - m + 1
      /\ \A i \in 1 .. Len(s) - m + 1 : t[i] = s[i + m - 1]
  BY <1>1, <1>2
<1>4. m - 1 \in Nat /\ Len(t) + (m - 1) = Len(s)
      /\ \A i \in 1 .. Len(t) : t[i] = s[i + (m - 1)]
  BY <1>1, <1>3
<1>5. Ends(t, s)
  BY <1>3, <1>4 DEF Ends
<1>6. \A i \in 1 .. Len(t) : i + m - 1 \in m .. Len(s) /\ t[i] = s[i + m - 1]
  BY <1>1, <1>3
<1>7. QED
  BY <1>5, <1>6

LEMMA EndsOfEnds ==
  ASSUME NEW r, NEW t, NEW s \in Seq(Case), Ends(r, t), Ends(t, s)
  PROVE  Ends(r, s)
<1>1. PICK d \in Nat : Len(r) + d = Len(t) /\ \A i \in 1 .. Len(r) : r[i] = t[i + d]
  BY DEF Ends
<1>2. PICK e \in Nat : Len(t) + e = Len(s) /\ \A i \in 1 .. Len(t) : t[i] = s[i + e]
  BY DEF Ends
<1>3. Len(r) \in Nat /\ Len(t) \in Nat /\ Len(s) \in Nat
  BY DEF Ends
<1>4. \A i \in 1 .. Len(r) : r[i] = s[i + (d + e)]
  BY <1>1, <1>2, <1>3
<1>5. Len(r) + (d + e) = Len(s) /\ d + e \in Nat
  BY <1>1, <1>2, <1>3
<1>6. QED
  BY <1>4, <1>5 DEF Ends

LEMMA EndsKeep ==
  ASSUME NEW s \in Seq(Case), NEW t, Ends(t, s), OldestFirst(s), Founded(s)
  PROVE  OldestFirst(t) /\ Founded(t)
<1>1. PICK d \in Nat : Len(t) + d = Len(s) /\ \A i \in 1 .. Len(t) : t[i] = s[i + d]
  BY DEF Ends
<1>2. Len(t) \in Nat /\ Len(s) \in Nat
  BY DEF Ends
<1>3. \A i \in 1 .. Len(t) : i + d \in 1 .. Len(s)
  BY <1>1, <1>2
<1>4. QED
  BY <1>1, <1>2, <1>3 DEF OldestFirst, Founded

LEMMA NewestEnds ==
  ASSUME CaseAssumption, NEW s \in Seq(Case)
  PROVE  Ends(Newest(s), s)
<1>1. Len(s) \in Nat /\ MaxItems \in Nat \ {0}
  BY DEF CaseAssumption
<1>2. (IF Len(s) > MaxItems THEN Len(s) - MaxItems + 1 ELSE 1) \in 1 .. Len(s) + 1
  BY <1>1
<1>3. QED
  BY <1>2, SubSeqEnds DEF Newest

(* The cases that expired are the first ones, so that none is active.          *)
LEMMA ActiveEnds ==
  ASSUME CaseAssumption, NEW s, s = cases, MemoryInv
  PROVE  Ends(ActiveCases, cases) /\ \A i \in 1 .. Len(ActiveCases) : ActiveCases[i].age <= Ttl
<1> DEFINE E == {i \in DOMAIN cases : Expired(cases[i])}
           n == Cardinality(E)
           u == SubSeq(cases, n + 1, Len(cases))
<1>1. /\ cases \in Seq(Case) /\ OldestFirst(cases)
      /\ Len(cases) \in Nat /\ DOMAIN cases = 1 .. Len(cases)
  BY DEF MemoryInv
<1>2. \A i \in 1 .. Len(cases) : cases[i].age \in Int
  <2>1. \A i \in 1 .. Len(cases) : cases[i] \in Case
    BY <1>1
  <2>2. \A i \in 1 .. Len(cases) : cases[i].age \in 0 .. Old
    BY <2>1 DEF Case
  <2>3. QED
    BY <2>2, CaseAssumption DEF Old, CaseAssumption
<1>3. IsFiniteSet(1 .. Len(cases)) /\ Cardinality(1 .. Len(cases)) = Len(cases)
  BY <1>1, FS_Interval
<1>4. E \subseteq 1 .. Len(cases) /\ IsFiniteSet(E) /\ n \in Nat /\ n <= Len(cases)
  BY <1>1, <1>3, FS_Subset, FS_CardinalityType
<1>5. \A i \in (n + 1) .. Len(cases) : i \notin E
  <2> SUFFICES ASSUME NEW i \in (n + 1) .. Len(cases), i \in E PROVE FALSE
    OBVIOUS
  <2>1. i \in 1 .. Len(cases) /\ i \in Nat /\ i > n
    BY <1>1, <1>4
  <2>2. 1 .. i \subseteq E
    <3> SUFFICES ASSUME NEW j \in 1 .. i PROVE j \in E
      OBVIOUS
    <3>1. j \in 1 .. Len(cases) /\ j <= i
      BY <2>1, <1>1
    <3>2. cases[i].age <= cases[j].age
      BY <3>1, <2>1, <1>1 DEF OldestFirst
    <3>3. cases[i].age > Ttl
      BY DEF Expired
    <3>4. cases[j].age > Ttl
      BY <3>1, <3>2, <3>3, <2>1, <1>2, CaseAssumption DEF CaseAssumption
    <3>5. QED
      BY <3>1, <3>4, <1>1 DEF Expired
  <2>3. IsFiniteSet(1 .. i) /\ Cardinality(1 .. i) = i
    BY <2>1, FS_Interval
  <2>4. i <= n
    BY <2>2, <2>3, <1>4, FS_Subset
  <2>5. QED
    BY <2>1, <2>4, <1>4
<1>6. n + 1 \in 1 .. Len(cases) + 1
  BY <1>1, <1>4
<1>7. /\ Ends(u, cases)
      /\ \A i \in 1 .. Len(u) :
           i + (n + 1) - 1 \in (n + 1) .. Len(cases) /\ u[i] = cases[i + (n + 1) - 1]
  BY <1>1, <1>6, SubSeqEnds
<1> HIDE DEF n
<1>8. \A i \in 1 .. Len(u) : u[i].age <= Ttl
  <2> SUFFICES ASSUME NEW i \in 1 .. Len(u) PROVE u[i].age <= Ttl
    OBVIOUS
  <2> DEFINE j == i + (n + 1) - 1
  <2>1. j \in (n + 1) .. Len(cases) /\ u[i] = cases[j]
    BY <1>7
  <2>2. j \in 1 .. Len(cases)
    BY <2>1, <1>4, <1>1
  <2>3. ~(cases[j].age > Ttl)
    BY <2>1, <2>2, <1>5, <1>1 DEF Expired
  <2> HIDE DEF j, u
  <2>4. cases[j].age \in Int /\ Ttl \in Int
    BY <2>2, <1>2, CaseAssumption DEF CaseAssumption
  <2>5. QED
    BY <2>1, <2>3, <2>4
<1>9. u \in Seq(Case)
  BY <1>7 DEF Ends
<1>10. ActiveCases = Newest(u)
  BY DEF ActiveCases, n
<1> HIDE DEF u
<1>11. Ends(Newest(u), u)
  BY <1>9, NewestEnds
<1>12. Ends(ActiveCases, cases)
  BY <1>1, <1>7, <1>10, <1>11, EndsOfEnds
<1>13. \A i \in 1 .. Len(Newest(u)) : Newest(u)[i].age <= Ttl
  <2>1. PICK d \in Nat :
                /\ Len(Newest(u)) + d = Len(u)
                /\ \A i \in 1 .. Len(Newest(u)) : Newest(u)[i] = u[i + d]
    BY <1>11 DEF Ends
  <2>2. Len(Newest(u)) \in Nat /\ Len(u) \in Nat
    BY <1>9, <1>11 DEF Ends
  <2>3. \A i \in 1 .. Len(Newest(u)) : i + d \in 1 .. Len(u)
    BY <2>1, <2>2
  <2>4. QED
    BY <2>1, <2>3, <1>8
<1>14. QED
  BY <1>10, <1>12, <1>13

LEMMA SimilarityTyped ==
  ASSUME CaseAssumption, NEW j \in Kinds, NEW k \in Kinds
  PROVE  Similarity[j][k] \in Int
<1>1. Similarity \in [Kinds -> [Kinds -> Percent]]
  BY CaseAssumption DEF CaseAssumption
<1>2. PICK x : x = Similarity[j][k]
  OBVIOUS
<1>3. x \in Percent
  BY <1>1, <1>2
<1>4. x \in Int
  BY <1>3 DEF Percent
<1>5. QED
  BY <1>2, <1>4

(* What a reuse bypasses was selected in time for a like event.                *)
LEMMA BypassedIsFounded ==
  ASSUME CaseAssumption, MemoryInv, NEW k \in Kinds, NEW version, NEW flagged,
         NEW a \in Bypassed(Reuse(k, version, flagged))
  PROVE  \E j \in Kinds : Similarity[j][k] >= 80 /\ a \in Agents /\ counted[a][j] <= Ttl
<1>1. PICK c \in BestMatch(k) : a \in c.agents /\ (Full(k, c, version) \/ Partial(k, c, version))
  <2> DEFINE full == {c \in BestMatch(k) : Full(k, c, version)}
             part == {c \in BestMatch(k) : ~Full(k, c, version) /\ Partial(k, c, version)}
  <2>1. PICK r \in Reuse(k, version, flagged) : a \in r.bypass
    BY DEF Bypassed
  <2>2. \/ \E c \in full : r = [case |-> c, bypass |-> c.agents]
        \/ \E c \in part : r = [case |-> c, bypass |-> AfterFirst(c.agents)]
    BY <2>1 DEF Reuse
  <2>3. PICK c \in full \cup part : r.bypass = c.agents \/ r.bypass = AfterFirst(c.agents)
    BY <2>2
  <2>4. a \in c.agents
    BY <2>1, <2>3 DEF AfterFirst
  <2>5. QED
    BY <2>3, <2>4
<1>2. PICK i \in Matches(k) : c = ActiveCases[i]
  BY <1>1, Zenon DEF BestMatch
<1>3. Ends(ActiveCases, cases) /\ \A l \in 1 .. Len(ActiveCases) : ActiveCases[l].age <= Ttl
  BY ActiveEnds
<1>4. ActiveCases \in Seq(Case) /\ i \in 1 .. Len(ActiveCases)
  BY <1>2, <1>3 DEF Ends, Matches
<1>5. Founded(ActiveCases)
  BY <1>3, EndsKeep DEF MemoryInv
<1>6. c \in Case /\ c.age <= Ttl /\ counted[a][c.kind] <= c.age
  BY <1>1, <1>2, <1>3, <1>4, <1>5 DEF Founded
<1>7. a \in Agents /\ c.kind \in Kinds /\ c.age \in Int /\ counted[a][c.kind] \in Int
  BY <1>1, <1>6, CaseAssumption DEF Case, MemoryInv, Old, CaseAssumption
<1>8. Similarity[c.kind][k] >= 80
  <2>1. Similarity[c.kind][k] \in Int
    BY <1>7, SimilarityTyped
  <2>2. QED
    BY <1>1, <2>1 DEF Full, Partial
<1>9. QED
  BY <1>6, <1>7, <1>8, CaseAssumption DEF CaseAssumption

LEMMA AgedGrows ==
  ASSUME CaseAssumption, NEW x \in 0 .. Old, NEW y \in 0 .. Old, x <= y
  PROVE  Aged(x) \in 0 .. Old /\ Aged(x) <= Aged(y)
BY CaseAssumption DEF Aged, Old, CaseAssumption

LEMMA TickKeeps == CaseAssumption /\ MemoryInv /\ Tick => MemoryInv'
<1> SUFFICES ASSUME CaseAssumption, MemoryInv, Tick PROVE MemoryInv'
  OBVIOUS
<1>1. cases \in Seq(Case) /\ Len(cases) \in Nat /\ DOMAIN cases = 1 .. Len(cases)
      /\ \A i \in 1 .. Len(cases) : cases[i] \in Case
  BY DEF MemoryInv
<1>2. cases' = [i \in 1 .. Len(cases) |-> [cases[i] EXCEPT !.age = Aged(@)]]
  BY <1>1 DEF Tick
<1>3. \A i \in 1 .. Len(cases) : cases[i].age \in 0 .. Old
  BY <1>1 DEF Case
<1>4. \A i \in 1 .. Len(cases) :
        /\ cases'[i] \in Case /\ cases'[i].age = Aged(cases[i].age)
        /\ cases'[i].agents = cases[i].agents /\ cases'[i].kind = cases[i].kind
  <2> SUFFICES ASSUME NEW i \in 1 .. Len(cases)
               PROVE  /\ cases'[i] \in Case /\ cases'[i].age = Aged(cases[i].age)
                      /\ cases'[i].agents = cases[i].agents /\ cases'[i].kind = cases[i].kind
    OBVIOUS
  <2>1. Aged(cases[i].age) \in 0 .. Old
    BY <1>3, AgedGrows, CaseAssumption DEF Old, CaseAssumption
  <2>2. cases[i] \in Case /\ cases'[i] = [cases[i] EXCEPT !.age = Aged(cases[i].age)]
    BY <1>1, <1>2
  <2> DEFINE v == Aged(cases[i].age)
  <2> HIDE DEF v
  <2>3. QED
    BY <2>1, <2>2 DEF Case, v
<1>5. cases' \in Seq(Case) /\ Len(cases') = Len(cases)
  <2>1. cases' = [i \in 1 .. Len(cases) |-> cases'[i]]
    BY <1>2
  <2>2. cases' \in [1 .. Len(cases) -> Case]
    BY <1>4, <2>1
  <2>3. QED
    BY <1>1, <2>2
<1>6. OldestFirst(cases')
  <2> SUFFICES ASSUME NEW i \in 1 .. Len(cases), NEW j \in 1 .. Len(cases), i <= j
               PROVE  cases'[j].age <= cases'[i].age
    BY <1>5 DEF OldestFirst
  <2>1. cases[j].age <= cases[i].age
    BY DEF MemoryInv, OldestFirst
  <2>2. Aged(cases[j].age) <= Aged(cases[i].age)
    BY <1>3, <2>1, AgedGrows
  <2>3. QED
    BY <1>4, <2>2
<1>7. counted' = [a \in Agents |-> [k \in Kinds |-> Aged(counted[a][k])]]
      /\ \A a \in Agents, k \in Kinds : counted[a][k] \in 0 .. Old
  BY DEF Tick, MemoryInv
<1>8. counted' \in [Agents -> [Kinds -> 0 .. Old]]
  BY <1>7, AgedGrows, CaseAssumption DEF Old, CaseAssumption
<1>9. Founded(cases)'
  <2> SUFFICES ASSUME NEW i \in 1 .. Len(cases), NEW a \in cases[i].agents
               PROVE  counted'[a][cases[i].kind] <= cases'[i].age
    BY <1>4, <1>5 DEF Founded
  <2>1. a \in Agents /\ cases[i].kind \in Kinds
    BY <1>1 DEF Case
  <2>2. counted[a][cases[i].kind] <= cases[i].age
    BY DEF MemoryInv, Founded
  <2>3. Aged(counted[a][cases[i].kind]) <= Aged(cases[i].age)
    BY <1>3, <1>7, <2>1, <2>2, AgedGrows
  <2>4. QED
    BY <1>4, <1>7, <2>1, <2>3
<1>10. BypassRestsOnAnalysis'
  BY DEF Tick, BypassRestsOnAnalysis
<1>11. QED
  BY <1>5, <1>6, <1>8, <1>9, <1>10 DEF MemoryInv

(* A new case at the end of active ones keeps their order and their ground.    *)
LEMMA EvaluateKeeps ==
  ASSUME CaseAssumption, MemoryInv, NEW e \in Evaluations, Evaluate(e)
  PROVE  MemoryInv'
<1> DEFINE reuse == IF e.ends = "in time" THEN Reuse(e.kind, e.version, e.flagged) ELSE {}
           new == [kind |-> e.kind, version |-> e.version, age |-> 0,
                   agents |-> AgentsUsed(e, reuse)]
           s == Append(ActiveCases, new)
<1>1. e.kind \in Kinds /\ e.version \in Versions /\ e.trusted \subseteq Agents
  BY DEF Evaluations, Trusts
<1>2. Ends(ActiveCases, cases) /\ ActiveCases \in Seq(Case)
  BY ActiveEnds DEF Ends
<1>3. OldestFirst(ActiveCases) /\ Founded(ActiveCases)
  BY <1>2, EndsKeep DEF MemoryInv
<1>4. cases' = Newest(s)
      /\ counted' = [a \in Agents |-> [k \in Kinds |->
           IF k = e.kind /\ a \in Selected(e, reuse) THEN 0 ELSE counted[a][k]]]
      /\ last' = {[kind |-> e.kind, by |-> "agent", triggered |-> Triggered(e, reuse),
                   asked |-> Asked(e, reuse), trusted |-> e.trusted,
                   rests |-> Bypassed(reuse)]}
  BY DEF Evaluate
<1>5. Selected(e, reuse) \subseteq Agents
  BY <1>1 DEF Selected
<1>6. \A a \in Agents, k \in Kinds : counted[a][k] \in 0 .. Old
  BY DEF MemoryInv
<1>7. /\ counted' \in [Agents -> [Kinds -> 0 .. Old]]
      /\ \A a \in Agents, k \in Kinds : counted'[a][k] \in {0, counted[a][k]}
      /\ \A a \in Selected(e, reuse) : counted'[a][e.kind] = 0
  <2> HIDE DEF reuse
  <2>1. 0 \in 0 .. Old
    BY CaseAssumption DEF Old, CaseAssumption
  <2>2. counted' \in [Agents -> [Kinds -> 0 .. Old]]
    <3>1. \A a \in Agents, k \in Kinds :
            (IF k = e.kind /\ a \in Selected(e, reuse) THEN 0 ELSE counted[a][k]) \in 0 .. Old
      BY <1>6, <2>1
    <3>2. QED
      BY <1>4, <3>1
  <2>3. \A a \in Agents, k \in Kinds : counted'[a][k] \in {0, counted[a][k]}
    BY <1>4
  <2>4. \A a \in Selected(e, reuse) : counted'[a][e.kind] = 0
    BY <1>1, <1>4, <1>5
  <2>5. QED
    BY <2>2, <2>3, <2>4
<1> HIDE DEF reuse
<1>8. Ttl \in Nat /\ Old = Ttl + 1
  BY CaseAssumption DEF Old, CaseAssumption
<1>9. new \in Case /\ new.age = 0 /\ new.kind = e.kind /\ new.agents = Selected(e, reuse)
  <2>1. 0 \in 0 .. Old
    BY <1>8
  <2>2. QED
    BY <1>1, <1>5, <2>1 DEF Case, AgentsUsed
<1>10. /\ s \in Seq(Case) /\ Len(s) = Len(ActiveCases) + 1 /\ Len(ActiveCases) \in Nat
       /\ \A i \in 1 .. Len(ActiveCases) : s[i] = ActiveCases[i]
       /\ s[Len(ActiveCases) + 1] = new
  <2> HIDE DEF new
  <2>1. new \in Case
    BY <1>9
  <2>2. QED
    BY <1>2, <2>1, AppendProperties
<1>11. OldestFirst(s)
  <2> HIDE DEF new, s
  <2>1. \A i \in 1 .. Len(ActiveCases) : ActiveCases[i].age >= 0
    <3>1. \A i \in 1 .. Len(ActiveCases) : ActiveCases[i] \in Case
      BY <1>2
    <3>2. \A i \in 1 .. Len(ActiveCases) : ActiveCases[i].age \in 0 .. Old
      BY <3>1 DEF Case
    <3>3. QED
      BY <3>2, CaseAssumption DEF Old, CaseAssumption
  <2>2. SUFFICES ASSUME NEW i \in 1 .. Len(s), NEW j \in 1 .. Len(s), i <= j
                 PROVE  s[j].age <= s[i].age
    BY DEF OldestFirst
  <2>3. CASE j = Len(ActiveCases) + 1 /\ i # j
    <3>1. i \in 1 .. Len(ActiveCases) /\ s[i] = ActiveCases[i] /\ s[j] = new
      BY <1>10, <2>2, <2>3
    <3>2. QED
      BY <1>9, <2>1, <3>1
  <2>4. CASE j # Len(ActiveCases) + 1
    <3>1. i \in 1 .. Len(ActiveCases) /\ j \in 1 .. Len(ActiveCases)
      BY <1>10, <2>2, <2>4
    <3>2. s[i] = ActiveCases[i] /\ s[j] = ActiveCases[j]
      BY <1>10, <3>1
    <3>3. QED
      BY <1>3, <2>2, <3>1, <3>2 DEF OldestFirst
  <2>5. CASE i = j /\ j = Len(ActiveCases) + 1
    <3>1. s[j] = s[i] /\ s[i].age = 0
      BY <1>9, <1>10, <2>5
    <3>2. QED
      BY <3>1
  <2>6. QED
    BY <2>3, <2>4, <2>5
<1>12. \A i \in 1 .. Len(s) : \A a \in s[i].agents : counted'[a][s[i].kind] <= s[i].age
  <2> SUFFICES ASSUME NEW i \in 1 .. Len(s), NEW a \in s[i].agents
               PROVE  counted'[a][s[i].kind] <= s[i].age
    OBVIOUS
  <2> HIDE DEF new, s
  <2>1. CASE i = Len(ActiveCases) + 1
    <3>1. s[i] = new /\ a \in Selected(e, reuse)
      BY <1>9, <1>10, <2>1
    <3>2. counted'[a][e.kind] = 0
      BY <1>7, <3>1
    <3>3. s[i].kind = e.kind /\ s[i].age = 0
      BY <1>9, <3>1
    <3>4. QED
      BY <3>2, <3>3
  <2>2. CASE i # Len(ActiveCases) + 1
    <3>1. i \in 1 .. Len(ActiveCases) /\ s[i] = ActiveCases[i] /\ s[i] \in Case
      BY <1>2, <1>10, <2>2
    <3>2. a \in Agents /\ s[i].kind \in Kinds /\ s[i].age \in 0 .. Old
      BY <3>1 DEF Case
    <3>3. counted[a][s[i].kind] <= s[i].age
      BY <1>3, <3>1 DEF Founded
    <3>4. counted'[a][s[i].kind] \in {0, counted[a][s[i].kind]}
      BY <1>7, <3>2
    <3>5. QED
      BY <1>8, <3>2, <3>3, <3>4
  <2>3. QED
    BY <2>1, <2>2
<1>13. cases' \in Seq(Case) /\ OldestFirst(cases') /\ Founded(cases)'
  <2> HIDE DEF s
  <2>1. Ends(cases', s)
    BY <1>4, <1>10, NewestEnds
  <2>2. PICK d \in Nat :
                /\ Len(cases') + d = Len(s)
                /\ \A i \in 1 .. Len(cases') : cases'[i] = s[i + d]
    BY <2>1 DEF Ends
  <2>3. cases' \in Seq(Case) /\ Len(cases') \in Nat /\ Len(s) \in Nat
    <3>1. cases' \in Seq(Case)
      BY <2>1 DEF Ends
    <3>2. QED
      BY <1>10, <3>1, LenProperties
  <2>4. \A i \in 1 .. Len(cases') : i + d \in 1 .. Len(s)
    BY <2>2, <2>3
  <2>5. OldestFirst(cases')
    BY <1>11, <2>2, <2>3, <2>4 DEF OldestFirst
  <2>6. \A i \in 1 .. Len(cases') : \A a \in cases'[i].agents :
         counted'[a][cases'[i].kind] <= cases'[i].age
    BY <1>12, <2>2, <2>4
  <2>7. QED
    BY <2>3, <2>5, <2>6 DEF Founded
<1>14. BypassRestsOnAnalysis'
  <2>1. SUFFICES ASSUME NEW a \in Bypassed(reuse)
                 PROVE  \E k \in Kinds : Similarity[k][e.kind] >= 80 /\ counted'[a][k] <= Ttl
    <3>1. PICK r : /\ last' = {r}
                   /\ r = [kind |-> e.kind, by |-> "agent", triggered |-> Triggered(e, reuse),
                           asked |-> Asked(e, reuse), trusted |-> e.trusted,
                           rests |-> Bypassed(reuse)]
      BY <1>4
    <3>2. r.kind = e.kind /\ r.rests = Bypassed(reuse)
      BY <3>1
    <3>3. QED
      BY <2>1, <3>1, <3>2 DEF BypassRestsOnAnalysis
  <2>2. CASE e.ends # "in time"
    BY <2>2 DEF Bypassed, reuse
  <2>3. CASE e.ends = "in time"
    <3>1. a \in Bypassed(Reuse(e.kind, e.version, e.flagged))
      BY <2>3 DEF reuse
    <3>2. PICK k \in Kinds : Similarity[k][e.kind] >= 80 /\ a \in Agents /\ counted[a][k] <= Ttl
      BY <1>1, <3>1, BypassedIsFounded
    <3>3. counted'[a][k] \in {0, counted[a][k]}
      BY <1>7, <3>2
    <3>4. counted'[a][k] <= Ttl
      BY <1>8, <3>2, <3>3
    <3>5. QED
      BY <3>2, <3>4
  <2>4. QED
    BY <2>2, <2>3
<1>15. QED
  BY <1>7, <1>13, <1>14 DEF MemoryInv

(* What the orchestrator assesses rests on no case.                            *)
LEMMA AssessedKeeps ==
  ASSUME MemoryInv, NEW by, NEW reasons, NEW trusted, Assessed(by, reasons, trusted)
  PROVE  MemoryInv'
<1>1. cases' = cases /\ counted' = counted
  BY DEF Assessed
<1>2. BypassRestsOnAnalysis'
  BY DEF Assessed, BypassRestsOnAnalysis
<1>3. QED
  BY <1>1, <1>2 DEF MemoryInv, Founded, OldestFirst

(* An agent a reuse bypasses was itself selected for a like event no longer     *)
(* than a case's life ago, for any team, kinds of events, size of the memory    *)
(* and time to live (decide's agents_to_bypass, remember_case).                 *)
THEOREM ReuseRestsOnAnalysis == MemorySpec => []BypassRestsOnAnalysis
<1>1. MemoryInit => MemoryInv
  <2> SUFFICES ASSUME MemoryInit PROVE MemoryInv
    OBVIOUS
  <2>1. cases = <<>> /\ last = {} /\ Len(cases) = 0 /\ cases \in Seq(Case)
    BY DEF MemoryInit
  <2>2. counted \in [Agents -> [Kinds -> 0 .. Old]]
    BY CaseAssumption DEF MemoryInit, Old, CaseAssumption
  <2>3. QED
    BY <2>1, <2>2 DEF MemoryInv, OldestFirst, Founded, BypassRestsOnAnalysis
<1>2. MemoryInv /\ [MemoryNext]_memoryVars => MemoryInv'
  <2> SUFFICES ASSUME MemoryInv, [MemoryNext]_memoryVars PROVE MemoryInv'
    OBVIOUS
  <2>1. CASE Tick
    BY <2>1, TickKeeps, CaseAssumption
  <2>2. CASE \E e \in Evaluations : Evaluate(e)
    BY <2>2, EvaluateKeeps, CaseAssumption
  <2>3. CASE \E e \in Assessments : AssessMetaDecision(e)
    BY <2>3, AssessedKeeps DEF AssessMetaDecision
  <2>4. CASE \E i \in Intents : Decision(i.level, i.actions)
    BY <2>4, AssessedKeeps DEF Decision
  <2>5. CASE UNCHANGED memoryVars
    BY <2>5 DEF memoryVars, MemoryInv, OldestFirst, Founded, BypassRestsOnAnalysis
  <2>6. QED
    BY <2>1, <2>2, <2>3, <2>4, <2>5 DEF MemoryNext
<1>3. MemoryInv => BypassRestsOnAnalysis
  BY DEF MemoryInv
<1>4. QED
  BY <1>1, <1>2, <1>3, PTL DEF MemorySpec

(* A deep analysis that is triggered is asked of somebody, whatever the trust   *)
(* of the agents and the cases remembered, and an intent that needs approval    *)
(* always has one asked (evaluate, _assess_meta_decision, decision).            *)
THEOREM DeepAnalysisHasSomebody == MemorySpec => []DeepAnalysisIsAsked
<1>1. MemoryInit => DeepAnalysisIsAsked
  BY DEF MemoryInit, DeepAnalysisIsAsked
<1>2. DeepAnalysisIsAsked /\ [MemoryNext]_memoryVars => DeepAnalysisIsAsked'
  <2> SUFFICES ASSUME DeepAnalysisIsAsked, [MemoryNext]_memoryVars PROVE DeepAnalysisIsAsked'
    OBVIOUS
  <2>1. CASE Tick
    BY <2>1 DEF Tick, DeepAnalysisIsAsked
  <2>2. ASSUME NEW e \in Evaluations, Evaluate(e) PROVE DeepAnalysisIsAsked'
    <3> DEFINE reuse == IF e.ends = "in time" THEN Reuse(e.kind, e.version, e.flagged) ELSE {}
    <3>1. last' = {[kind |-> e.kind, by |-> "agent", triggered |-> Triggered(e, reuse),
                    asked |-> Asked(e, reuse), trusted |-> e.trusted,
                    rests |-> Bypassed(reuse)]}
      BY <2>2 DEF Evaluate
    <3> HIDE DEF reuse
    <3>2. Triggered(e, reuse) => Asked(e, reuse) # {}
      <4>1. Agents # {}
        BY CaseAssumption DEF CaseAssumption
      <4>2. QED
        BY <4>1 DEF Asked
    <3>3. Triggered(e, reuse) =>
            Asked(e, reuse) = Agents \/ Asked(e, reuse) \cap Bypassed(reuse) = {}
      BY DEF Asked, Selected, Triggered
    <3>4. PICK r : /\ last' = {r}
                   /\ r = [kind |-> e.kind, by |-> "agent", triggered |-> Triggered(e, reuse),
                           asked |-> Asked(e, reuse), trusted |-> e.trusted,
                           rests |-> Bypassed(reuse)]
      BY <3>1
    <3>5. /\ r.by = "agent" /\ r.triggered = Triggered(e, reuse)
          /\ r.asked = Asked(e, reuse) /\ r.rests = Bypassed(reuse)
      BY <3>4
    <3>6. "agent" # "risky intent"
      OBVIOUS
    <3>7. QED
      BY <3>2, <3>3, <3>4, <3>5, <3>6 DEF DeepAnalysisIsAsked
  <2>3. ASSUME NEW by, NEW reasons, NEW trusted, Assessed(by, reasons, trusted),
               by = "orchestrator" \/ trusted # {},
               by = "risky intent" => reasons # {} /\ trusted # {}, by # "agent"
        PROVE  DeepAnalysisIsAsked'
    <3>1. PICK r : /\ last' = {r}
                   /\ r = [by |-> by, triggered |-> reasons # {}, trusted |-> trusted, rests |-> {},
                           asked |-> IF reasons # {} THEN trusted ELSE {}]
      BY <2>3 DEF Assessed
    <3>2. /\ r.by = by /\ r.triggered = (reasons # {}) /\ r.trusted = trusted
          /\ r.asked = IF reasons # {} THEN trusted ELSE {}
      BY <3>1
    <3>3. QED
      BY <2>3, <3>1, <3>2 DEF DeepAnalysisIsAsked
  <2>4. CASE \E e \in Assessments : AssessMetaDecision(e)
    BY <2>3, <2>4 DEF AssessMetaDecision
  <2>5. ASSUME NEW i \in Intents, Decision(i.level, i.actions) PROVE DeepAnalysisIsAsked'
    <3> DEFINE reasons == Reasons(FALSE, FALSE, IntentNovelty(i.level),
                                  IntentCriticality(i.level, i.actions))
    <3>1. NeedsApproval(i.level) => "high_novelty" \in reasons
      <4>1. i.level \in 0 .. 5
        BY CaseAssumption DEF CaseAssumption
      <4>2. i.level >= 4 => IntentNovelty(i.level) >= 70
        BY <4>1 DEF IntentNovelty
      <4>3. QED
        BY <4>2 DEF Reasons, NeedsApproval
    <3>2. QED
      BY <2>3, <2>5, <3>1 DEF Decision
  <2>6. CASE UNCHANGED memoryVars
    BY <2>6 DEF memoryVars, DeepAnalysisIsAsked
  <2>7. QED
    BY <2>1, <2>2, <2>4, <2>5, <2>6 DEF MemoryNext
<1>3. QED
  BY <1>1, <1>2, PTL DEF MemorySpec
=============================================================================
