--------------------------- MODULE LearningRound ----------------------------
(***************************************************************************)
(* The learning round of cortex-sentinel-machine and the model registry of *)
(* cortex-orchestrator.  The main loop, and the gRPC pool when peers push  *)
(* events, run process_raw_event: observe, judge, train a shadow, sign it, *)
(* weigh it, adopt it.  shadow and champion are attributes of the one      *)
(* service, without a lock: a thread may be switched wherever the method   *)
(* calls Python code, and those places split its steps.  The command       *)
(* thread posts the shadow as it is to the orchestrator.                   *)
(*                                                                         *)
(* Of an event the round reads what the guard judges, its risk score and   *)
(* the two drift detectors.  Nothing of the service survives a restart.    *)
(***************************************************************************)
EXTENDS Integers, FiniteSets

CONSTANTS Pools,        \* the sets of threads a deployment may run the pipeline on
          Main,         \* the thread of the main loop, which ends the process when it raises
          Colab,        \* the model a Colab run proposes
          Updates,      \* the updates judged, as the guard sees them
          Events,       \* the events weighed, as the round sees them
          MinSupport,   \* observations a training needs
          Patience,     \* clean rounds a promotion needs
          MaxModels,    \* bound: the models trained
          MaxPosts      \* bound: the posts under way

Workers == UNION Pools
Models == 1 .. MaxModels
NoModel == 0
Unreported == -1
Risks == {"low", "near", "high"}   \* of an accepted event: up to 0.7, below 0.8, the rest
Gains == 0 .. 2                    \* max(0, 0.8 - risk): none, below 0.1, the rest

ASSUME RoundAssumption ==
  /\ Main \in Workers /\ MinSupport \in Nat \ {0} /\ Patience \in Nat \ {0}
  /\ Updates \subseteq [tampered : BOOLEAN, degraded : BOOLEAN, outside : BOOLEAN]
  /\ Events \subseteq [risk : Risks, distribution : BOOLEAN, score : BOOLEAN]
  /\ MaxModels \in Nat /\ MaxPosts \in Nat /\ Colab \notin Int

VARIABLES pool,        \* the threads that run the pipeline in this deployment
          observed,    \* observations in the memory, counted up to MinSupport
          worker,      \* worker[w]: where the thread is in process_raw_event, and its locals
          shadow, champion,
          model,       \* model[i]: the snapshots trained, which the threads share
          trained,     \* their number
          rounds,      \* _stable_rounds of the promotion manager
          posts,       \* candidates posted to the orchestrator and not yet handled
          registry,    \* registry[i]: the set holding the entry of model i, or {}
          clean,       \* history: clean verdicts since the last refusal
          adopted      \* history: the models that were ever champion

service == <<observed, worker, shadow, champion, model, trained, rounds, clean, adopted>>
vars == <<pool, service, posts, registry>>

\* A thread before a step, with the model it carries along, if any; before the verdict it
\* carries what it weighs, before the adoption the clean verdicts it rests on.
Thread(step, id, gain, drift, proof) ==
  [at |-> step, id |-> id, gain |-> gain, drift |-> drift, disturbed |-> FALSE, proof |-> proof]
Before(step, id) == Thread(step, id, 0, FALSE, 0)
Weighing(gain, drift) == Thread("weigh", NoModel, gain, drift, 0)
Approved(proof) == Thread("adopt", NoModel, 0, FALSE, proof)
Idle == Before("idle", NoModel)

\* manifest: the model whose body the manifest signs, or NoModel for an empty one.
Blank == [parent |-> NoModel, manifest |-> NoModel, report |-> Unreported]

Init ==
  /\ pool \in Pools
  /\ observed = 0 /\ trained = 0 /\ rounds = 0 /\ clean = 0
  /\ worker = [w \in Workers |-> Idle]
  /\ shadow = NoModel /\ champion = NoModel /\ adopted = {}
  /\ model = [i \in Models |-> Blank]
  /\ posts = {}
  /\ registry = [i \in Models \cup {Colab} |-> {}]

-----------------------------------------------------------------------------
\* process_raw_event, for thread w.
\* The guard quarantines what a tampered machine or a degraded reference sent; nonces are
\* fresh, labels consistent and the suspicion low, as the service fills them in, and
\* missing corroboration only lowers a confidence.
Quarantined(u) == u.tampered \/ u.degraded
Accepted(u) == ~Quarantined(u) /\ ~u.outside

\* The trainer observes the event before the guard judges it; the append disturbs the
\* threads that iterate over the memory.
Observe(w) ==
  /\ worker[w].at = "idle"
  /\ observed' = IF observed < MinSupport THEN observed + 1 ELSE observed
  /\ \E u \in Updates :
       worker' = [v \in Workers |->
         CASE v = w -> IF Accepted(u) /\ observed' = MinSupport /\ trained < MaxModels
                       THEN Before("train", NoModel) ELSE Idle
           [] v # w /\ worker[v].at = "average" -> [worker[v] EXCEPT !.disturbed = TRUE]
           [] OTHER -> worker[v]]
  /\ UNCHANGED <<shadow, champion, model, trained, rounds, clean, adopted>>

\* train_shadow is called with the champion of the moment and averages the memory.
Train(w) ==
  /\ worker[w].at = "train"
  /\ worker' = [worker EXCEPT ![w] = Before("average", champion)]
  /\ UNCHANGED <<observed, shadow, champion, model, trained, rounds, clean, adopted>>

\* Mutant: the new snapshot points back to the shadow it replaces.
BlankOnShadow(w) == [Blank EXCEPT !.parent = shadow]
Snapshot(w) == [Blank EXCEPT !.parent = worker[w].id]

Trained(w) ==
  /\ worker[w].at = "average" /\ trained < MaxModels
  /\ trained' = trained + 1
  /\ shadow' = trained'
  /\ model' = [model EXCEPT ![trained'] = Snapshot(w)]
  /\ worker' = [worker EXCEPT ![w] = Before("sign", NoModel)]
  /\ UNCHANGED <<observed, champion, rounds, clean, adopted>>

\* All the process knows is gone.
Forget ==
  /\ observed' = 0 /\ rounds' = 0 /\ clean' = 0
  /\ shadow' = NoModel /\ champion' = NoModel
  /\ worker' = [w \in Workers |-> Idle]
  /\ UNCHANGED <<model, trained, adopted>>

\* The deque changed while it was iterated over: the call raises, which a gRPC thread
\* answers with an error and the main loop does not survive.
TrainRaises(w) ==
  /\ worker[w].at = "average" /\ worker[w].disturbed
  /\ IF w = Main THEN Forget
     ELSE /\ worker' = [worker EXCEPT ![w] = Idle]
          /\ UNCHANGED <<observed, shadow, champion, model, trained, rounds, clean, adopted>>

\* The manifest is made for the shadow of the moment ...
Sign(w) ==
  /\ worker[w].at = "sign"
  /\ worker' = [worker EXCEPT ![w] = Before("stamp", shadow)]
  /\ UNCHANGED <<observed, shadow, champion, model, trained, rounds, clean, adopted>>

\* ... and stored in the shadow of a later one, whose report is made next.
Stamp(w) ==
  /\ worker[w].at = "stamp"
  /\ model' = [model EXCEPT ![shadow] = [@ EXCEPT !.manifest = worker[w].id]]
  /\ worker' = [worker EXCEPT ![w] = Before("report", NoModel)]
  /\ UNCHANGED <<observed, shadow, champion, trained, rounds, clean, adopted>>

Gain(e) == CASE e.risk = "low" -> 2 [] e.risk = "near" -> 1 [] OTHER -> 0

\* Both windows, of the feature mean and of the score, must have moved.
HardDrift(e) == e.distribution /\ e.score

\* What is left of the event is chosen here, where it is first used.
Report(w) ==
  /\ worker[w].at = "report"
  /\ \E e \in Events :
       /\ model' = [model EXCEPT ![shadow] = [@ EXCEPT !.report = Gain(e)]]
       /\ worker' = [worker EXCEPT ![w] = Weighing(Gain(e), HardDrift(e))]
  /\ UNCHANGED <<observed, shadow, champion, trained, rounds, clean, adopted>>

\* Mutant: the gain is not asked for.
RefusedOnDrift(w) == worker[w].drift

\* The manager refuses under hard drift or without a gain; signed_approval is always
\* given, the memory is never empty here, and a quarantined event never comes here.
Refused(w) == worker[w].drift \/ worker[w].gain <= 0

\* Mutant: a refusal does not start the count again.
CountOn(w) == IF Refused(w) THEN rounds ELSE IF rounds < Patience THEN rounds + 1 ELSE rounds
StableRounds(w) == IF Refused(w) THEN 0 ELSE IF rounds < Patience THEN rounds + 1 ELSE rounds

\* A promotion leaves the count as it is, so that the next clean challenger follows at
\* once.  rounds and clean are counted up to Patience.
Weigh(w) ==
  /\ worker[w].at = "weigh"
  /\ rounds' = StableRounds(w)
  /\ clean' = IF Refused(w) THEN 0 ELSE IF clean < Patience THEN clean + 1 ELSE clean
  /\ worker' = [worker EXCEPT ![w] =
       IF Refused(w) \/ rounds' < Patience THEN Idle
       ELSE Approved(clean')]
  /\ UNCHANGED <<observed, shadow, champion, model, trained, adopted>>

Adopt(w) ==
  /\ worker[w].at = "adopt"
  /\ champion' = shadow
  /\ adopted' = adopted \cup {shadow}
  /\ worker' = [worker EXCEPT ![w] = Idle]
  /\ UNCHANGED <<observed, shadow, model, trained, rounds, clean>>

ProcessRawEvent(w) ==
  Observe(w) \/ Train(w) \/ Trained(w) \/ TrainRaises(w) \/ Sign(w) \/ Stamp(w)
    \/ Report(w) \/ Weigh(w) \/ Adopt(w)

-----------------------------------------------------------------------------
\* Between the service and the orchestrator.
\* reviewed is a history: no person looks at what a machine posts.
Payload(i) == [id |-> i, manifest |-> model[i].manifest, report |-> model[i].report,
               rollback |-> model[i].parent, reviewed |-> FALSE]

\* Command sync_shadow, or sync_outcome: the shadow is posted as it is.  A command whose
\* post raises is delivered and posted again.
SyncShadow ==
  /\ shadow # NoModel /\ Cardinality(posts) < MaxPosts
  /\ posts' = posts \cup {Payload(shadow)}
  /\ UNCHANGED <<pool, service, registry>>

\* Mutant: the manifest is not verified.
AnyManifest(p) == TRUE
VerifyManifest(p) == p.manifest # NoModel

Mode(report) == CASE report <= 0 -> "shadow" [] report = 1 -> "canary" [] OTHER -> "promote"

\* A candidate with a verified manifest replaces the entry of its model; that the
\* manifest is the one of this model is not looked at.
EvaluateCandidate(p) ==
  registry' = IF VerifyManifest(p)
              THEN [registry EXCEPT ![p.id] =
                     {[mode |-> Mode(p.report), rollback |-> p.rollback,
                       manifest |-> p.manifest, reviewed |-> p.reviewed]}]
              ELSE registry

\* The posts of a service that gave up waiting may be handled after later ones.
PromoteModel(p) ==
  /\ p \in posts
  /\ EvaluateCandidate(p)
  /\ posts' = posts \ {p}
  /\ UNCHANGED <<pool, service>>

PostLost(p) ==
  /\ p \in posts
  /\ posts' = posts \ {p}
  /\ UNCHANGED <<pool, service, registry>>

\* The gates of a Colab run; the review is asked for a candidate, without which a run
\* changes nothing.  Of the report the run claims one value is tried.
Gates == [verified : BOOLEAN, novelty : BOOLEAN, known : BOOLEAN, offensive : BOOLEAN,
          humanReviewed : BOOLEAN]

PassesGates(v) == v.verified /\ v.novelty /\ v.known /\ v.offensive /\ v.humanReviewed

IngestColab ==
  /\ \E v \in Gates, signed \in {NoModel, Colab} :
       /\ PassesGates(v)
       /\ EvaluateCandidate([id |-> Colab, manifest |-> signed, report |-> 2,
                             rollback |-> NoModel, reviewed |-> v.humanReviewed])
  /\ UNCHANGED <<pool, service, posts>>

Restart ==
  /\ Forget
  /\ UNCHANGED <<pool, posts, registry>>

\* The registry is a dictionary in the memory of the orchestrator.
OrchestratorRestart ==
  /\ registry' = [i \in Models \cup {Colab} |-> {}]
  /\ UNCHANGED <<pool, service, posts>>

Next ==
  \/ \E w \in pool : ProcessRawEvent(w) /\ UNCHANGED <<pool, posts, registry>>
  \/ SyncShadow \/ IngestColab \/ Restart \/ OrchestratorRestart
  \/ \E p \in posts : PromoteModel(p) \/ PostLost(p)

Spec == Init /\ [][Next]_vars

-----------------------------------------------------------------------------
\* Where no peer pushes events, the pipeline runs on the main loop alone.
Alone == pool = {Main}

Reports == {Unreported} \cup Gains
Snapshots == [parent : {NoModel} \cup Models, manifest : {NoModel} \cup Models, report : Reports]
Places == {"idle", "train", "average", "sign", "stamp", "report", "weigh", "adopt"}

\* The types: the state of the threads, the shared snapshots, the posts and the registry
\* (process_raw_event, _evaluate_candidate).
TypeOK ==
  /\ pool \in Pools /\ observed \in 0 .. MinSupport
  /\ trained \in 0 .. MaxModels /\ rounds \in 0 .. Patience /\ clean \in 0 .. Patience
  /\ worker \in [Workers -> [at : Places, gain : Gains, drift : BOOLEAN,
                  id : {NoModel} \cup Models, disturbed : BOOLEAN, proof : 0 .. Patience]]
  /\ shadow \in 0 .. trained /\ champion \in 0 .. trained /\ adopted \subseteq 1 .. trained
  /\ model \in [Models -> Snapshots]
  /\ \A p \in posts : p.id \in Models /\ p.report \in Reports
  /\ \A i \in Models \cup {Colab} : \A e \in registry[i] :
       e.mode \in {"shadow", "canary", "promote"} /\ e.rollback \in {NoModel} \cup Models

\* Without gRPC traffic the champion is a model that carries its own manifest and a
\* report of a gain: what is adopted is what was trained, signed and weighed, although
\* each step reads self.shadow again.
ChampionIsVouched ==
  Alone /\ champion # NoModel =>
    model[champion].manifest = champion /\ model[champion].report > 0

\* A promotion is approved only after Patience challengers in a row were weighed without
\* a refusal in between, whichever threads weighed them and whenever the process was
\* started again (PromotionManager.evaluate).
PromotionIsPatient == \A w \in Workers : worker[w].at = "adopt" => worker[w].proof = Patience

\* A rollback pointer, of a snapshot, a post or an entry of the registry, names a model
\* that was once the champion, whatever the threads do to the shadow meanwhile and
\* however late the post is handled (train_shadow, build_model_candidate_payload).
RollbackWasChampion ==
  LET pointers == {model[i].parent : i \in Models} \cup {p.rollback : p \in posts}
                    \cup UNION {{e.rollback : e \in registry[i]} : i \in Models}
  IN  pointers \ {NoModel} \subseteq adopted

\* The registry holds no model without a verified manifest, although the shadow is posted
\* between its training and its signature; without gRPC traffic the manifest is the
\* model's own and a mode above shadow follows from its own report; a candidate of Colab
\* passed a review.
RegistryIsVouched ==
  /\ \A i \in Models : \A e \in registry[i] :
       /\ e.manifest # NoModel
       /\ Alone => e.manifest = i /\ (e.mode # "shadow" => e.mode = Mode(model[i].report))
  /\ \A e \in registry[Colab] : e.reviewed
=============================================================================
