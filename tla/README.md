# Verification of Cortex

TLA+ models of the parts of Cortex in which processes, messages, rows and files
interact, the TLC runs that check them on small instances, and theorems about them
that TLAPS proves for every value of the constants. `PROJECT.json` is the index: the
components, the runs, the code line every definition stands for, the hazards and the
theorems. Paths below are relative to the repository.

```
tlc -config WalQueue.cfg MCWalQueue.tla     # one run: PROJECT.json names module and cfg
tlapm WalQueueProofs.tla                    # the proofs of one module
```

## 1. Inventory

Cortex watches hosts and directory accounts, scores them, and contains the ones that
look compromised. Its services talk over NATS (subjects `cortex.*`, partly held by the
JetStream stream CORTEX_EVENTS) and HTTP.

| Component | State it keeps | Operations | What is hard |
|---|---|---|---|
| **cortex-approval** | a row, or a record, per request: tally, status, resolved_at | create, read, list, approve, reject; expiry on read | coroutines suspended between SELECT and upsert; no version check; deadlines; statements that fail after they were applied |
| **sentinel-machine transport** (`app/transport`) | the encrypted WAL file; the NATS connection | append, read_all, mark_sent, rewrite; emit, flush; publish with 1.2 s timeout | threads with no lock over one file; kills inside a rewrite; a connection that never reopens; answers that are dropped |
| **cortex-sentinel** | isolation state, SOT, score, iptables rules | polling cycle; commands | two coroutines interleave at every publish; an action chosen before a suspension, done after; refused transitions and failed iptables commands nobody notices; messages that go out twice |
| **cortex-mcp-server**, tools | open tool calls | dispatch a tool as an agent task and wait for its result | results matched by an id the caller may choose; timeouts racing late answers; the policy gate |
| **cortex-mcp-server**, completions | the contexts of sessions; batches under way | route a completion to a model, with a fallback; remember the turns; run a batch | handlers that share one context object over awaits; expiries; models that raise; a semaphore |
| **cortex-agents** (ad, decision, remediation) | the task in hand; BloodHound token, LDAP session, drift baseline | one task at a time; nested tool calls; memberships, restores, drift scans | redelivery during the work; crash before the acknowledgement; a stream not reached at start; a graph collected earlier, a directory changed meanwhile |
| **cortex-policy-engine**, **cortex-core** | none | `evaluate`; state machine; maturity registry | order of early returns; two versions of the transition table |
| **cortex-trust-engine**, **cortex-edge-inference** | profiles, SOT records (in memory); settings | evaluate; SOT issue, expire, revoke; audited sessions of the edge | reads before and writes after an await; stale copies; fail-closed settings; acknowledgement in `finally` |
| **cortex-audit** | a row, or a list entry, per event | write, list, find | rows that come in another order than their stamps; statements that fail after they were applied |
| **cortex-campaign-memory**, **-priority-engine**, **-insider-decay**, **-admin-anomaly** | weak signals of ninety days with three indexes; histories of identities and of administrators | ingest, evaluate | late and future signals over four windows; pruning; capped sums compared with a bar in another service |
| **sentinel-machine learning**, **cortex-orchestrator** registry | champion and shadow, stable rounds; registry entries | observe, guard, train, sign, weigh, adopt; post and register | threads that share the shadow; counters that outlive what they count; posts late or lost |
| **meta decision package** (`cortex/meta_decision`) | case memory, agent trust | calibrate, reuse an analysis, remember | chains of reuse; results remembered though degraded |
| **cortex-obs-agent** | feed (200), signal window (50), health map, loops | consumers, anomaly and SOT watchers, health round, daily scan | loops that end unnoticed; windows at their caps; redelivery |
| **auth, gateway, sync** (Go), **console** | keys, tokens, sessions; jobs; event queues; none | issue, expire; queue a job; enqueue an event; join eight sources in a dashboard | restarts; statements that fail after they were applied; answers of different moments |
| vllm, graph, nats-bridge | none | answer one request | little |
| learning package, labs, installers, Helm, Terraform | - | training scripts, deployment | not a protocol |

How they interact. Sentinel scores its host and publishes on `cortex.obs.stream`,
`cortex.trust.updates` and, when it contains, a task on `cortex.agents.tasks.remediation`.
The trust engine consumes the updates and publishes `prepare_issue_sot` tasks; the
observer publishes analyses and drift scans. An agent takes a task, calls tools of the
MCP server over HTTP, which asks the policy engine and publishes another task for the
agent that owns the tool. Plans that need people go to cortex-approval. The
sentinel-machine process on each host keeps a WAL of what it has to tell and drains it
to NATS, and posts the models it trains to the orchestrator. The console asks all of them.

What makes each of the central parts correct:
approval - an approval needs its quorum, a decision is final and falls in time;
WAL - one thread loses nothing put in, and nothing is marked sent that was not, until a
connection is lost;
Sentinel - state and SOT agree, an SOT is made once, heavy actions are corroborated and
uncontested;
task protocol - an answer belongs to its question, no durable task is dropped, what policy
answers is obeyed;
trust - a SOT rests on evidence, an SOT that is over stays over, what is announced is
watched, unaudited evidence is not judged;
learning - what is promoted was signed, weighed and patient, and can be rolled back;
meta decision - an analysis spared was made, and recently; one that is due is asked for;
directory - no membership added opens a path to tier zero over what BloodHound knew, a scan
counts every lasting addition of a group it could read;
completions - a conversation keeps its turns in pairs, one failing model fails nobody;
advisors - what was told counts in every window, slow accumulation is not missed, one deviation
alone accuses nobody;
control room - what was answered is held, what is shown was so.

The hazards, each at its line with the properties that watch it, are in `PROJECT.json`.

## 2. Modules

`MC*` modules and the `.cfg` of the same name give the constants of an instance; `*Proofs`
hold the theorems (section 4). One step is always the code from one suspension (an `await`,
a lock, a file operation, a thread switch) to the next; the time inside a stretch of code
without suspensions is taken as zero. "Ghost" and "history" variables only observe.

### cortex-approval

`ApprovalRecord` is the record and the pure steps of the handlers (expiry, one approval, one
rejection). `ApprovalStore` is the service with DATABASE_URL: `row` is the table, `task[t]` a
handler, what it will upsert and where it is suspended. `RequestApproval`, `FetchRecord`
and `FetchList` run up to the first statement; `Refresh*` are the upserts
`get_record_or_404` and `list_records` do even when they only came to read; `Save` is the
last `persist`. `StatementFails` has both outcomes (applied or not). The history variables
`votes` and `acked` count the approve calls that passed the 409 check and those answered 200.
`ApprovalLocal` is the service without rows, where a handler is one step, and implements
`ApprovalLedger`, the abstract promise: opened, approved by quorum or closed, never reopened.
`ApprovalService` is the service as it is started: `database` is whether there is a pool
(`db_pool`), and chooses which of the two runs.

### sentinel-machine transport

`WalQueue` is the file, its threads and the bus. A step is one file operation: the append;
`read_all` with the change; the truncation of `open("wb")`; each part of the buffered write
that reaches the file, with the offset of its own handle, so that two rewrites overwrite and
tear each other's lines as they do on disk. `Torn` is a line that does not decrypt.
`PublishReturnsTrue`, `PublishIgnored` and `PublishFails` are what `publish()` can answer:
`PublishIgnored` is the closed connection whose `False` it drops. `taken`, what was handed to an
open connection, and `wasClosed`, that a connection was lost, are history. `Outbox` is the
abstract promise: put once, kept, marked sent at most once and never unmarked; it does not say
who took what is marked.

### cortex-sentinel

`IsolationState` holds both transition tables (`Packaged` chooses: the image is built
without `cortex_core` and falls back on its own copy). `SentinelEngine` has the coroutine
of the polling cycle (`Collect`, `Assess`, `Act*`, `Told`, `CycleRaises`), the coroutine of
the commands, and `Restart`. The score is the band it is compared with. `LocalIsolation` closes
the chains or fails, each time anew, and nobody looks. SOTs are numbered in the order they are
made: `announced` holds the numbers of those a message of which went out, so that the second
message of the fallback in `_publish`, or one that went out although the publish raised
(`MessageOut` in `CycleRaises`), counts as what it is, the same SOT again.

### Tasks, tools and policy

`PolicyEngine` is `evaluate` with every early return in order, over the envelopes of
`cortex_core` (`Envelopes`, `DependencySnapshots`); `AgentTasks` calls it with what the executor passes,
`Completions` with what a forced model passes. `AgentTasks` has the
subjects (`stored` for what a stream holds, `queue` for what was delivered, `consumer` for
whether the agent reached the stream when it started or fell back on plain NATS), the agents
(`agent[s]`: the handler's task and the tool calls left), and the open calls of the MCP
server (`call[c]`). `Plan` is which tools a task type calls; `Blocked` is the gate
of `execute_tool`; `Matches` is the test that tells results apart; `Reply`, `Acknowledge`,
`HandlerRaises`, `Crash`, `CallFails` are the ways a handler goes on or ends. `OperatorCalls` is
a caller outside the agents, which may give its question a name of its own (`NameOf`), as the
orchestrator does with the `request_id` of its client, and ask again under it. A task
type stands for all types with the same tool calls.

### cortex-mcp-server: completions

`Completions` is `POST /mcp/complete`. `job[c]` is the request of a client, suspended while
phi3 classifies its task (`Classified`), while the first or the second model is asked
(`Answers`, `Raises`), or in a batch (`BatchVetted`, `ItemStarts`, `ItemProceeds`, `BatchEnds`).
Contexts are numbered objects: `store[s]` is the one the session store names, and a job holds
the one it loaded, so that two requests of one session work on one object or on two as in
the code. `Route`, `Forced` and `Fallback` are the tables of the router; `InputPasses` and
`OutputPasses` the filters. `panel` is the decision agent's handler with the completions of
its analysis and its committee.

### The directory

`Directory` is the AD agent with BloodHound guard, LDAP client, verifier, Kerberos checks and
drift detector. `member` and `bin` are the directory, `graph` what BloodHound last
collected, `agent[a]` the handler of a copy of the agent: `Begins` is the dispatch with its
early refusals, `AskTierZero`, `AskPath`, `Conclude` the guard's HTTP requests one at a time,
`WriteMember`, `Verify`, `RestoreObject` the writes, `TakeSnapshot`, `Inspect`, `Compare` the
scan. Every search of a bound client may end without raising and find less than there is
(`Found`, `missed`), and the answer of a scan lists the first `ReportLimit` drifts in the order
the code finds them (`Listed`). Two copies exist during a rolling update, and each handles every
task, because the subject is in no stream. The graph starts as any part of the directory and
lags from then on. `ours` and `known` are ghosts: the memberships the agent added after
BloodHound's answers, and those BloodHound held at every question asked for any of them
(`seen` collects them per task).

### Trust

`TrustScoring` is the arithmetic: scores, eligibility, the evidence a session at the edge gives.
`TrustFabric` has the handlers of the trust engine (`Evaluate` up to its publish, `Decide` after
it, which reads the shared `profile` again), the SOT records (`IssueSot`, `ExpireSot`,
`ReadToRevoke` and `RevokeSot` with the body awaited in between), the edge service
(`AuditSignal`, `Infer`, `Forward`, `ForwardFails`), the audit service's answer, and the
observer (`TakeSot`, `WatchSot`) with restarts of both.

### Learning and the registry

`LearningRound` is `process_raw_event` cut where a thread may be switched (`Observe`, `Train`,
`Trained`, `Sign`, `Stamp`, `Report`, `Weigh`, `Adopt`); `shadow`, `champion` and `model` are
what the threads share. `SyncShadow` posts the shadow as it is; `PromoteModel` and
`IngestColab` are the orchestrator's registry, `PostLost` a post given up, which
may arrive all the same, later. `clean` and `adopted` are history.

### Meta decisions

`CaseMemory` is `evaluate` (`Reuse`, `Required`, `Triggered`, `Selected`, `Asked`), the memory
(`ActiveCases`, `BestMatch`, `Newest`) and the turn of the training loop that remembers what
came out, with `AssessMetaDecision`, the orchestrator's evaluator for the same signals. Scores
are hundredths; the age of a case counts up to the time to live and one.

### The control room

`ControlServices` has cortex-auth (`IssueToken`, `ExpireOldest`, `RestartAuth`), cortex-sync
(`QueueSync`, `QueueSyncFails`, `RestartSync`) and the HTTP side of cortex-gateway (`Enqueue`,
`AuditAndAnswer`, which leave the lock in between); `SyncSummaries` is every summary a read that
breaks midway may be answered with. `ObsAgent` has the loops of the observer, its
health round and the correlation of signals, on a connection that may be lost for good.
`Advisors` has the four scoring services: `StoreEvent` with the list, the three indexes and the
pruning of the campaign memory, `Aggregate` and `Likelihood` over the four windows, `Priority` and
`Route`; `IngestConduct` and `Decay` of cortex-insider-decay, `IngestDeed` and `Escalation` of
cortex-admin-anomaly, with the bars of the policy engine (`InsiderSuspected`, `AdminSuspected`).
Their evaluations change nothing and are operators of the state they find; scores computed are in
hundredths, rounded where the code rounds. `AuditTrail` is cortex-audit, whose handler is cut at
its INSERT (`WriteEvent`, `Inserted`, `InsertFails`) where there is a database.
`ControlRoom` composes them all under the console's dashboard: `Ask`, one `Fetch` per source and
`Answer` or `Unavailable`, with what each source answers read at its own moment.

## 3. Runs

All runs pass but `WalQueueLost`, in which TLC finds what it looks for: the code against a
sentence of its README.

| Run | Instance | Shows |
|---|---|---|
| `ApprovalService` | both modes with 1 request; with rows 2 handlers of any kind, clock over deadlines at 1 and 2, 3 approve calls | rows stay coherent, approvals have their quorum, and a request every copy agrees on is final; the in-process mode implements the ledger, and its verdicts fall in time |
| `WalQueue` | 1 thread, 3 records | a durable outbox that keeps every record and marks it sent once (refinement), and every record left behind is published while the link is up (liveness) |
| `WalQueueThreads` | main loop, gRPC worker and NATS thread, 2 records, killed anywhere | whatever is lost or torn, until a connection is lost nothing is marked sent that no open connection took |
| `WalQueueLost` | 1 thread, 2 records, no kill in a rewrite | violated: on a closed connection a pending record is marked sent, where `services/python/cortex-sentinel-machine/README.md:43` and `RUNBOOK.md:26` say that it remains pending |
| `SentinelEngine` | every reading, band, assessment and command; iptables works or fails; 2 restores | state and SOT stay consistent at every interleaving, and however messages repeat an SOT is made once per restore; a heavy action is corroborated and uncontested when it is taken; no old score weakens a quarantine |
| `AgentTasks` | one producer's task, one caller with 2 calls under a name of its own or none, agents on their stream or on plain NATS, in prod or preprod, 3 messages | answers fit the questions the server or a handler named, and those of a caller's name; durable tasks are kept |
| `TrustFabric` | 1 entity, 2 evaluations at a time of three kinds, 1 session at the edge, 1 SOT, clock to 1 | SOT tasks rest on evidence, an inactive SOT stays so, an announced one is watched (liveness), the edge fails closed |
| `LearningRound` | main loop alone or with a gRPC thread, 3 models, 2 clean rounds, 1 post under way | promotions are patient, rollback pointers name former champions, the registry takes nothing unsigned, and on the main loop alone the champion is what was signed and weighed |
| `CaseMemory` | 2 agents, 2 kinds of events, 2 versions, memory of 2 cases that live 1 tick | an agent is spared only on the strength of a recent analysis of its own; a deep analysis that is due asks somebody |
| `Completions` | 2 users with 3 requests of ten kinds in one session, or one beside the decision agent | conversations keep their turns in pairs, one failing model fails nobody, the committee is of three models, all requests end (liveness) |
| `Directory` | 2 copies of the agent, 4 objects, 2 tasks of eleven kinds, 1 change by administrators, 1 of BloodHound | a path to tier zero opened by memberships added on BloodHound's word has a membership BloodHound did not hold when asked; a scan with a baseline counts every lasting addition of a group it could read, and lists it unless the list is full of drifts found no later |
| `ControlRoom` | thirteen loads, each of one kind of trouble | no live session is hidden, what was answered is held, a decision follows its anomaly, slow accumulation reaches Sentinel, a suspicion is corroborated, the health map converges (liveness) |

The type invariant of each module was checked in the same instances; only `ApprovalService`
lists it as a property of its run, because there it is also proved.

Bounds, and why they are enough.

* Two handlers make every race of `ApprovalService` with rows: a lost update, a stale reader, a listing;
  a third would only repeat one, and the theorems cover any number. Three approve calls
  exceed the largest quorum by one. The clock passes both deadlines. Without rows no handler is
  suspended and requests share nothing, so that one is enough.
* In `WalQueue` two records are the fewest a rewrite can lose one of and three let a
  flush have a first, a middle and a last; three threads stand for the three kinds.
* Two restores let an SOT be issued, dropped and issued again twice, while the messages of the
  one before are under way.
* In `AgentTasks` three messages hold a task, its question and a question of that one - the
  deepest nesting of the handlers - and one more caller competes for the agents, with two calls, so
  that the second may bear the name of the first while its answer is under way; it asks for an
  assessment, which asks questions itself, and for the dry run of a restore, which policy never
  blocks (`Tools`); the numbers
  of finished messages are used again, so that the behaviours are unbounded though the
  states are not.
* `TrustFabric`: two evaluations are what a read after a suspension needs; the three bodies are
  strong and corroborated, strong of one source, weak. One tick lets a SOT run out between the
  read and the write of a revocation. SOTs do not interact, so that one is enough.
* `LearningRound`: three models make a champion, its successor and a shadow; two rounds are the
  least that can be counted wrong; one post under way is late with respect to any training and
  to the posts after it is given up or handled. Nothing tells a third thread from a second.
* `CaseMemory`: two agents and a memory of two cases suffice for a chain of reuses that would
  outlive the time to live, the second kind differs by the traits reuse looks at, and the second
  version takes the compatibility away.
* `Completions`: three requests overlap in pairs with a third that finds what they left; three
  contexts are one more than two first requests create. `MCMenu` has one request per branch
  of the handler. The decision agent shares nothing with the conversations and gets few of them.
* `Directory`: the chain account, group, sensitive group, tier zero is the shortest in which
  two additions, each harmless alone, could make a path. One administrator's change covers
  a deletion, a removal or an addition during any task; one change of BloodHound an outage, a
  recovery or a collection. A list of one drift (`ReportLimit`, 20 in the code) has one too many as
  soon as there are two, and one asset (`ExposureLimit`, 10) is all there is of tier zero; the
  theorems are for any.
* `ControlRoom`: the services have nothing to do with one another except through the dashboard,
  so that each load gives one of them its trouble (`MCLoads`) with, where it matters, a dashboard
  across it. The thresholds of the correlation keep the order of the code and are smaller.
  The windows, weights and bars of the advisors are those of the code, but for `HistoryWindow`,
  4 instead of 20, so that five events overflow it. Six faint signals of 15 are just the
  accumulation that counts; some arrive late, a pause of 15 days shifts them between windows.
  An administrator has up to three recorded deeds; nothing of the score grows with more of them.

`CHECK_DEADLOCK FALSE` appears where the system rests once its bounded requests are
answered: `AgentTasks`, `Completions`, `Directory`, `ControlRoom`.

`KilledAnywhere = FALSE` in `WalQueue`: a kill inside a rewrite loses lines in
fact, so that the outbox is claimed for kills at any other time.

Fairness.

* `WalQueue`: every thread is scheduled; the main loop flushes every two seconds
  (`serve.py`), so `Flush` is weakly fair; a publish retried for ever on an open connection
  returns True at last (strong fairness of `PublishReturnsTrue`: the code retries and the
  connection answers or times out each time). `PendingIsPublished` further assumes the link
  stays up and no restart from some time on.
* `AgentTasks` assumes none and claims no liveness: an agent on plain NATS never hears of a task
  its stream holds, and a caller that gives up leaves its question behind.
* `TrustFabric`: JetStream delivers what it holds (`TakeSot`), and a handler that is started
  again and again after restarts gets to its end at last (strong fairness of `WatchSot`).
* `Completions`: every model call has a timeout and every tool call a deadline, so that a job
  and a batch go on (`Handler`, `Batch`). Nothing is assumed of the clients or of the models.
* `ControlRoom`: the event loop runs whatever is ready and a sleep ends (`ProbeNext` or
  `ReportHealth`). `HealthConverges` supposes the service up and the connection not lost from
  some time on.

## 4. Proofs

All with TLAPS, for any sets of requests, handlers, records, threads, entities, sessions,
objects, tasks and any bounds, under the named assumptions of the modules.

* `ApprovalProofs` - of the store, `TypeCorrect`, `RowsAreCoherent`, `ApprovalNeedsQuorum`,
  `SettledForEver`. The
  invariant has to speak of the copies the handlers hold, not of the rows alone: `Inv` says of
  every row and every copy (`Copies`, `CopiesOK`) that it is a state one handler could have
  made, and that its tally is at most the number of approve calls so far. An upsert then only
  puts a sound copy over a row of the same risk and creation (`UpsertIsCopy`), however stale.
  `SettledIsFinal` is a property of steps and follows from the same invariant: a step writes a
  row that is a copy some handler carried (`CarriedOrNew`), and those all read the verdict.
  Of the in-process mode, `VerdictsAreInTime` and the refinement `LocalImplementsLedger`;
  `ServiceIsEitherMode` carries the theorems of both to the service as it is started.
  `LocalInv` says that a stored record is pending and short of approvals, or decided in time. What a
  handler leaves of a record is the record, its expiry, or a decision on a record that its
  expiry left alone (`Left`); the ledger sees an expiry as `Lapse` or as nothing.
* `WalQueueProofs` - `SentOnlyWhenTaken`, for any number of threads, kills inside rewrites
  included, until the queue has seen a connection lost. Inductive: the flag is set in the file or
  in the copy of a thread only for records in `taken`, and a thread about to mark a record had it
  taken; `LinkInv` says that a publish is ignored only after a loss. For one thread and kills
  between rewrites, `AloneNothingIsLost` and the refinement `AloneImplementsOutbox`: `Solo`
  says that the lines written so far are a prefix of the copy under way and that nothing is torn,
  so that the contents of the box change with the append and the mark alone; the outbox's
  `accepted` is the model's `emitted`.
* `SentinelEngineProofs` - `EscalationHasSot` (for the packaged table): no state above
  monitored can be reached except through `observation`, which sets the SOT, and a restore
  that is refused leaves none of the escalated states. `SotsAreCounted` (`CountInv`): the SOTs made, one while
  one is set, are as many as the restores, so that every number announced, once or more often, is
  at most one more. `QuarantineIsKept`, of steps, from `Inv`. `HeavyActionsAreWeighed`
  (`WeighedInv`): what the cycle is about to do was chosen under the reading and the analysis of
  this cycle, which no command changes, so that a containment rests on two sources and none
  is carried out against an analysis that is due.
* `TrustFabricProofs` - `TasksAreCorroborated`: the profile is only written whole by an
  evaluation (`ProfilesInv`), so that whichever a suspended handler reads is one evaluation's.
  `InactiveIsFinal` (`RecordsInv`): a copy that a revocation writes back is of the same token, not
  active any more, and an issue needs a token never issued. `UnauditedStaysOut` (`AuditInv`): a
  session past the audit was recorded, or the audit is not required.
* `LearningProofs` - of a round, `PromotionsArePatient` (`PatienceInv`: the manager's count is the
  clean verdicts since the last refusal); `PointersLeadBack` (`PointersInv`: every pointer, and
  what will become one, was champion) - both for any threads. `ChampionsAreVouched` and
  `EntriesAreVouched` need that on the main loop alone every step of a round speaks of one model
  (`AloneInv` with `RoundIsOne`), and that a post carries its model's manifest and report or none
  (`PostsInv`, `RegistryInv`).
  Of the memory of cases, `ReuseRestsOnAnalysis` and `DeepAnalysisHasSomebody` (`MemoryInv`): cases
  lie by age, so that dropping the expired ones takes a prefix and leaves nothing older, and no case
  is younger than the selection of the agents it names (`Founded`) - without which a chain of reuses
  could renew itself.
* `DirectoryProofs` - `Safety`: a handler at its write has asked for every asset of tier zero and
  was told of no path over what BloodHound held at every one of its questions (`Vetted`, over
  `seen`), which `known` never exceeds from then on; so every membership in `ours` ends in an
  object that leads nowhere near tier zero over `known` (`IInv`). The objects that lead to no asset
  over some memberships are closed under these and under any that end in one of them
  (`NoDetour`); no induction over paths is needed. `ScansReport` (`ScanInv`): what a copy
  has kept since it took its task is in the directory all along, a bound client ends a scan
  only by comparing, and what is compared is counted but for the groups missed; a list that
  leaves one out is full of drifts found no later.
* `ControlRoomProofs` - `AnswersAreHeld`, of four services at once. Of the campaign memory it needs
  that the list and each index hold the same events but for those older than ninety days
  (`CampaignInv`, `IndexInv`), since a key left empty is dropped and one found again is begun anew;
  of the audit trail, that no two events bear one stamp, and what is under way or recorded is
  accounted for (`AuditInv`). `AccumulationIsNotMissed` (`AccumulationInv`): the month told of an
  identity is the month kept under it and part of its quarter (`MonthIsKept`), which is 50 points
  of deviation; the six signals bring the rest to the bar of 65, whatever a path or a family adds.
  That no figure of a path or a family takes anything away needs a sum over a set of any size:
  `SumIsNatural` shows, by the least counterexample (`WFMin` over the natural numbers), that
  `MapThenSumSet` of natural numbers is a natural number.
  `SuspicionsAreCorroborated` (`HistoriesInv`), for any histories,
  reviews, chains and length of the window: the capped shares of the score are bounded one by one.
  At most one irregular event among those looked at leaves the role at a third once
  repetition counts, and then the sum under the bar; without a jump to domain
  administration out of the familiar families at most 65 of the causal hundred are left.
  `ValidSessionsAreShown`: a token of the present key names
  a session that is kept (`KeysInv`), and cortex-auth counted at least the sessions that were
  valid all along (`HeldInv`); `DecisionsAreAnnounced` (`TasksInv`), for thresholds of at most
  1000, where the second threshold of the code begins.
* `McpServerProofs` - of the tasks, `AnswersFit` and `TasksAreKept` (`TasksInv`): where each message
  in flight comes from (`MessagesGrounded`), that no two carry one number (`NumbersDiffer`), what a
  handler at a step has done so far (`InPlace`, `PlansHold`, `CallersWork`), and which questions are
  answered by what (`AnswersCounted`, `StoredTill`). An answer can go to the wrong question only
  through a number that is used while another message still bears it, or through a name its
  caller gave twice; such a name is none of the server's or the producers'. Of the completions,
  `QuestionsKeepTheirAnswers`, `FailureTakesTwo`, `CommitteeHasItsMembers` and, of steps,
  `SettledConversationsGrow` (`CompletionsInv`): a fallback is another model than the primary and is
  asked only after the primary raised (`JobOK`); the call of the decision agent is the next of its
  script and what it heard so far are the models before that (`PanelOK`). Of the policy,
  `WorseIsNeverAllowed`, over every pair of envelopes: `evaluate` returns at the first rule that
  fits, and no worse grounds (a dependency, a suspicion, a scope) lead past all of them to
  "allowed". It says so of "allowed" only, and no more is true (section 5).

Only model-checked. Liveness under fairness is outside the prover: `PendingIsPublished`,
`SotIsWatched`, `RequestsEnd`, `HealthConverges`. Every safety invariant and
every action property that a run checks is stated by a theorem.

## 5. Reading notes

Observations on the code that no run claims as a finding: either the repository says nothing
to the contrary, or a property would state no more than the line quoted.

Approval.

* Two approvals that read the same tally count as one, although both were answered 200; a
  reader that refreshes a copy it read earlier may reopen a request decided meanwhile. The
  properties state what survives both.
* One caller approving twice is a quorum of two: the service keeps no approver
  (`docs/CORTEX_V2_ARCHITECTURE.md:357` speaks of two approvers). No task looks at deadlines
  (`:358`): an overdue request expires when somebody reads it.
* With rows, an approval is stamped when it is made and checked before a suspension: it can be
  stamped after the deadline. `DecidedInTime` is therefore a property of `ApprovalLocal` alone.

The WAL and its bus.

* A record appended during another thread's rewrite is gone. That on a closed connection records
  are marked sent is a finding (`WalQueueLost`). With `allow_reconnect` False a lost connection
  stays lost until a restart.
* A torn WAL line makes every later `read_all` raise: the main loop ends with it at every start.
* `disable_nats_bus` runs on the NATS loop thread and waits there for that loop
  (`runtime.py:36-41`): 1.2 s later it raises, and the bus stays, although
  `services/python/cortex-sentinel-machine/README.md:45` lists the command.

Sentinel and the agents' tasks.

* An assessment over its 20 ms budget forgets a conflict the bridge would have found. A restore
  never reopens the chains a quarantine closed. The image has no iptables and the chart
  drops all capabilities, so that a quarantined host stays open there; conversely a quarantine
  the state machine refuses leaves the chains closed. No property is claimed of the firewall.
* A publish to JetStream that raises, for want of an answer too, is repeated on plain NATS
  (`engine.py:292-299`): the same SOT or task may go out twice.
* The orchestrator passes the `request_id` of its client on as `task_id` (`main.py:346`), so that
  the late answer to a request may answer its retry, and two tools asked of one agent under one
  name may take each other's answers.
* No handler reads `idempotency_key`; a redelivered `execute_issue_sot` issues a second SOT, and
  the one issued for a redelivered command may never be announced. The subject
  `cortex.agents.tasks.observer` has no consumer. Task ids of the producers have a resolution of
  one second.
* A JetStream subscription that fails is replaced by a plain one without a word; the stream then
  keeps the tasks, and the agent never hears of them.
* In prod no capability of the registry is mature enough, so that the agents' tools answer
  blocked - except a dry run, which the policy looks at first; a dry run of a restore writes.

* A suspicion makes `evaluate` answer approval_required before it looks at the vault: a secret
  rotation under suspicion may be approved while the vault is down, one above suspicion is
  blocked. A quarantine of wide blast comes before the rule for a degraded graph, likewise.

Advisors and audit.

* A profile of an administrator loses 2 points of its 100 with every recorded action: with 38 of
  them the escalation can no longer reach the policy engine's 85, whatever he does next.
* An event both ingested and sent for evaluation counts twice. Every regular event raises the
  repetition part of the decay. The histories of both services are never pruned.
* Signals of low novelty lower the averages, so that one more signal may lower the likelihood.
  A date in the future is in every window until it has passed.
* With a database the answer to a written audit event counts 0 events.

Trust.

* cortex-audit takes the decisions allow, deny, monitor and step_up; cortex-edge-inference sends
  "recorded". It is refused, and where the audit is required every session ends unavailable.

Learning.

* The count of stable rounds is not reset by a promotion and counts different challengers: after
  the first, every clean challenger is promoted at once.
* With gRPC threads, a manifest of one shadow may be stamped on another, a thread may
  adopt a shadow that another has trained and not yet signed, and averaging the memory raises
  while another appends, which ends the process on the main loop.
* The orchestrator does not compare `body.model_id` with the candidate's; it takes candidates that
  the local manager refused under hard drift. `sync_outcome` sends a trust update without
  `entity_id`, is answered 500 and never posts its model. RUNBOOK.md:20 says that manifests
  contain `rollback_pointer`; the body does not.
* The trainer observes an event before the guard has judged it. Nonces are tested and
  added without a lock, never pruned, and forgotten by a restart.

Meta decisions.

* `PARTIAL_REUSE` ignores model versions (BLACKEVOUPAPER.md:490-495). Degraded, fallback and
  pending results are remembered and reused; a reuse hands on three tenths of an old risk with
  a fresh time to live. After a full reuse the new case names no agents, so that the bypass
  alternates. Cases of crown jewels are reusable for similar events without the flag.
* `invalidate` works on the exact fingerprint and is never called; `remember_case` fingerprints
  other features than the lookup, so that an exact match never occurs in training. The
  orchestrator's evaluator triggers a deep analysis with no requests when it selects no agent.

The directory.

* `get_tier0_assets` fails open: without an answer a member is added, and exposure
  questions answer risk 0. There is no guard at all without a token. `restore_deleted` is
  unguarded, answers mode "prepare" though it writes, and matches by substring.
* A scan answers the first 20 drifts (`ad.py:240`), stale accounts and orphans before additions to
  sensitive groups. A search that fails without raising looks empty (`ldap_client.py:86-114`), and
  the scan answers success. An exposure looks at the first 10 assets of tier zero
  (`bloodhound_guard.py:90`).
* The scan of a client that never bound answers success with no drift. The baseline a scan takes
  is written and never read, and the answer holds its id only, so that no caller can build one;
  the nightly scan carries none. The agent's own additions are reported as made outside of
  the workflow (`drift_detector.py:145`).
* `cortex.agents.tasks.ad` is in no stream: both copies of a rolling update handle each task, and
  a scan published while none runs is lost. `getKerberosTGS` is called with too few arguments; the
  dirsync cookie is decoded with its bytes dropped; `publish_drifts_to_cortex` and
  `verify_user_created` are never called.

Completions.

* Nothing feeds the circuit breakers. `MAX_TURNS_PER_MODEL` lacks the OpenAI models: a session
  whose task goes to one is answered 500. The window of phi3-mini begins with an assistant's turn.
* A request that holds an expired context stores it over a newer one; two first requests of a
  session make a context each, and the turns of one are lost. `SettledGrows` states what is kept.
* A tool call of a batch that raises answers 500 while the others go on; parallel 0 waits for
  ever. A dry run without a tool runs for real. Two models in turn may take 62 s, more
  than the 60 s the agents wait. `consulted_models` names three models whichever answered.

The control room.

* A publish on a closed connection ends a loop of the observer for good, while `/status` still
  counts it active; a failed connect at start is never retried; `overall` is always "healthy".
* The window of signals never empties: from the fifth signal on, of any entities, every signal
  raises an anomaly and a decision task.
* CORTEX_EVENTS is created by whichever of three programs starts first, each with its own list of
  subjects; with the wrong one `sentinel_stream_loop` ends silently. nats-bridge publishes on
  subjects no stream captures and answers 502.
* Jobs of cortex-sync are never executed. Two posts of one nanosecond share an id; `created_at`
  is in seconds, so that the latest of two jobs is arbitrary. A failed read is answered 404, and
  a summary whose rows break off is answered 200 as far as it got (`rows.Err` is not asked).
* Sessions of cortex-auth never expire and are replaced when their id is issued to another
  subject. The queues of the gateway are never drained; the chart sets no path for its audit log.
* A source that answers other than 2xx counts as nothing pending and nothing critical, without a
  warning. The validation of plans in Sentinel calls destructive ones approval-required whatever
  their risk; the orchestrator's looks at `risk_level` 4 and above only.

## 6. Not modelled

* Of the scoring services the evidence, the confidence made of it, the metrics and the flags that
  turn a service off; cortex-vllm, which passes a prompt on.
* Collectors and the watchdog of Sentinel, text filters, LDAP filters, report texts: parsing.
  The models take what they can find from small sets.
* Cryptography, TLS, SPIFFE: a signature, a token, an encrypted line verifies or does not.
* The control plane of sentinel-machine beyond the posts and commands of `LearningRound` and
  `WalQueue`; the ext_authz check of the gateway; searches of the graph, and nats-bridge; the routes
  of the console that pass one request on; the hand-over of an approved intent by the
  orchestrator, a chain of HTTP calls without state.
* Numerical training and data sets (learning package, laboratories, notebooks), installers,
  charts, Terraform: no protocol of the running system. These are the largest files of the
  repository, and most of the lines no definition maps.

`PROJECT.json` gives the status and the reason per component.
