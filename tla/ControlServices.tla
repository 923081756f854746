--------------------------- MODULE ControlServices ---------------------------
(***************************************************************************)
(* Three of the services written in Go: cortex-auth, which issues CAP      *)
(* tokens and keeps the sessions they name, cortex-sync, which queues      *)
(* synchronisations of the directory, and the HTTP side of cortex-gateway, *)
(* which queues the events of the machines.                                *)
(*                                                                         *)
(* Each handler runs on a goroutine of its own.  The handlers of           *)
(* cortex-auth and of cortex-sync touch what they share once, under a lock *)
(* or in one statement, and are one action each; those of cortex-gateway   *)
(* leave the lock between the queue and the audit log.  cortex-auth        *)
(* generates its signing key when it starts.                               *)
(***************************************************************************)
EXTENDS Integers, Sequences, FiniteSets, Functions, SequencesExt

CONSTANTS Requests,   \* bodies of POST /v1/tokens/issue
          Modes,      \* "full" and "delta"
          Sources,    \* what a synchronisation may be asked of
          Durable,    \* DATABASE_URL is set
          TicksPerSecond,
          Posts,      \* events posted to the gateway, each once
          MetaPosts,  \* those of them that are meta-decision events
          LogPath     \* CORTEX_GATEWAY_SENTINEL_EVENT_LOG is set

\* issueTokenRequest; the scopes and the MFA flag only pass through.
TokenRequest == [subject : STRING, session : STRING, device : STRING, thumb : STRING,
                 kind : STRING, trust : Int]

ASSUME ControlServicesAssumption ==
  /\ Requests \subseteq TokenRequest
  /\ Modes = {"full", "delta"}
  /\ {Durable, LogPath} \subseteq BOOLEAN
  /\ TicksPerSecond \in Nat \ {0}
  /\ MetaPosts \subseteq Posts

VARIABLES key,       \* how many signing keys came before this one
          tokens,    \* the tokens in the hands of clients, unexpired, oldest first
          sessions,  \* Handler.sessions
          now,       \* the clock of cortex-sync, as far as it tells jobs apart
          db,        \* the jobs, by id
          promised,  \* ids of jobs answered 202
          events,    \* the two queues of the gateway
          log,       \* its audit log
          posting,   \* posting[p]: where the handler of post p is
          depth      \* depth[p]: the queue_depth_hint of post p

authVars == <<key, tokens, sessions>>
syncVars == <<now, db, promised>>
gatewayVars == <<events, log, posting, depth>>
svcVars == <<key, tokens, sessions, now, db, promised, events, log, posting, depth>>

Nobody == <<>>   \* the empty map
Put(map, k, value) == [x \in DOMAIN map \cup {k} |-> IF x = k THEN value ELSE map[x]]

ServicesInit ==
  /\ key = 0 /\ tokens = <<>> /\ sessions = Nobody
  /\ now = 0 /\ db = Nobody /\ promised = {}
  /\ events = [kind \in {"sentinel", "meta"} |-> <<>>]
  /\ log = <<>>
  /\ posting = [p \in Posts |-> "idle"]
  /\ depth = [p \in Posts |-> 0]

-----------------------------------------------------------------------------
\* cortex-auth

\* The checks of IssueToken, then those of IssueCAPToken; "" is any blank text.
Acceptable(q) ==
  /\ "" \notin {q.subject, q.session, q.device, q.thumb}
  /\ q.kind \in {"human", "workload", "agent"}
  /\ q.trust \in 0..100

\* recordSession: a session has one record, that of the last token issued for it.
RecordSession(q) == sessions' = Put(sessions, q.session, q)

CAPToken(q) == [claims |-> q, key |-> key]

IssueToken(q) ==
  /\ Acceptable(q)
  /\ tokens' = Append(tokens, CAPToken(q))
  /\ RecordSession(q)
  /\ UNCHANGED <<key, syncVars, gatewayVars>>

\* ValidateToken of a token that has not expired.
Validates(token) == token.key = key

\* An hour after its issue.
ExpireOldest ==
  /\ tokens # <<>>
  /\ tokens' = Tail(tokens)
  /\ UNCHANGED <<key, sessions, syncVars, gatewayVars>>

\* SessionSummary: a session counts as active whether or not its tokens have expired.
SessionSummary ==
  LET records == {sessions[s] : s \in DOMAIN sessions}
  IN  [active |-> Cardinality(DOMAIN sessions),
       lowTrust |-> Cardinality({r.subject : r \in {r \in records : r.trust < 40}}),
       users |-> Cardinality({r.subject : r \in records}),
       devices |-> Cardinality({r.device : r \in records}),
       human |-> Cardinality({s \in DOMAIN sessions : sessions[s].kind = "human"}),
       workload |-> Cardinality({s \in DOMAIN sessions : sessions[s].kind # "human"})]

\* Mutant: the key comes from a secret and outlives the process, the sessions do not.
RestartAuthSameKey ==
  /\ sessions' = Nobody
  /\ UNCHANGED <<key, tokens, syncVars, gatewayVars>>

RestartAuth ==
  /\ key' = key + 1
  /\ sessions' = Nobody
  /\ UNCHANGED <<tokens, syncVars, gatewayVars>>

-----------------------------------------------------------------------------
\* cortex-sync

JobId(mode) == <<mode, now>>

\* created_at is in whole seconds, the id in nanoseconds.
CreatedAt(id) == id[2] \div TicksPerSecond

\* Save: an upsert that keeps the mode and the time of the job it finds, which are those
\* its id tells.
SyncJob(id, source) ==
  [status |-> "queued", mode |-> id[1], source |-> source, at |-> CreatedAt(id)]
Saved(id, source) == Put(db, id, SyncJob(id, source))

\* Mutant: the error of Save is dropped.
QueueSyncUnchecked(mode, source) ==
  /\ db' \in {db, Saved(JobId(mode), source)}
  /\ promised' = promised \cup {JobId(mode)}
  /\ UNCHANGED <<authVars, now, gatewayVars>>

\* queueSync; two requests may read the same nanosecond.
QueueSync(mode, source) ==
  /\ db' = Saved(JobId(mode), source)
  /\ promised' = promised \cup {JobId(mode)}
  /\ UNCHANGED <<authVars, now, gatewayVars>>

\* The statement fails, before or after PostgreSQL applied it: 500, and nothing promised.
QueueSyncFails(mode, source) ==
  /\ Durable
  /\ db' \in {db, Saved(JobId(mode), source)}
  /\ UNCHANGED <<authVars, now, promised, gatewayVars>>

ClockAdvances ==
  /\ now' = now + 1
  /\ UNCHANGED <<authVars, db, promised, gatewayVars>>

\* getJob; a statement that fails is answered as if there were no such job.
Found(id, fails) == id \in DOMAIN db /\ ~fails

\* summarizeJobs walks a map: of two jobs of one second, either may be called latest.
Summaries(ids) ==
  LET queued == {i \in ids : db[i].status = "queued"}
      done == {i \in ids : db[i].status \in {"success", "succeeded"}}
      newest(some) == {i \in some : \A j \in some : db[j].at <= db[i].at}
  IN  {[queued |-> Cardinality(queued),
        pending |-> Cardinality({i \in queued : db[i].mode = "delta"}),
        latest |-> latest,
        success |-> {db[i].at : i \in newest(done)}] :
       latest \in IF queued = {} THEN {<<>>} ELSE newest(queued)}

\* Of a result that breaks off, the rows read are all there are: rows.Err is not asked.
SyncSummaries == UNION {Summaries(read) : read \in IF Durable THEN SUBSET DOMAIN db ELSE {DOMAIN db}}

RestartSync ==
  /\ db' = IF Durable THEN db ELSE Nobody
  /\ promised' = IF Durable THEN promised ELSE {}
  /\ UNCHANGED <<authVars, now, gatewayVars>>

-----------------------------------------------------------------------------
\* cortex-gateway

Kind(p) == IF p \in MetaPosts THEN "meta" ELSE "sentinel"

\* handleSentinelEvents and handleMetaDecisionEvents: the append and the depth are under
\* the lock.  Posts are events with every required field; others are answered 400.
Enqueue(p) ==
  /\ posting[p] = "idle"
  /\ events' = [events EXCEPT ![Kind(p)] = Append(@, p)]
  /\ depth' = [depth EXCEPT ![p] = Len(events'[Kind(p)])]
  /\ posting' = [posting EXCEPT ![p] = "queued"]
  /\ UNCHANGED <<authVars, syncVars, log>>

\* appendAudit or appendMetaDecisionAudit, whose error is dropped, and the answer.
AuditAndAnswer(p) ==
  /\ posting[p] = "queued"
  /\ log' = log \/ (LogPath /\ log' = Append(log, p))
  /\ posting' = [posting EXCEPT ![p] = "answered"]
  /\ UNCHANGED <<authVars, syncVars, events, depth>>

\* The queues were in memory, and with them every place that was told.
RestartGateway ==
  /\ events' = [kind \in {"sentinel", "meta"} |-> <<>>]
  /\ posting' = [p \in Posts |-> IF posting[p] = "idle" THEN "idle" ELSE "lost"]
  /\ depth' = [p \in Posts |-> 0]
  /\ UNCHANGED <<authVars, syncVars, log>>
=============================================================================
