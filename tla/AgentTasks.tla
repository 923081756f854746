----------------------------- MODULE AgentTasks -----------------------------
(***************************************************************************)
(* The task protocol between cortex-mcp-server and the three agents of     *)
(* cortex-agents.  A task is a NATS message on the subject of an agent.    *)
(* Sentinel, the trust engine and the observer publish tasks and do not    *)
(* wait; the MCP server publishes one for every tool call, subscribed to   *)
(* the results of that agent before, and waits up to 60 s for a result     *)
(* with the task_id of the call.  An agent handles one task at a time, and *)
(* its handler calls tools in turn, so that calls nest: remediation waits  *)
(* for decision and ad, decision for ad.                                   *)
(*                                                                         *)
(* The subjects in a JetStream stream are delivered at least once to an    *)
(* agent that consumes the stream: a task not acknowledged within 30 s     *)
(* comes again, also while it is being handled.  An agent that cannot      *)
(* subscribe to the stream when it starts, and every agent of the other    *)
(* subjects, hears plain NATS: what it was sent is gone with it, and its   *)
(* acknowledgements reach no stream.                                       *)
(*                                                                         *)
(* A caller may name its question itself, as the orchestrator does with    *)
(* the request_id of its client: a request sent twice is two questions     *)
(* under one name.  The names clients give are assumed not to be those of  *)
(* producers' tasks, nor those the server makes (uuids).                   *)
(*                                                                         *)
(* A task type stands for the types with the same tool calls; a call that  *)
(* is no task (models, forensic_preserve, get_blast_radius, the trust      *)
(* engine) is one more way for the handler to raise.  No clock: a timeout  *)
(* may come at any time.                                                   *)
(***************************************************************************)
EXTENDS PolicyEngine, Sequences, Naturals, FiniteSets, Functions

CONSTANTS Tasks,        \* task ids of the producers that do not wait
          Operators,    \* callers of POST /mcp/tools/call outside the agents
          Names,        \* the task ids such callers give themselves
          Durable,      \* the subjects some stream holds
          DeployedIn,   \* the environments the MCP server may run in
          Tools,        \* bound: the types of task that operators ask for
          MaxCalls,     \* bound of the calls an operator makes
          MaxMessages   \* bound of the task messages that exist at a time

Agents == {"ad", "decision", "remediation"}

\* The types of task that tools of the MCP server ask for.
ToolTypes == {"read", "restore", "rehearse", "analyze", "assess"}

ASSUME TasksAssumption ==
  /\ Durable \subseteq Agents
  /\ DeployedIn \subseteq Environments
  /\ Tools \subseteq ToolTypes
  /\ MaxCalls \in Nat /\ MaxMessages \in Nat \ {0}
  /\ Tasks \cap 1..MaxMessages = {}
  /\ Names \cap (Tasks \cup 1..MaxMessages) = {}
  /\ Operators \cap (Tasks \cup Agents) = {}

VARIABLES environment,  \* CORTEX_ENVIRONMENT
          consumer,     \* consumer[s]: how agent s subscribed, "stream" or "plain"
          stored,       \* stored[s]: messages of the stream not acknowledged
          queue,        \* queue[s]: messages delivered to agent s, not yet handled
          agent,        \* agent[s]: [pc, task, todo], the handler of agent s
          call,         \* call[c]: the set holding the open tool call of c, or {}
          calls,        \* history: how many calls each operator made
          submitted,    \* history: the set holding the type of each producer's task, or {}
          answered      \* history: the tasks of producers whose result was published

vars == <<environment, consumer, stored, queue, agent, call, calls, submitted, answered>>

Types == {"read", "restore", "rehearse", "analyze", "assess", "plan",
          "contain_machine", "contain_account"}

Subject(type) ==
  CASE type \in {"read", "restore", "rehearse"} -> "ad"
    [] type \in {"analyze", "assess"} -> "decision"
    [] OTHER -> "remediation"

\* The tools assess_privilege_change asks: attack path, blast radius, group membership.
AssessPlan == <<"read", "read", "read">>

\* prepare_quarantine and prepare_irreversible_containment: a decision, after the blast
\* radius and a privilege path when the entity is of the directory.
QuarantinePlan(inDirectory) ==
  IF inDirectory THEN <<"read", "read", "analyze">> ELSE <<"analyze">>
ContainmentPlan(inDirectory) ==
  IF inDirectory THEN <<"read", "read", "analyze">> ELSE <<"analyze">>

\* The tasks a handler asks for, in order.  A plan for a SOT asks nobody, and its
\* execution the trust engine; the execution of a containment is answered as blocked.
Plan(type) ==
  CASE type = "assess" -> AssessPlan
    [] type = "contain_machine" -> QuarantinePlan(FALSE)
    [] type = "contain_account" -> ContainmentPlan(TRUE)
    [] OTHER -> <<>>

Callers == {"decision", "remediation"} \cup Operators

\* A message: n tells two messages apart, id is its task_id; of and step say of which
\* task, and where in its plan, it is a question (step 0: of nobody).
Ids == Tasks \cup Names \cup 1..MaxMessages
Messages == [n : 1..MaxMessages, id : Ids, type : Types, of : Ids, step : 0..3]

\* runner.main: the stream, or plain NATS when that raises.
Subscriptions(s) == IF s \in Durable THEN {"stream", "plain"} ELSE {"plain"}

Idle == [pc |-> "idle", task |-> {}, todo |-> <<>>]

Init ==
  /\ environment \in DeployedIn
  /\ consumer \in [Agents -> {"stream", "plain"}]
  /\ \A s \in Agents : consumer[s] \in Subscriptions(s)
  /\ stored = [s \in Agents |-> {}]
  /\ queue = [s \in Agents |-> <<>>]
  /\ agent = [s \in Agents |-> Idle]
  /\ call = [c \in Callers |-> {}]
  /\ calls = [o \in Operators |-> 0]
  /\ submitted = [t \in Tasks |-> {}]
  /\ answered = {}

\* Numbers are used again when nothing holds them any more.
InFlight == UNION {stored[s] \cup Range(queue[s]) \cup agent[s].task : s \in Agents}
Held == InFlight \cup {k.asked : k \in UNION {call[c] : c \in Callers}}
Free == 1..MaxMessages \ ({m.n : m \in Held} \cup {m.id : m \in Held} \cup {m.of : m \in Held})
Fresh == CHOOSE n \in Free : TRUE

\* The bound leaves the last number to the reads, when some assessment may ask for one.
Room(type) ==
  LET assessing == type = "assess" \/ \E m \in InFlight : m.type = "assess"
  IN  Cardinality(Free) > (IF Subject(type) # "ad" /\ assessing THEN 1 ELSE 0)

\* Publishing on the subject of an agent.
Send(m) ==
  LET s == Subject(m.type)
  IN  /\ stored' = IF s \in Durable THEN [stored EXCEPT ![s] = @ \cup {m}] ELSE stored
      /\ queue' = IF consumer[s] = "plain" THEN [queue EXCEPT ![s] = Append(@, m)] ELSE queue

-----------------------------------------------------------------------------
\* The gate of execute_tool.  The tools of the AD agent read, but ad_restore_deleted,
\* here restore, or rehearse when its dry_run is set; those of the decision agent are
\* advisory.  The parameters left out can only turn allowed into approval_required,
\* which the gate lets through.
Capability(type) ==
  CASE type = "read" -> "ad_read_validations"
    [] type \in {"restore", "rehearse"} -> "ad_destructive_writes"
    [] type \in {"analyze", "assess"} -> "decision_committee"

ActionClass(type) ==
  CASE type = "read" -> "read_only"
    [] type \in {"restore", "rehearse"} -> "execute_with_approval"
    [] type \in {"analyze", "assess"} -> "advisory"

ToolPolicy(type) ==
  Evaluate([dryRun |-> type = "rehearse", class |-> ActionClass(type),
            environment |-> environment, deps |-> Healthy, adminScope |-> TRUE,
            adminCompromised |-> FALSE, insiderDecay |-> FALSE, critical |-> FALSE,
            crownJewels |-> FALSE, enoughSignals |-> FALSE, wideBlast |-> FALSE,
            action |-> "other"],
           ActionClass(type) = "execute_with_approval", Capability(type))

Blocked(type) == ToolPolicy(type) \in {"denied", "blocked_due_to_degraded_mode"}

\* _dispatch_agent_tool up to its wait: subscribe to the results, publish the task.
Dispatch(c, m) ==
  /\ call' = [call EXCEPT ![c] = {[asked |-> m, answer |-> {}]}]
  /\ Send(m)

-----------------------------------------------------------------------------
\* Sentinel and the trust engine publish containment and SOT plans, the observer
\* anomalies to analyze and drift scans.
Submit(t, type) ==
  /\ submitted[t] = {}
  /\ Room(type)
  /\ submitted' = [submitted EXCEPT ![t] = {type}]
  /\ Send([n |-> Fresh, id |-> t, type |-> type, of |-> t, step |-> 0])
  /\ UNCHANGED <<environment, consumer, agent, call, calls, answered>>

\* The name a caller gives its question, or else the one the server makes.
NameOf(given, fresh) == IF given = {} THEN fresh ELSE CHOOSE r \in given : TRUE

\* POST /mcp/tools/call of somebody else than an agent; a blocked call changes
\* nothing.  The orchestrator gives the request_id of its client.
OperatorCalls(o, type, given) ==
  /\ call[o] = {} /\ calls[o] < MaxCalls
  /\ ~Blocked(type)
  /\ Room(type)
  /\ LET id == NameOf(given, Fresh)
     IN  Dispatch(o, [n |-> Fresh, id |-> id, type |-> type, of |-> id, step |-> 0])
  /\ calls' = [calls EXCEPT ![o] = @ + 1]
  /\ UNCHANGED <<environment, consumer, agent, submitted, answered>>

\* A message of the stream comes to the agent: for the first time, or again because it
\* was not acknowledged in time.
Deliver(s, n) ==
  /\ consumer[s] = "stream"
  /\ \E m \in stored[s] :
       /\ m.n = n
       /\ m \notin Range(queue[s])
       /\ queue' = [queue EXCEPT ![s] = Append(@, m)]
  /\ UNCHANGED <<environment, consumer, stored, agent, call, calls, submitted, answered>>

\* on_task begins.
Take(s) ==
  /\ agent[s] = Idle
  /\ queue[s] # <<>>
  /\ queue' = [queue EXCEPT ![s] = Tail(@)]
  /\ agent' = [agent EXCEPT ![s] = [pc |-> "work", task |-> {Head(queue[s])},
                                    todo |-> Plan(Head(queue[s]).type)]]
  /\ UNCHANGED <<environment, consumer, stored, call, calls, submitted, answered>>

\* Mutant: every call passes the task_id of the task on.
TaskIdAlways(m, type, fresh) == m.id

\* The remediation agent passes its own task_id to decision_analyze_response; every
\* other call leaves the task_id to the MCP server.
TaskId(m, type, fresh) == IF type = "analyze" THEN m.id ELSE fresh

\* The handler calls its next tool.
Ask(s) ==
  /\ agent[s].pc = "work" /\ agent[s].todo # <<>>
  /\ call[s] = {}
  /\ LET type == Head(agent[s].todo)
     IN  IF Blocked(type)
         THEN /\ agent' = [agent EXCEPT ![s].todo = Tail(@)]
              /\ UNCHANGED <<stored, queue, call>>
         ELSE /\ Room(type)
              /\ \E m \in agent[s].task, n \in {Fresh} :
                   Dispatch(s, [n |-> n, id |-> TaskId(m, type, n), type |-> type,
                                of |-> m.id, step |-> Len(agent[s].todo)])
              /\ UNCHANGED agent
  /\ UNCHANGED <<environment, consumer, calls, submitted, answered>>

\* The caller gets its answer.
Returns(c) ==
  /\ \E k \in call[c] : k.answer # {}
  /\ call' = [call EXCEPT ![c] = {}]
  /\ agent' = IF c \in Agents THEN [agent EXCEPT ![c].todo = Tail(@)] ELSE agent
  /\ UNCHANGED <<environment, consumer, stored, queue, calls, submitted, answered>>

\* The call times out in the MCP server (500) or in the client; in an agent the
\* exception ends the handler and leaves the task unacknowledged.
CallFails(c) ==
  /\ call[c] # {}
  /\ call' = [call EXCEPT ![c] = {}]
  /\ agent' = IF c \in Agents THEN [agent EXCEPT ![c] = Idle] ELSE agent
  /\ UNCHANGED <<environment, consumer, stored, queue, calls, submitted, answered>>

\* The test of the loop of _dispatch_agent_tool on a result that agent s published.
Matches(k, s, m) == Subject(k.asked.type) = s /\ k.asked.id = m.id

\* The work is done: the result is published, and a call that waits for it takes the
\* first that matches.
Reply(s) ==
  /\ agent[s].pc = "work" /\ agent[s].todo = <<>>
  /\ \E m \in agent[s].task :
       /\ call' = [c \in Callers |->
                     {IF Matches(k, s, m) /\ k.answer = {} THEN [k EXCEPT !.answer = {m}] ELSE k
                        : k \in call[c]}]
       /\ answered' = IF m.step = 0 THEN answered \cup ({m.id} \cap Tasks) ELSE answered
  /\ agent' = [agent EXCEPT ![s].pc = "ack"]
  /\ UNCHANGED <<environment, consumer, stored, queue, calls, submitted>>

\* The agent signal is published and the message acknowledged.
Acknowledge(s) ==
  /\ agent[s].pc = "ack"
  /\ stored' = IF consumer[s] = "stream" THEN [stored EXCEPT ![s] = @ \ agent[s].task] ELSE stored
  /\ agent' = [agent EXCEPT ![s] = Idle]
  /\ UNCHANGED <<environment, consumer, queue, call, calls, submitted, answered>>

\* Mutant: the message is acknowledged in a finally clause.
RaisesAndAcknowledges(s) ==
  /\ agent[s].pc # "idle"
  /\ s \in Callers => call[s] = {}
  /\ stored' = IF consumer[s] = "stream" THEN [stored EXCEPT ![s] = @ \ agent[s].task] ELSE stored
  /\ agent' = [agent EXCEPT ![s] = Idle]
  /\ UNCHANGED <<environment, consumer, queue, call, calls, submitted, answered>>

\* The handler raises: an unknown type, a model that does not answer, a publish.
HandlerRaises(s) ==
  /\ agent[s].pc # "idle"
  /\ s \in Callers => call[s] = {}
  /\ agent' = [agent EXCEPT ![s] = Idle]
  /\ UNCHANGED <<environment, consumer, stored, queue, call, calls, submitted, answered>>

\* The agent stops and starts again; what was delivered to it and not handled is gone,
\* and comes again if a stream holds it and the agent consumes that stream.
Crash(s) ==
  /\ consumer' \in {[consumer EXCEPT ![s] = kind] : kind \in Subscriptions(s)}
  /\ agent' = [agent EXCEPT ![s] = Idle]
  /\ queue' = [queue EXCEPT ![s] = <<>>]
  /\ call' = [c \in Callers |-> IF c = s THEN {} ELSE call[c]]
  /\ UNCHANGED <<environment, stored, calls, submitted, answered>>

Runner(s) == Take(s) \/ (s \in Callers /\ Ask(s)) \/ Reply(s) \/ Acknowledge(s)
Produced == {"read", "analyze", "plan", "contain_machine", "contain_account"}

Next ==
  \/ \E t \in Tasks, type \in Produced : Submit(t, type)
  \/ \E o \in Operators, type \in Tools, given \in {{}} \cup {{r} : r \in Names} :
       OperatorCalls(o, type, given)
  \/ \E s \in Durable, n \in 1..MaxMessages : Deliver(s, n)
  \/ \E s \in Agents : Runner(s)
  \/ \E c \in Callers : Returns(c) \/ CallFails(c)
  \/ \E s \in Agents : HandlerRaises(s) \/ Crash(s)

Spec == Init /\ [][Next]_vars

-----------------------------------------------------------------------------
OpenCall(k) == k.asked \in Messages /\ k.answer \subseteq Messages

TypeOK ==
  /\ environment \in DeployedIn
  /\ \A s \in Agents : consumer[s] \in Subscriptions(s)
  /\ stored \in [Agents -> SUBSET Messages]
  /\ queue \in [Agents -> Seq(Messages)]
  /\ \A s \in Agents :
       /\ agent[s].pc \in {"idle", "work", "ack"}
       /\ agent[s].todo \in Seq(Types)
       /\ agent[s].task \subseteq Messages /\ Cardinality(agent[s].task) <= 1
       /\ agent[s].pc = "idle" <=> agent[s] = Idle
  /\ \A c \in Callers : Cardinality(call[c]) <= 1 /\ \A k \in call[c] : OpenCall(k)
  /\ submitted \in [Tasks -> SUBSET Types]
  /\ calls \in [Operators -> 0..MaxCalls]
  /\ answered \subseteq Tasks

\* The answer to a question the server named is the answer to that very question, and
\* the answer a handler gets under the task_id of its task is one to the same step of
\* that task, perhaps to an earlier attempt at it: redelivered tasks, calls that timed
\* out and late results never mix two questions (_dispatch_agent_tool).  Whoever names a
\* question itself gets an answer to one of that name, and no more: a retried request
\* may take the late answer to the first, and two tools asked under one name of one
\* agent may take each other's.
AnswerFitsQuestion ==
  \A c \in Callers : \A k \in call[c] : \A m \in k.answer :
    /\ m.of = k.asked.of /\ m.step = k.asked.step
    /\ k.asked.id \notin Names => m.type = k.asked.type
    /\ k.asked.id = k.asked.n => m = k.asked

\* A task published on a subject of a stream stays there until its result was
\* published: no crash, timeout or failing tool drops it (on_task acknowledges last).
UnansweredIsStored ==
  \A t \in Tasks \ answered : \A type \in submitted[t] :
    Subject(type) \in Durable => \E m \in stored[Subject(type)] : m.id = t
=============================================================================
