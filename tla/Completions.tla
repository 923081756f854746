----------------------------- MODULE Completions -----------------------------
(***************************************************************************)
(* POST /mcp/complete of cortex-mcp-server, its conversations, models and  *)
(* batches, with the decision agent as one of its clients.                 *)
(*                                                                         *)
(* The server is one asyncio process.  A handler is suspended while phi3   *)
(* classifies its task, while a model answers, and in a batch; between two *)
(* of these it runs alone.  All handlers share the contexts of the session *)
(* store: a request that finds a context holds that very object until it   *)
(* appends its two turns to it and stores it again.                        *)
(*                                                                         *)
(* AppState builds RouterConfig() and nothing calls record_failure, so     *)
(* that no model is forced by type or disabled and no breaker ever opens:  *)
(* those branches of route are left out.  No clock: a call may raise, and  *)
(* a stored context may pass its time to live, at any moment.  Texts are   *)
(* left out, but for what the two filters and the router tell apart.       *)
(***************************************************************************)
EXTENDS PolicyEngine, Sequences, Naturals, FiniteSets

CONSTANTS Users,        \* clients other than the decision agent
          Sessions,     \* session ids
          Menu,         \* what a user may send
          Phi3Types,    \* what the model phi3 may answer the router
          Contexts,     \* numbers for the contexts that exist at a time
          Keys,         \* the external providers with an API key
          Budgets       \* bounds: how many requests the users send together, and how
                        \* many analyses the decision agent begins

None == "none"
Clients == Users \cup {"decision"}

\* What the filters tell apart in an input and in an output; a personal input is redacted.
Inputs == {"plain", "personal", "too large", "injection", "path traversal"}
Contents == {"prose", "json", "fenced json", "secret"}

GpuModels == {"llama3-8b", "codellama-13b"}
OpenAI == {"openai-gpt5", "openai-gpt45"}
ModelID == {"phi3-mini", "mistral-7b", "claude"} \cup GpuModels \cup OpenAI

\* TASK_TO_MODEL
Primary(type) ==
  CASE type \in {"classify_intent", "parse_log", "extract_entities", "summarize_short",
                 "validate_schema"} -> "phi3-mini"
    [] type \in {"classify_threat", "detect_anomaly", "analyze_attack", "score_risk",
                 "correlate_events"} -> "mistral-7b"
    [] type \in {"investigate", "explain", "compare_policies", "answer_soc", "draft_plan",
                 "analyze_graph"} -> "llama3-8b"
    [] type \in {"generate_rego", "generate_rego_test", "refactor_rego", "generate_script",
                 "explain_code"} -> "codellama-13b"
    [] type = "high_risk_decision" -> "claude"
    [] type \in {"complex_reasoning", "human_explanation"} -> "openai-gpt5"

Fallback(type) ==
  CASE type \in {"classify_intent", "parse_log", "validate_schema"} -> "mistral-7b"
    [] type \in {"extract_entities", "summarize_short", "explain_code"} -> "llama3-8b"
    [] Primary(type) = "mistral-7b" -> "llama3-8b"
    [] type = "high_risk_decision" -> "openai-gpt5"
    [] OTHER -> "claude"

\* MAX_TURNS_PER_MODEL; no entry for the models of OpenAI.
MaxTurns ==
  [m \in ModelID \ OpenAI |->
     CASE m = "phi3-mini" -> 3
       [] m = "mistral-7b" -> 6
       [] m = "llama3-8b" -> 8
       [] m = "codellama-13b" -> 12
       [] m = "claude" -> 50]

\* FAST_PATH_KEYWORDS and _heuristic_classify, as the types they lead to.
FastPathTypes ==
  {"generate_rego", "generate_rego_test", "refactor_rego", "generate_script", "classify_threat",
   "detect_anomaly", "analyze_attack", "score_risk", "correlate_events", "investigate",
   "explain", "analyze_graph", "draft_plan", "parse_log", "extract_entities",
   "summarize_short", "answer_soc", "high_risk_decision", "human_explanation"}

HeuristicTypes ==
  {"generate_rego", "classify_threat", "investigate", "parse_log", "complex_reasoning"}

TaskTypes ==
  FastPathTypes \cup HeuristicTypes \cup
  {"classify_intent", "validate_schema", "compare_policies", "explain_code"}

\* A request: keyword is the type of the first keyword found in it, or None, hint the
\* type the heuristics find; input, what the input filter
\* makes of its text; rehearsal, that it is a dry run of a tool; batch, the set with
\* the number of its tool calls, or {}.
Requests ==
  [keyword : FastPathTypes \cup {None}, hint : HeuristicTypes, session : Sessions \cup {None},
   force : ModelID \cup {None}, environment : Environments, format : {"text", "json"},
   input : Inputs, rehearsal : BOOLEAN, batch : {{}} \cup {{n} : n \in 0..3}, parallel : 0..3,
   generates : BOOLEAN]

ASSUME CompletionsAssumption ==
  /\ "decision" \notin Users
  /\ None \notin Sessions
  /\ Contexts \subseteq Nat \ {0}
  /\ Menu \subseteq Requests
  /\ Phi3Types \subseteq TaskTypes
  /\ Keys \subseteq {"anthropic", "openai"}
  /\ Budgets \subseteq [requests : Nat, panels : Nat]

VARIABLES store,   \* ContextWindowManager._store: the context of each session, or 0
          fresh,   \* fresh[x]: last_active of context x is within the time to live
          turns,   \* turns[x]: the turns of context x
          job,     \* job[c]: the request of client c in the server
          batch,   \* batch[c]: the tool calls of the batch of client c
          panel,   \* the completions of the decision agent's handler
          left     \* bound: what the users, and the decision agent, may still start

completionsVars == <<store, fresh, turns, job, batch, panel, left>>

Turns == [role : {"user", "assistant"}, of : Clients]
Opinions == [asked : ModelID, used : ModelID]

Quiet(reply, used, raised) ==
  [pc |-> "idle", ask |-> {}, primary |-> None, fallback |-> None, context |-> 0,
   window |-> <<>>, reply |-> reply, used |-> used, raised |-> raised]

NoBatch == [limit |-> 0, items |-> <<>>]
NoPanel == [script |-> <<>>, heard |-> <<>>, raised |-> {}]

CompletionsInit ==
  /\ store = [s \in Sessions |-> 0]
  /\ fresh = [x \in Contexts |-> FALSE]
  /\ turns = [x \in Contexts |-> <<>>]
  /\ job = [c \in Clients |-> Quiet(None, None, {})]
  /\ batch = [c \in Clients |-> NoBatch]
  /\ panel = NoPanel
  /\ left \in Budgets

\* The session has a context within its time to live.
Live(s) == store[s] # 0 /\ fresh[store[s]]

InUse == {store[s] : s \in Sessions} \cup {job[c].context : c \in Clients}

\* The response to c; raised are the models that raised on the way.
Replies(c, reply, used, raised) == job' = [job EXCEPT ![c] = Quiet(reply, used, raised)]

-----------------------------------------------------------------------------
\* Routing.

\* route, without the branches that RouterConfig() leaves dead.
Route(type) == [primary |-> Primary(type), fallback |-> Fallback(type)]

\* Mutant: the fallback of the route is kept when a model is forced.
ForcedKeepsFallback(d, force) == IF force = None THEN d ELSE [d EXCEPT !.primary = force]

\* Mutant: the forced model only becomes the fallback.
ForcedIsFallback(d, force) == IF force = None THEN d ELSE [d EXCEPT !.fallback = force]

\* _forced_model_decision
Forced(d, force) ==
  IF force = None THEN d
  ELSE [primary |-> force, fallback |-> IF force # "claude" THEN "claude" ELSE "openai-gpt5"]

\* _force_model_allowed: an advisory action, in the environment the request names.
ForceModelAllowed(q) ==
  Evaluate([dryRun |-> FALSE, class |-> "advisory", environment |-> q.environment,
            deps |-> Healthy, adminScope |-> TRUE, adminCompromised |-> FALSE,
            insiderDecay |-> FALSE, critical |-> FALSE, crownJewels |-> FALSE,
            enoughSignals |-> FALSE, wideBlast |-> FALSE, action |-> "other"],
           FALSE, "decision_committee") # "denied"

Last(s, n) == SubSeq(s, IF Len(s) > n THEN Len(s) - n + 1 ELSE 1, Len(s))

\* DryRunEngine.simulate describes the effects of the tool, or says that it has no dry
\* run; either way the request is answered.
Simulates(c) == Replies(c, "rehearsed", None, {})

\* The await on the primary model begins; window are the messages but a system prompt.
CallsModel(c, q, d, x, window) ==
  job' = [job EXCEPT ![c] = [pc |-> "primary", ask |-> {q}, primary |-> d.primary,
                             fallback |-> d.fallback, context |-> x, window |-> window,
                             reply |-> None, used |-> None, raised |-> {}]]

\* Without a session: the new message alone.
WithoutSession(c, q, d) ==
  /\ q.session = None
  /\ IF q.rehearsal
     THEN Simulates(c)
     ELSE CallsModel(c, q, d, 0, <<[role |-> "user", of |-> c]>>)
  /\ UNCHANGED <<store, fresh, turns>>

\* build_messages, or a KeyError when the model has no window; a dry run is answered
\* by the simulation and never stored.
Proceeds(c, q, d, x, past) ==
  IF d.primary \notin DOMAIN MaxTurns THEN Replies(c, "error", None, {})
  ELSE IF q.rehearsal THEN Simulates(c)
  ELSE CallsModel(c, q, d, x,
                  Last(past, MaxTurns[d.primary]) \o <<[role |-> "user", of |-> c]>>)

\* Mutant: load_context hands out a copy of the stored context.
LoadsCopy(c, q, d) ==
  /\ q.session # None
  /\ Live(q.session)
  /\ \E x \in Contexts \ InUse :
       /\ \A y \in Contexts \ InUse : x <= y
       /\ turns' = [turns EXCEPT ![x] = turns[store[q.session]]]
       /\ fresh' = [fresh EXCEPT ![x] = TRUE]
       /\ Proceeds(c, q, d, x, turns[store[q.session]])
  /\ UNCHANGED store

\* Mutant: the user's turn is appended before the model is asked.
LoadsAndAppends(c, q, d) ==
  /\ q.session # None
  /\ Live(q.session)
  /\ Proceeds(c, q, d, store[q.session], turns[store[q.session]])
  /\ turns' = [turns EXCEPT ![store[q.session]] = Append(@, [role |-> "user", of |-> c])]
  /\ UNCHANGED <<store, fresh>>

\* load_context finds the context of the session.
Loads(c, q, d) ==
  /\ q.session # None
  /\ Live(q.session)
  /\ Proceeds(c, q, d, store[q.session], turns[store[q.session]])
  /\ UNCHANGED <<store, fresh, turns>>

\* It finds none, or drops one past its time to live: the handler makes a new one,
\* which only save_context will put into the store.
Creates(c, q, d) ==
  /\ q.session # None
  /\ ~Live(q.session)
  /\ store' = [store EXCEPT ![q.session] = 0]
  /\ \E x \in Contexts \ InUse :
       /\ \A y \in Contexts \ InUse : x <= y
       /\ turns' = [turns EXCEPT ![x] = <<>>]
       /\ fresh' = [fresh EXCEPT ![x] = FALSE]
       /\ Proceeds(c, q, d, x, <<>>)

\* The handler from the classification of the task to its next await or its end.
Routed(c, q, type) ==
  IF q.force # None /\ ~ForceModelAllowed(q)
  THEN Replies(c, "denied", None, {}) /\ UNCHANGED <<store, fresh, turns>>
  ELSE LET d == Forced(Route(type), q.force)
       IN  WithoutSession(c, q, d) \/ Loads(c, q, d) \/ Creates(c, q, d)

-----------------------------------------------------------------------------
\* InputFilter.filter
InputPasses(input) == input \in {"plain", "personal"}

\* complete begins: the input filter, then a batch, the fast path, or an await on the
\* classification by phi3.
Begins(c, q) ==
  /\ job[c].pc = "idle" /\ batch[c] = NoBatch
  /\ \/ /\ ~InputPasses(q.input)
        /\ Replies(c, "refused", None, {})
        /\ UNCHANGED <<store, fresh, turns>>
     \/ /\ InputPasses(q.input) /\ q.batch # {}
        /\ job' = [job EXCEPT ![c] = [Quiet(None, None, {}) EXCEPT !.pc = "vetting", !.ask = {q}]]
        /\ UNCHANGED <<store, fresh, turns>>
     \/ /\ InputPasses(q.input) /\ q.batch = {} /\ q.keyword # None
        /\ Routed(c, q, q.keyword)
     \/ /\ InputPasses(q.input) /\ q.batch = {} /\ q.keyword = None
        /\ job' = [job EXCEPT ![c] = [Quiet(None, None, {}) EXCEPT !.pc = "classify", !.ask = {q}]]
        /\ UNCHANGED <<store, fresh, turns>>
  /\ UNCHANGED <<batch>>

UserAsks(c, q) ==
  /\ left.requests > 0
  /\ Begins(c, q)
  /\ left' = [left EXCEPT !.requests = @ - 1]
  /\ UNCHANGED panel

\* phi3 names a type, or anything else happens and the heuristics choose.
Classified(c) ==
  /\ job[c].pc = "classify"
  /\ \E q \in job[c].ask : \E type \in Phi3Types \cup {q.hint} : Routed(c, q, type)
  /\ UNCHANGED <<batch, panel, left>>

\* The stored context passes its time to live.
Expires(s) ==
  /\ Live(s)
  /\ fresh' = [fresh EXCEPT ![store[s]] = FALSE]
  /\ UNCHANGED <<store, turns, job, batch, panel, left>>

-----------------------------------------------------------------------------
\* Models.  What a call may answer; without a key an external model answers a fixed
\* text, and cannot fail.
Asked(c) == IF job[c].pc = "primary" THEN job[c].primary ELSE job[c].fallback

VllmOutputs == Contents
ClaudeOutputs == IF "anthropic" \in Keys THEN Contents ELSE {"prose"}
OpenAIOutputs == IF "openai" \in Keys THEN Contents ELSE {"prose"}

\* _call_model
Outputs(model) ==
  CASE model = "claude" -> ClaudeOutputs
    [] model \in OpenAI -> OpenAIOutputs
    [] OTHER -> VllmOutputs

Offline(model) ==
  \/ model = "claude" /\ "anthropic" \notin Keys
  \/ model \in OpenAI /\ "openai" \notin Keys

\* OutputFilter.filter: TRUE when it lets the output through.
OutputPasses(content, format) ==
  /\ content # "secret"
  /\ format = "json" => content \in {"json", "fenced json"}

\* The two turns are appended to the context the handler holds, and it is stored.
Remembers(c, q) ==
  LET x == job[c].context
  IN  IF x = 0
      THEN UNCHANGED <<store, fresh, turns>>
      ELSE /\ turns' = [turns EXCEPT ![x] = @ \o <<[role |-> "user", of |-> c],
                                                   [role |-> "assistant", of |-> c]>>]
           /\ fresh' = [fresh EXCEPT ![x] = TRUE]
           /\ store' = [store EXCEPT ![q.session] = x]

\* The model answers; an output the filter blocks ends in a 500 and is not remembered.
Answers(c) ==
  /\ job[c].pc \in {"primary", "fallback"}
  /\ \E q \in job[c].ask, content \in Outputs(Asked(c)) :
       IF OutputPasses(content, q.format)
       THEN Replies(c, "answered", Asked(c), job[c].raised) /\ Remembers(c, q)
       ELSE Replies(c, "withheld", None, job[c].raised) /\ UNCHANGED <<store, fresh, turns>>
  /\ UNCHANGED <<batch, panel, left>>

\* It raises, or does not answer within its 30 s: the fallback gets the same messages.
Raises(c) ==
  /\ job[c].pc \in {"primary", "fallback"}
  /\ ~Offline(Asked(c))
  /\ LET raised == job[c].raised \cup {Asked(c)}
     IN  IF job[c].pc = "primary" /\ job[c].fallback # job[c].primary
         THEN job' = [job EXCEPT ![c].pc = "fallback", ![c].raised = raised]
         ELSE Replies(c, "unavailable", None, raised)
  /\ UNCHANGED <<store, fresh, turns, batch, panel, left>>

-----------------------------------------------------------------------------
\* Batches: the item of a tool call waits for the semaphore, is checked by Sentinel once
\* more, and runs.
Finished == {"completed", "blocked", "late", "raised"}
Items(c) == DOMAIN batch[c].items

\* Mutant: a blocked call never leaves the semaphore.
HoldersLeaked(c) == {i \in Items(c) : batch[c].items[i] \in {"checking", "running", "blocked"}}
Holders(c) == {i \in Items(c) : batch[c].items[i] \in {"checking", "running"}}

SetItem(c, i, state) == batch' = [batch EXCEPT ![c].items[i] = state]

\* The semaphore of process: MAX_PARALLEL by hardware.
Limit(q) ==
  LET most == IF q.generates THEN 8 ELSE 4 IN IF q.parallel < most THEN q.parallel ELSE most

\* The first checks of all calls are in: more than 30 % blocked cancel the batch.
BatchVetted(c) ==
  /\ job[c].pc = "vetting"
  /\ \E q \in job[c].ask : \E n \in q.batch : \E blocked \in SUBSET (1..n) :
       IF 10 * Cardinality(blocked) > 3 * n
       THEN Replies(c, "cancelled", None, {}) /\ UNCHANGED batch
       ELSE /\ job' = [job EXCEPT ![c].pc = "batch"]
            /\ batch' = [batch EXCEPT ![c] = [limit |-> Limit(q),
                                              items |-> [i \in 1..n |-> "waiting"]]]
  /\ UNCHANGED <<store, fresh, turns, panel, left>>

\* The semaphore is fair: the calls take it in their order.
ItemStarts(c) ==
  /\ Cardinality(Holders(c)) < batch[c].limit
  /\ \E i \in Items(c) :
       /\ batch[c].items[i] = "waiting"
       /\ \A j \in 1..(i - 1) : batch[c].items[j] # "waiting"
       /\ SetItem(c, i, "checking")
  /\ UNCHANGED <<store, fresh, turns, job, panel, left>>

\* The second check, then execute_tool: an answer, a timeout, or an exception, which
\* gather hands to the handler at once while the other calls go on.
ItemProceeds(c, i) ==
  /\ \/ /\ batch[c].items[i] = "checking"
        /\ \E state \in {"running", "blocked"} : SetItem(c, i, state)
        /\ UNCHANGED job
     \/ /\ batch[c].items[i] = "running"
        /\ \E state \in {"completed", "late"} : SetItem(c, i, state)
        /\ UNCHANGED job
     \/ /\ batch[c].items[i] \in {"checking", "running"}
        /\ SetItem(c, i, "raised")
        /\ IF job[c].pc = "batch" THEN Replies(c, "error", None, {}) ELSE UNCHANGED job
  /\ UNCHANGED <<store, fresh, turns, panel, left>>

\* All calls are done, or those of a batch that raised (bound: only then does the client
\* ask again).
BatchEnds(c) ==
  /\ batch[c] # NoBatch \/ job[c].pc = "batch"
  /\ \A i \in Items(c) : batch[c].items[i] \in Finished
  /\ IF job[c].pc = "batch" THEN Replies(c, "batch", None, {}) ELSE UNCHANGED job
  /\ batch' = [batch EXCEPT ![c] = NoBatch]
  /\ UNCHANGED <<store, fresh, turns, panel, left>>

-----------------------------------------------------------------------------
\* The decision agent: the models a handler asks, in order.
DeepAnalysis == <<"claude", "openai-gpt5", "openai-gpt45">>
Committee == Append(DeepAnalysis, "claude")

\* The handlers of response decisions and of explanations take the deep analysis when
\* the task wants it; an assessment, once its tools have answered, the committee.
Scripts == {DeepAnalysis, Committee}

\* A handler begins; a task may come again after it raised.
PanelConvenes(script) ==
  /\ panel = NoPanel
  /\ left.panels > 0
  /\ left' = [left EXCEPT !.panels = @ - 1]
  /\ panel' = [NoPanel EXCEPT !.script = script]
  /\ UNCHANGED <<store, fresh, turns, job, batch>>

PanelRequest(model) ==
  [keyword |-> "high_risk_decision", hint |-> "complex_reasoning", session |-> None,
   force |-> model, environment |-> "preprod", format |-> "text", input |-> "plain",
   rehearsal |-> FALSE, batch |-> {}, parallel |-> 0, generates |-> FALSE]

\* MCPClient.complete
PanelAsks ==
  /\ Len(panel.heard) < Len(panel.script)
  /\ job["decision"].reply = None
  /\ Begins("decision", PanelRequest(panel.script[Len(panel.heard) + 1]))
  /\ UNCHANGED <<panel, left>>

\* The next answer; a status other than 200 raises in the handler.
PanelHears ==
  /\ job["decision"].reply # None
  /\ panel' = IF job["decision"].reply = "answered"
              THEN [panel EXCEPT
                      !.heard = Append(@, [asked |-> panel.script[Len(panel.heard) + 1],
                                           used |-> job["decision"].used]),
                      !.raised = @ \cup job["decision"].raised]
              ELSE NoPanel
  /\ Replies("decision", None, None, {})
  /\ UNCHANGED <<store, fresh, turns, batch, left>>

\* The result is published.
PanelReports ==
  /\ panel # NoPanel
  /\ Len(panel.heard) = Len(panel.script)
  /\ panel' = NoPanel
  /\ UNCHANGED <<store, fresh, turns, job, batch, left>>

-----------------------------------------------------------------------------
Handler(c) == Classified(c) \/ Answers(c) \/ Raises(c)
Batch(c) == BatchVetted(c) \/ ItemStarts(c) \/ (\E i \in Items(c) : ItemProceeds(c, i)) \/ BatchEnds(c)

CompletionsNext ==
  \/ \E c \in Users, q \in Menu : UserAsks(c, q)
  \/ \E c \in Clients : Handler(c) \/ Batch(c)
  \/ \E s \in Sessions : Expires(s)
  \/ \E script \in Scripts : PanelConvenes(script)
  \/ PanelAsks \/ PanelHears \/ PanelReports

\* Every await of a handler ends: the calls of models, tools and Sentinel have timeouts.
CompletionsFairness == \A c \in Clients : WF_completionsVars(Handler(c)) /\ WF_completionsVars(Batch(c))

CompletionsSpec == CompletionsInit /\ [][CompletionsNext]_completionsVars /\ CompletionsFairness

-----------------------------------------------------------------------------
CompletionsTypeOK ==
  /\ store \in [Sessions -> Contexts \cup {0}]
  /\ fresh \in [Contexts -> BOOLEAN]
  /\ turns \in [Contexts -> Seq(Turns)]
  /\ \A c \in Clients :
       /\ job[c].pc \in {"idle", "classify", "primary", "fallback", "vetting", "batch"}
       /\ job[c].ask \subseteq Requests
       /\ IF job[c].pc = "idle" THEN job[c].ask = {} ELSE Cardinality(job[c].ask) = 1
       /\ {job[c].primary, job[c].fallback, job[c].used} \subseteq ModelID \cup {None}
       /\ job[c].context \in Contexts \cup {0}
       /\ job[c].window \in Seq(Turns)
       /\ job[c].raised \subseteq ModelID
       /\ batch[c].limit \in 0..8 /\ Len(batch[c].items) \in 0..3
  /\ panel.heard \in Seq(Opinions) /\ panel.raised \subseteq ModelID
  /\ left \in [requests : Nat, panels : Nat]

\* The session s is settled: it has a context within its time to live, and whoever
\* is at work on the session holds that one.
Holding(s) == {c \in Clients : job[c].context # 0 /\ \E q \in job[c].ask : q.session = s}
Settled(s) ==
  /\ Live(s)
  /\ \A c \in Holding(s) : job[c].context = store[s]

\* Once a conversation is settled it stays so, and keeps every turn, however its
\* requests overlap, fail or are withheld, until it passes its time to live: only two
\* first requests at a time, or a request older than an expiry, lose turns
\* (load_context, save_context).
Grows(s) ==
  /\ Settled(s)'
  /\ store'[s] = store[s]
  /\ Len(turns'[store[s]]) >= Len(turns[store[s]])
  /\ SubSeq(turns'[store[s]], 1, Len(turns[store[s]])) = turns[store[s]]

SettledGrows ==
  [][\A s \in Sessions : Settled(s) => Grows(s) \/ Expires(s)]_completionsVars

\* In a context every question of a user is followed by its own answer, whatever other
\* requests of the session were answered in between (complete).
TurnsArePaired ==
  \A x \in Contexts : \A i \in DOMAIN turns[x] :
    IF i % 2 = 1
    THEN /\ turns[x][i].role = "user"
         /\ i < Len(turns[x]) /\ turns[x][i + 1] = [role |-> "assistant", of |-> turns[x][i].of]
    ELSE turns[x][i].role = "assistant"

\* One model that fails never fails a completion, forced or not: a 500 for want of a
\* model takes two that raised (execute_with_fallback, _forced_model_decision).
OneFailureIsAbsorbed ==
  \A c \in Clients : job[c].reply = "unavailable" => Cardinality(job[c].raised) = 2

\* The opinions the decision agent names are those of three models, unless one of them
\* raised while it was asked (_committee, _run_deep_analysis).
CommitteeIsPlural ==
  panel.raised = {} =>
    \A i, j \in 1..Len(panel.heard) :
      panel.script[i] # panel.script[j] => panel.heard[i].used # panel.heard[j].used

\* Every request is answered: the semaphore of a batch lets every call in, unless the
\* client asked for none at a time.
Starved(c) == job[c].pc = "batch" /\ batch[c].limit = 0 /\ batch[c].items # <<>>
RequestsEnd == \A c \in Clients : (job[c].pc # "idle" /\ ~Starved(c)) ~> (job[c].pc = "idle" \/ Starved(c))
=============================================================================
