--------------------------- MODULE McpServerProofs --------------------------
(***************************************************************************)
(* Proofs about cortex-mcp-server.                                         *)
(*                                                                         *)
(* AgentTasks, for any producers, operators, callers and numbers of        *)
(* messages: an answer goes to the question it was asked for, and an       *)
(* unanswered task of a durable agent is in the stream.  Nothing tells the *)
(* answers apart but the message they answer, so that the invariant says   *)
(* where each message comes from, that a number is that of one message,    *)
(* and what the handler that holds one has still to ask.                   *)
(*                                                                         *)
(* Completions, for any clients, sessions, menus and keys: conversations   *)
(* stay in pairs and keep what they hold, one failing model is absorbed,   *)
(* and the committee is plural.  The invariant says what each handler      *)
(* knows of the models it asked, and that the decision agent's call is of  *)
(* the next model of its script.                                           *)
(***************************************************************************)
EXTENDS AgentTasks, Completions, FiniteSetTheorems, SequenceTheorems, TLAPS

-----------------------------------------------------------------------------
(* The policy the tools are run under: PolicyEngine.                           *)

\* f asks for what e asks for, on no better grounds.
NoBetter(f, e) ==
  /\ f.action = e.action /\ f.class = e.class
  /\ f.environment = e.environment /\ f.dryRun = e.dryRun
  /\ \A d \in Dependencies : /\ f.deps[d] = "healthy" => e.deps[d] = "healthy"
                             /\ e.deps[d] = "unavailable" => f.deps[d] = "unavailable"
  /\ f.adminScope => e.adminScope
  /\ f.enoughSignals => e.enoughSignals
  /\ e.adminCompromised => f.adminCompromised
  /\ e.insiderDecay => f.insiderDecay
  /\ e.critical => f.critical
  /\ e.crownJewels => f.crownJewels
  /\ e.wideBlast => f.wideBlast

\* Worse grounds never let an action run that better ones did not: no dependency lost, no
\* suspicion raised, no scope or signal missing and no asset at stake turns a decision into
\* "allowed", whatever early return of evaluate it skips (PolicyEngine.evaluate).
THEOREM WorseIsNeverAllowed ==
  ASSUME NEW e \in Envelopes, NEW f \in Envelopes, NoBetter(f, e),
         NEW asks \in BOOLEAN, NEW capability \in DOMAIN Registry,
         Evaluate(f, asks, capability) = "allowed"
  PROVE  Evaluate(e, asks, capability) = "allowed"
BY DEF Evaluate, NoBetter, BlockIrreversible, GraphDegraded, Envelopes, Dependencies

-----------------------------------------------------------------------------
(* Tasks between agents: AgentTasks.                                           *)

Containments == {"contain_machine", "contain_account"}
Calls == [asked : Messages, answer : SUBSET Messages]
Handlers == [pc : {"idle", "work", "ack"}, task : SUBSET Messages, todo : Seq(Types)]

TasksTyped ==
  /\ stored \in [Agents -> SUBSET Messages]
  /\ queue \in [Agents -> Seq(Messages)]
  /\ agent \in [Agents -> Handlers]
  /\ call \in [Callers -> SUBSET Calls]
  /\ submitted \in [Tasks -> SUBSET Types]

\* Where a message comes from: a tool call with a number of its own, one its caller named,
\* a task of a producer, or the question a containment asks with the task_id it was given.
Grounded(m) ==
  \/ m.id = m.n /\ m.type \in ToolTypes
  \/ m.id \in Names /\ m.of = m.id /\ m.step = 0 /\ m.type \in ToolTypes
  \/ m.id \in Tasks /\ m.of = m.id /\ m.step = 0 /\ submitted[m.id] = {m.type}
  \/ /\ m.id \in Tasks /\ m.of = m.id /\ m.step = 1 /\ m.type = "analyze"
     /\ \E type \in Containments : submitted[m.id] = {type}

MessagesGrounded == \A m \in Held : Grounded(m)
NumbersDiffer == \A m1, m2 \in Held : m1.n = m2.n => m1 = m2

\* What a handler has still to ask: reads, and last the analysis of a containment.
IsPlanOf(todo, m) ==
  /\ Len(todo) <= 3
  /\ \A i \in 1 .. Len(todo) :
       /\ todo[i] \in {"read", "analyze"}
       /\ todo[i] = "analyze" => i = Len(todo) /\ m.type \in Containments

\* A message is on its subject or at its agent, and an agent has one task at a time.
InPlace ==
  \A s \in Agents :
    /\ \A m \in stored[s] \cup Range(queue[s]) \cup agent[s].task : Subject(m.type) = s
    /\ \A m1, m2 \in agent[s].task : m1 = m2

PlansHold == \A s \in Agents : \A m \in agent[s].task : IsPlanOf(agent[s].todo, m)

CallersWork ==
  \A s \in Agents \cap Callers : call[s] # {} => agent[s].pc = "work" /\ agent[s].todo # <<>>

\* A message answered is one whose result was published.
AnswersCounted ==
  \A s \in Agents : agent[s].pc = "ack" =>
    \A m \in agent[s].task : m.step = 0 /\ m.id \in Tasks => m.id \in answered

StoredTill ==
  \A t \in Tasks \ answered : \A type \in submitted[t] :
    Subject(type) \in Durable => \E m \in stored[Subject(type)] : m.id = t /\ m.step = 0

TasksInv ==
  /\ TasksTyped /\ MessagesGrounded /\ NumbersDiffer /\ InPlace /\ PlansHold /\ CallersWork
  /\ AnswersCounted /\ StoredTill /\ AnswerFitsQuestion

(* Subjects and messages.                                                     *)
LEMMA SubjectIsAgent == \A type : Subject(type) \in Agents
  BY DEF Subject, Agents

LEMMA HeldIs ==
  /\ \A m : m \in Held <=>
       \/ \E s \in Agents : m \in stored[s] \/ m \in Range(queue[s]) \/ m \in agent[s].task
       \/ \E c \in Callers : \E k \in call[c] : m = k.asked
  /\ \A m : m \in Held' <=>
       \/ \E s \in Agents : m \in stored'[s] \/ m \in Range(queue'[s]) \/ m \in agent'[s].task
       \/ \E c \in Callers : \E k \in call'[c] : m = k.asked
<1>1. \A m : m \in InFlight <=>
        \E s \in Agents : m \in stored[s] \/ m \in Range(queue[s]) \/ m \in agent[s].task
  BY DEF InFlight
<1>2. \A m : m \in InFlight' <=>
        \E s \in Agents : m \in stored'[s] \/ m \in Range(queue'[s]) \/ m \in agent'[s].task
  BY DEF InFlight
<1>3. QED
  BY <1>1, <1>2 DEF Held

LEMMA HeldTyped ==
  ASSUME TasksTyped, NEW m \in Held
  PROVE  m \in Messages
<1>1. CASE \E s \in Agents : m \in stored[s]
  BY <1>1 DEF TasksTyped
<1>2. CASE \E s \in Agents : m \in agent[s].task
  BY <1>2 DEF TasksTyped, Handlers
<1>3. CASE \E s \in Agents : m \in Range(queue[s])
  <2>1. PICK s \in Agents : m \in Range(queue[s])
    BY <1>3
  <2>2. queue[s] \in Seq(Messages)
    BY DEF TasksTyped
  <2>3. QED
    BY <2>1, <2>2, RangeOfSeq
<1>4. CASE \E c \in Callers : \E k \in call[c] : m = k.asked
  BY <1>4 DEF TasksTyped, Calls
<1>5. QED
  BY <1>1, <1>2, <1>3, <1>4, HeldIs

\* A number given to a new message is one that no message held refers to.
LEMMA FreshIsFree ==
  ASSUME TasksAssumption, TasksTyped, NEW type, Room(type)
  PROVE  /\ Fresh \in 1 .. MaxMessages
         /\ \A m \in Held : m.n # Fresh /\ m.id # Fresh /\ m.of # Fresh
<1>1. MaxMessages \in Nat
  BY DEF TasksAssumption
<1>2. Free \subseteq 1 .. MaxMessages
  BY DEF Free
<1>3. IsFiniteSet(Free)
  <2>1. IsFiniteSet(1 .. MaxMessages)
    BY <1>1, FS_Interval
  <2>2. QED
    BY <1>2, <2>1, FS_Subset
<1>4. Free # {}
  <2>1. Cardinality(Free) > 0
    <3>1. Cardinality(Free) \in Nat
      BY <1>3, FS_CardinalityType
    <3>2. QED
      BY <3>1 DEF Room
  <2>2. QED
    BY <1>3, <2>1, FS_EmptySet
<1>5. Fresh \in Free
  BY <1>4 DEF Fresh
<1>6. QED
  BY <1>2, <1>5 DEF Free

LEMMA RangeOfAppend ==
  ASSUME NEW S, NEW q \in Seq(S), NEW m \in S
  PROVE  /\ Append(q, m) \in Seq(S)
         /\ \A x : x \in Range(Append(q, m)) => x \in Range(q) \/ x = m
<1>1. PICK r : r = Append(q, m)
  OBVIOUS
<1>2. /\ r \in Seq(S) /\ Len(r) = Len(q) + 1 /\ r[Len(q) + 1] = m
      /\ \A i \in 1 .. Len(q) : r[i] = q[i]
  BY <1>1, AppendProperties
<1>3. Range(r) = {r[i] : i \in 1 .. Len(r)} /\ Range(q) = {q[i] : i \in 1 .. Len(q)}
  BY <1>2, RangeEquality
<1>4. Len(q) \in Nat
  BY LenProperties
<1>5. \A i \in 1 .. Len(r) : i \in 1 .. Len(q) \/ i = Len(q) + 1
  BY <1>2, <1>4
<1>6. QED
  BY <1>1, <1>2, <1>3, <1>5

LEMMA RangeOfTail ==
  ASSUME NEW S, NEW q \in Seq(S), q # <<>>
  PROVE  /\ Head(q) \in S /\ Head(q) \in Range(q)
         /\ Tail(q) \in Seq(S) /\ Range(Tail(q)) \subseteq Range(q)
<1>1. /\ Head(q) \in S /\ Tail(q) \in Seq(S) /\ Len(Tail(q)) = Len(q) - 1
      /\ \A i \in 1 .. Len(Tail(q)) : Tail(q)[i] = q[i + 1]
  BY HeadTailProperties
<1>2. PICK t : t = Tail(q)
  OBVIOUS
<1>3. t \in Seq(S)
  BY <1>1, <1>2
<1>4. Range(t) = {t[i] : i \in 1 .. Len(t)} /\ Range(q) = {q[i] : i \in 1 .. Len(q)}
  BY <1>3, RangeEquality
<1>5. Len(q) \in Nat /\ Len(q) >= 1
  BY EmptySeq, LenProperties
<1>6. \A i \in 1 .. Len(t) : i + 1 \in 1 .. Len(q) /\ t[i] = q[i + 1]
  BY <1>1, <1>2, <1>5
<1>7. Head(q) = q[1] /\ 1 \in 1 .. Len(q)
  BY <1>5
<1>8. QED
  BY <1>1, <1>2, <1>4, <1>6, <1>7

LEMMA Sends ==
  ASSUME TasksTyped, NEW m \in Messages, Send(m)
  PROVE  /\ stored' \in [Agents -> SUBSET Messages]
         /\ queue' \in [Agents -> Seq(Messages)]
         /\ \A s \in Agents : stored[s] \subseteq stored'[s]
         /\ \A s \in Agents : \A x : x \in stored'[s] =>
              x \in stored[s] \/ (x = m /\ s = Subject(m.type))
         /\ \A s \in Agents : \A x : x \in Range(queue'[s]) =>
              x \in Range(queue[s]) \/ (x = m /\ s = Subject(m.type))
         /\ Subject(m.type) \in Durable => m \in stored'[Subject(m.type)]
<1>1. PICK s0 : s0 = Subject(m.type)
  OBVIOUS
<1>2. s0 \in Agents
  BY <1>1, SubjectIsAgent
<1>3. /\ stored' \in [Agents -> SUBSET Messages]
      /\ \A s \in Agents : stored[s] \subseteq stored'[s]
      /\ \A s \in Agents : \A x : x \in stored'[s] => x \in stored[s] \/ (x = m /\ s = s0)
      /\ s0 \in Durable => m \in stored'[s0]
  <2>1. CASE s0 \in Durable
    <3>1. stored' = [stored EXCEPT ![s0] = stored[s0] \cup {m}]
      BY <1>1, <2>1 DEF Send
    <3>2. /\ stored' \in [Agents -> SUBSET Messages]
          /\ \A s \in Agents : stored'[s] = IF s = s0 THEN stored[s0] \cup {m} ELSE stored[s]
      BY <1>2, <3>1 DEF TasksTyped
    <3>3. QED
      BY <1>2, <3>2
  <2>2. CASE s0 \notin Durable
    BY <1>1, <2>2 DEF Send, TasksTyped
  <2>3. QED
    BY <2>1, <2>2
<1>4. /\ queue' \in [Agents -> Seq(Messages)]
      /\ \A s \in Agents : \A x : x \in Range(queue'[s]) =>
           x \in Range(queue[s]) \/ (x = m /\ s = s0)
  <2>1. CASE consumer[s0] = "plain"
    <3>1. queue' = [queue EXCEPT ![s0] = Append(@, m)]
      BY <1>1, <2>1 DEF Send
    <3>2. queue[s0] \in Seq(Messages)
      BY <1>2 DEF TasksTyped
    <3>3. PICK q : q = Append(queue[s0], m)
      OBVIOUS
    <3>4. q \in Seq(Messages) /\ \A x : x \in Range(q) => x \in Range(queue[s0]) \/ x = m
      BY <3>2, <3>3, RangeOfAppend
    <3>5. queue' = [queue EXCEPT ![s0] = q]
      BY <3>1, <3>3
    <3>6. /\ queue' \in [Agents -> Seq(Messages)]
          /\ \A s \in Agents : queue'[s] = IF s = s0 THEN q ELSE queue[s]
      BY <1>2, <3>4, <3>5 DEF TasksTyped
    <3>7. QED
      BY <3>4, <3>6
  <2>2. CASE consumer[s0] # "plain"
    BY <1>1, <2>2 DEF Send, TasksTyped
  <2>3. QED
    BY <2>1, <2>2
<1>5. QED
  BY <1>1, <1>3, <1>4

(* Messages that are held no longer, and one that is new.                      *)
LEMMA HeldLess ==
  ASSUME MessagesGrounded, NumbersDiffer, Held' \subseteq Held, submitted' = submitted
  PROVE  MessagesGrounded' /\ NumbersDiffer'
<1>1. \A m : Grounded(m)' <=> Grounded(m)
  BY DEF Grounded
<1>2. QED
  BY <1>1 DEF MessagesGrounded, NumbersDiffer

LEMMA HeldMore ==
  ASSUME MessagesGrounded, NumbersDiffer, NEW new, Held' \subseteq Held \cup {new},
         Grounded(new)', \A m \in Held : m.n # new.n,
         \A m \in Held : Grounded(m) => Grounded(m)'
  PROVE  MessagesGrounded' /\ NumbersDiffer'
<1>1. MessagesGrounded'
  BY DEF MessagesGrounded
<1>2. NumbersDiffer'
  BY DEF NumbersDiffer
<1>3. QED
  BY <1>1, <1>2

\* Two messages held that carry one task_id on one subject are the same question, unless a
\* caller named them; and one message, when the server did.
LEMMA SameQuestion ==
  ASSUME TasksAssumption, TasksTyped, MessagesGrounded, NumbersDiffer,
         NEW m1 \in Held, NEW m2 \in Held, m1.id = m2.id, Subject(m1.type) = Subject(m2.type)
  PROVE  /\ m1.of = m2.of /\ m1.step = m2.step
         /\ m1.id \notin Names => m1.type = m2.type
         /\ m2.id = m2.n => m1 = m2
<1>1. m1 \in Messages /\ m2 \in Messages
  BY HeldTyped
<1>2. \A m \in {m1, m2} : m.n \notin Tasks /\ m.n \notin Names
  <2>1. m1.n \in 1 .. MaxMessages /\ m2.n \in 1 .. MaxMessages
    BY <1>1 DEF Messages
  <2>2. QED
    BY <2>1 DEF TasksAssumption
<1>3. Grounded(m1) /\ Grounded(m2)
  BY DEF MessagesGrounded
<1>4. CASE m1.id \notin Tasks \cup Names
  <2>1. m1.id = m1.n /\ m2.id = m2.n
    BY <1>3, <1>4 DEF Grounded
  <2>2. m1 = m2
    BY <2>1 DEF NumbersDiffer
  <2>3. QED
    BY <2>2
<1>5. CASE m1.id \in Tasks
  <2>1. m1.id \notin Names
    BY <1>5 DEF TasksAssumption
  <2>2. m1.of = m2.of /\ m2.id # m2.n
    BY <1>2, <1>3, <1>5, <2>1 DEF Grounded
  <2>3. \A type \in Containments : Subject(type) = "remediation"
    BY DEF Containments, Subject
  <2>4. Subject("analyze") = "decision"
    BY DEF Subject
  <2>5. m1.step = m2.step /\ m1.type = m2.type
    BY <1>2, <1>3, <1>5, <2>1, <2>3, <2>4 DEF Grounded
  <2>6. QED
    BY <2>2, <2>5
<1>6. CASE m1.id \in Names
  <2>1. m1.id \notin Tasks
    BY <1>6 DEF TasksAssumption
  <2>2. m1.of = m2.of /\ m1.step = m2.step /\ m2.id # m2.n
    BY <1>2, <1>3, <1>6, <2>1 DEF Grounded
  <2>3. QED
    BY <1>6, <2>2
<1>7. QED
  BY <1>4, <1>5, <1>6

(* The plans of the handlers.                                                  *)
LEMMA PlanIsPlan == \A m : Plan(m.type) \in Seq(Types) /\ IsPlanOf(Plan(m.type), m)
<1> SUFFICES ASSUME NEW m PROVE Plan(m.type) \in Seq(Types) /\ IsPlanOf(Plan(m.type), m)
  OBVIOUS
<1>1. {"read", "analyze"} \subseteq Types /\ "read" # "analyze"
  BY DEF Types
<1>2. CASE m.type = "assess"
  <2>1. PICK p : p = <<"read", "read", "read">>
    OBVIOUS
  <2>2. p \in Seq(Types) /\ Len(p) = 3 /\ p[1] = "read" /\ p[2] = "read" /\ p[3] = "read"
    BY <1>1, <2>1
  <2>3. IsPlanOf(p, m)
    BY <1>1, <2>2 DEF IsPlanOf
  <2>4. QED
    BY <1>2, <2>1, <2>2, <2>3 DEF Plan, AssessPlan
<1>3. CASE m.type = "contain_machine"
  <2>1. PICK p : p = <<"analyze">>
    OBVIOUS
  <2>2. p \in Seq(Types) /\ Len(p) = 1 /\ p[1] = "analyze"
    BY <1>1, <2>1
  <2>3. IsPlanOf(p, m)
    BY <1>1, <1>3, <2>2 DEF IsPlanOf, Containments
  <2>4. Plan(m.type) = p
    BY <1>3, <2>1 DEF Plan, QuarantinePlan
  <2>5. QED
    BY <2>2, <2>3, <2>4
<1>4. CASE m.type = "contain_account"
  <2>1. PICK p : p = <<"read", "read", "analyze">>
    OBVIOUS
  <2>2. p \in Seq(Types) /\ Len(p) = 3 /\ p[1] = "read" /\ p[2] = "read" /\ p[3] = "analyze"
    BY <1>1, <2>1
  <2>3. IsPlanOf(p, m)
    BY <1>1, <1>4, <2>2 DEF IsPlanOf, Containments
  <2>4. QED
    BY <1>4, <2>1, <2>2, <2>3 DEF Plan, ContainmentPlan
<1>5. CASE m.type \notin {"assess", "contain_machine", "contain_account"}
  <2>1. Plan(m.type) = <<>>
    BY <1>5 DEF Plan
  <2>2. QED
    BY <2>1 DEF IsPlanOf
<1>6. QED
  BY <1>2, <1>3, <1>4, <1>5

LEMMA TailOfPlan ==
  ASSUME NEW todo \in Seq(Types), todo # <<>>, NEW m, IsPlanOf(todo, m)
  PROVE  Tail(todo) \in Seq(Types) /\ IsPlanOf(Tail(todo), m)
<1>1. /\ Tail(todo) \in Seq(Types) /\ Len(Tail(todo)) = Len(todo) - 1
      /\ \A i \in 1 .. Len(Tail(todo)) : Tail(todo)[i] = todo[i + 1]
  BY HeadTailProperties
<1>2. PICK t : t = Tail(todo)
  OBVIOUS
<1>3. Len(todo) \in Nat /\ Len(t) \in Nat /\ Len(t) = Len(todo) - 1
  BY <1>1, <1>2, LenProperties
<1>4. \A i \in 1 .. Len(t) : i + 1 \in 1 .. Len(todo) /\ t[i] = todo[i + 1]
  BY <1>1, <1>2, <1>3
<1>5. IsPlanOf(t, m)
  <2>1. Len(todo) <= 3
    BY DEF IsPlanOf
  <2>2. Len(t) <= 3
    BY <1>3, <2>1
  <2>3. SUFFICES ASSUME NEW i \in 1 .. Len(t)
                 PROVE  /\ t[i] \in {"read", "analyze"}
                        /\ t[i] = "analyze" => i = Len(t) /\ m.type \in Containments
    BY <2>2 DEF IsPlanOf
  <2>4. t[i] = todo[i + 1] /\ i + 1 \in 1 .. Len(todo)
    BY <1>4
  <2>5. todo[i + 1] = "analyze" => i + 1 = Len(todo)
    BY <2>4 DEF IsPlanOf
  <2>6. i + 1 = Len(todo) => i = Len(t)
    BY <1>3
  <2>7. QED
    BY <2>4, <2>5, <2>6 DEF IsPlanOf
<1>6. QED
  BY <1>1, <1>2, <1>5

-----------------------------------------------------------------------------
(* Each step keeps the invariant.                                              *)
LEMMA InPlaceLess ==
  ASSUME InPlace,
         \A s \in Agents : /\ stored'[s] \subseteq stored[s]
                          /\ Range(queue'[s]) \subseteq stored[s] \cup Range(queue[s])
                          /\ agent'[s].task \subseteq agent[s].task
  PROVE  InPlace'
BY DEF InPlace

LEMMA InPlaceMore ==
  ASSUME InPlace, agent' = agent, NEW new,
         \A s \in Agents : \A x : x \in stored'[s] =>
              x \in stored[s] \/ (x = new /\ s = Subject(new.type)),
         \A s \in Agents : \A x : x \in Range(queue'[s]) =>
              x \in Range(queue[s]) \/ (x = new /\ s = Subject(new.type))
  PROVE  InPlace'
BY DEF InPlace

LEMMA SubmitKeeps ==
  ASSUME TasksAssumption, TasksInv, NEW t \in Tasks, NEW type \in Produced, Submit(t, type)
  PROVE  TasksInv'
<1>1. PICK new : new = [n |-> Fresh, id |-> t, type |-> type, of |-> t, step |-> 0]
  OBVIOUS
<1> TasksTyped /\ MessagesGrounded /\ NumbersDiffer
  BY DEF TasksInv
<1>2. /\ Fresh \in 1 .. MaxMessages
      /\ \A m \in Held : m.n # Fresh /\ m.id # Fresh /\ m.of # Fresh
  BY FreshIsFree DEF Submit
<1>3. new \in Messages
  BY <1>1, <1>2 DEF Messages, Ids, Types, Produced
<1>4. /\ submitted[t] = {} /\ submitted' = [submitted EXCEPT ![t] = {type}] /\ Send(new)
      /\ agent' = agent /\ call' = call /\ answered' = answered
  BY <1>1 DEF Submit
<1>5. new.n = Fresh /\ new.id = t /\ new.type = type /\ new.of = t /\ new.step = 0
  BY <1>1
<1>6. /\ stored' \in [Agents -> SUBSET Messages] /\ queue' \in [Agents -> Seq(Messages)]
      /\ \A s \in Agents : stored[s] \subseteq stored'[s]
      /\ \A s \in Agents : \A x : x \in stored'[s] =>
           x \in stored[s] \/ (x = new /\ s = Subject(new.type))
      /\ \A s \in Agents : \A x : x \in Range(queue'[s]) =>
           x \in Range(queue[s]) \/ (x = new /\ s = Subject(new.type))
      /\ Subject(type) \in Durable => new \in stored'[Subject(type)]
  BY <1>3, <1>4, <1>5, Sends
<1>7. submitted' \in [Tasks -> SUBSET Types] /\ submitted'[t] = {type}
      /\ \A p \in Tasks : p # t => submitted'[p] = submitted[p]
  <2>1. type \in Types
    BY DEF Produced, Types
  <2>2. QED
    BY <1>4, <2>1 DEF TasksTyped
<1>8. TasksTyped'
  BY <1>4, <1>6, <1>7 DEF TasksTyped
<1>9. Held' \subseteq Held \cup {new}
  BY <1>4, <1>6, HeldIs
<1>10. Grounded(new)'
  BY <1>5, <1>7 DEF Grounded
<1>11. \A m \in Held : Grounded(m) => Grounded(m)'
  BY <1>4, <1>7 DEF Grounded
<1>12. MessagesGrounded' /\ NumbersDiffer'
  BY <1>2, <1>5, <1>9, <1>10, <1>11, HeldMore
<1>13. PlansHold' /\ CallersWork' /\ AnswersCounted' /\ AnswerFitsQuestion'
  BY <1>4 DEF TasksInv, PlansHold, CallersWork, AnswersCounted, AnswerFitsQuestion
<1>14. StoredTill'
  BY <1>4, <1>5, <1>6, <1>7, SubjectIsAgent DEF TasksInv, StoredTill
<1>15. InPlace'
  BY <1>4, <1>6, InPlaceMore DEF TasksInv
<1>16. QED
  BY <1>8, <1>12, <1>13, <1>14, <1>15 DEF TasksInv

LEMMA OperatorCallsKeeps ==
  ASSUME TasksAssumption, TasksInv, NEW o \in Operators, NEW type \in Tools,
         NEW given \in {{}} \cup {{r} : r \in Names}, OperatorCalls(o, type, given)
  PROVE  TasksInv'
<1> DEFINE id == NameOf(given, Fresh)
<1>1. PICK new : new = [n |-> Fresh, id |-> id, type |-> type, of |-> id, step |-> 0]
  OBVIOUS
<1> TasksTyped /\ MessagesGrounded /\ NumbersDiffer
  BY DEF TasksInv
<1>2. /\ Fresh \in 1 .. MaxMessages
      /\ \A m \in Held : m.n # Fresh /\ m.id # Fresh /\ m.of # Fresh
  BY FreshIsFree DEF OperatorCalls
<1>A. type \in ToolTypes
  BY DEF TasksAssumption
<1>B. id = Fresh \/ id \in Names
  <2>1. CASE given = {}
    BY <2>1 DEF NameOf
  <2>2. CASE given # {}
    BY <2>2 DEF NameOf
  <2>3. QED
    BY <2>1, <2>2
<1> HIDE DEF id
<1>3. new \in Messages
  <2>1. type \in Types /\ id \in Ids /\ 0 \in 0 .. 3
    BY <1>2, <1>A, <1>B DEF Ids, Types, ToolTypes
  <2>2. QED
    BY <1>1, <1>2, <2>1 DEF Messages
<1>4. /\ submitted' = submitted /\ Send(new)
      /\ call' = [call EXCEPT ![o] = {[asked |-> new, answer |-> {}]}]
      /\ agent' = agent /\ answered' = answered
  BY <1>1 DEF OperatorCalls, Dispatch, id
<1>5. new.n = Fresh /\ new.id = id /\ new.type = type /\ new.of = id /\ new.step = 0
  BY <1>1
<1>6. /\ stored' \in [Agents -> SUBSET Messages] /\ queue' \in [Agents -> Seq(Messages)]
      /\ \A s \in Agents : stored[s] \subseteq stored'[s]
      /\ \A s \in Agents : \A x : x \in stored'[s] =>
           x \in stored[s] \/ (x = new /\ s = Subject(new.type))
      /\ \A s \in Agents : \A x : x \in Range(queue'[s]) =>
           x \in Range(queue[s]) \/ (x = new /\ s = Subject(new.type))
  BY <1>3, <1>4, Sends
<1>7. o \in Callers /\ o \notin Tasks /\ o \notin Agents
  BY DEF Callers, TasksAssumption
<1>8. submitted' \in [Tasks -> SUBSET Types]
  BY <1>4 DEF TasksTyped
<1>9. PICK k : k = [asked |-> new, answer |-> {}]
  OBVIOUS
<1>10. k \in Calls /\ k.asked = new /\ k.answer = {}
  BY <1>3, <1>9 DEF Calls
<1>11. call' = [call EXCEPT ![o] = {k}]
  BY <1>4, <1>9
<1>12. call' \in [Callers -> SUBSET Calls]
       /\ \A c \in Callers : call'[c] = IF c = o THEN {k} ELSE call[c]
  BY <1>7, <1>10, <1>11 DEF TasksTyped
<1>13. TasksTyped'
  BY <1>4, <1>6, <1>8, <1>12 DEF TasksTyped
<1>14. Held' \subseteq Held \cup {new}
  BY <1>4, <1>6, <1>10, <1>12, HeldIs
<1>15. Grounded(new)'
  BY <1>5, <1>A, <1>B DEF Grounded
<1>16. \A m \in Held : Grounded(m) => Grounded(m)'
  BY <1>4 DEF Grounded
<1>17. MessagesGrounded' /\ NumbersDiffer'
  BY <1>2, <1>5, <1>14, <1>15, <1>16, HeldMore
<1>18. PlansHold' /\ AnswersCounted'
  BY <1>4 DEF TasksInv, PlansHold, AnswersCounted
<1>19. CallersWork'
  BY <1>4, <1>7, <1>12 DEF TasksInv, CallersWork
<1>20. AnswerFitsQuestion'
  BY <1>10, <1>12 DEF TasksInv, AnswerFitsQuestion
<1>21. StoredTill'
  BY <1>4, <1>6, <1>8, SubjectIsAgent DEF TasksInv, StoredTill
<1>22. InPlace'
  BY <1>4, <1>6, InPlaceMore DEF TasksInv
<1>23. QED
  BY <1>13, <1>17, <1>18, <1>19, <1>20, <1>21, <1>22 DEF TasksInv

LEMMA DeliverKeeps ==
  ASSUME TasksInv, NEW s \in Agents, NEW n, Deliver(s, n)
  PROVE  TasksInv'
<1> TasksTyped /\ MessagesGrounded /\ NumbersDiffer
  BY DEF TasksInv
<1>1. PICK m \in stored[s] : queue' = [queue EXCEPT ![s] = Append(@, m)]
  BY DEF Deliver
<1>2. /\ stored' = stored /\ agent' = agent /\ call' = call /\ submitted' = submitted
      /\ answered' = answered
  BY DEF Deliver
<1>3. queue[s] \in Seq(Messages) /\ m \in Messages
  BY DEF TasksTyped
<1>4. PICK q : q = Append(queue[s], m)
  OBVIOUS
<1>5. q \in Seq(Messages) /\ \A x : x \in Range(q) => x \in Range(queue[s]) \/ x = m
  BY <1>3, <1>4, RangeOfAppend
<1>6. queue' \in [Agents -> Seq(Messages)]
      /\ \A a \in Agents : queue'[a] = IF a = s THEN q ELSE queue[a]
  BY <1>1, <1>4, <1>5 DEF TasksTyped
<1>7. TasksTyped'
  BY <1>2, <1>6 DEF TasksTyped
<1>8. Held' \subseteq Held
  BY <1>2, <1>5, <1>6, HeldIs
<1>9. MessagesGrounded' /\ NumbersDiffer'
  BY <1>2, <1>8, HeldLess
<1>10. PlansHold' /\ CallersWork' /\ AnswersCounted' /\ AnswerFitsQuestion' /\ StoredTill'
  BY <1>2 DEF TasksInv, PlansHold, CallersWork, AnswersCounted, AnswerFitsQuestion, StoredTill
<1>11. InPlace'
  BY <1>2, <1>5, <1>6, InPlaceLess DEF TasksInv
<1>12. QED
  BY <1>7, <1>9, <1>10, <1>11 DEF TasksInv

LEMMA TakeKeeps ==
  ASSUME TasksInv, NEW s \in Agents, Take(s)
  PROVE  TasksInv'
<1> DEFINE m == Head(queue[s])
           h == [pc |-> "work", task |-> {m}, todo |-> Plan(m.type)]
<1> TasksTyped /\ MessagesGrounded /\ NumbersDiffer
  BY DEF TasksInv
<1>1. /\ agent[s] = Idle /\ queue[s] # <<>> /\ queue[s] \in Seq(Messages)
      /\ queue' = [queue EXCEPT ![s] = Tail(@)] /\ agent' = [agent EXCEPT ![s] = h]
      /\ stored' = stored /\ call' = call /\ submitted' = submitted /\ answered' = answered
  BY DEF Take, TasksTyped
<1>2. /\ Tail(queue[s]) \in Seq(Messages) /\ Range(Tail(queue[s])) \subseteq Range(queue[s])
      /\ m \in Messages /\ m \in Range(queue[s])
  BY <1>1, RangeOfTail
<1>3. Plan(m.type) \in Seq(Types) /\ IsPlanOf(Plan(m.type), m)
  BY PlanIsPlan
<1>4. h \in Handlers /\ h.pc = "work" /\ h.task = {m} /\ h.todo = Plan(m.type)
  BY <1>2, <1>3 DEF Handlers
<1> HIDE DEF h, m
<1>5. queue' \in [Agents -> Seq(Messages)]
      /\ \A a \in Agents : Range(queue'[a]) \subseteq Range(queue[a])
  BY <1>1, <1>2 DEF TasksTyped
<1>6. /\ agent' \in [Agents -> Handlers]
      /\ \A a \in Agents : agent'[a] = IF a = s THEN h ELSE agent[a]
  BY <1>1, <1>4 DEF TasksTyped
<1>7. TasksTyped'
  BY <1>1, <1>5, <1>6 DEF TasksTyped
<1>8. Held' \subseteq Held
  BY <1>1, <1>2, <1>4, <1>5, <1>6, HeldIs
<1>9. MessagesGrounded' /\ NumbersDiffer'
  BY <1>1, <1>8, HeldLess
<1>10. PlansHold'
  BY <1>3, <1>4, <1>6 DEF TasksInv, PlansHold
<1>11. CallersWork'
  <2>1. s \in Callers => call[s] = {}
    <3>1. agent[s].pc # "work"
      BY <1>1 DEF Idle
    <3>2. QED
      BY <3>1 DEF TasksInv, CallersWork
  <2>2. QED
    BY <1>1, <1>6, <2>1 DEF TasksInv, CallersWork
<1>12. AnswersCounted'
  BY <1>1, <1>4, <1>6 DEF TasksInv, AnswersCounted
<1>13. AnswerFitsQuestion' /\ StoredTill'
  BY <1>1 DEF TasksInv, AnswerFitsQuestion, StoredTill
<1>14. InPlace'
  BY <1>1, <1>2, <1>4, <1>5, <1>6 DEF TasksInv, InPlace
<1>15. QED
  BY <1>7, <1>9, <1>10, <1>11, <1>12, <1>13, <1>14 DEF TasksInv

\* The next question of a handler, its first message of the kind.
LEMMA AskKeeps ==
  ASSUME TasksAssumption, TasksInv, NEW s \in Agents \cap Callers, Ask(s)
  PROVE  TasksInv'
<1> DEFINE todo == agent[s].todo
           type == Head(agent[s].todo)
<1> TasksTyped /\ MessagesGrounded /\ NumbersDiffer
  BY DEF TasksInv
<1>1. /\ agent[s].pc = "work" /\ todo # <<>> /\ call[s] = {}
      /\ submitted' = submitted /\ answered' = answered
  BY DEF Ask
<1>2. agent[s] \in Handlers /\ todo \in Seq(Types) /\ Len(todo) \in Nat /\ Len(todo) >= 1
      /\ type = todo[1]
  <2>1. agent[s] \in Handlers
    BY DEF TasksTyped
  <2>2. todo \in Seq(Types)
    BY <2>1 DEF Handlers
  <2>3. QED
    BY <1>1, <2>1, <2>2, EmptySeq
<1>3. \A m \in agent[s].task : IsPlanOf(todo, m)
  BY DEF TasksInv, PlansHold
<1> HIDE DEF todo
<1>4. CASE Blocked(type)
  <2>1. agent' = [agent EXCEPT ![s].todo = Tail(todo)]
        /\ stored' = stored /\ queue' = queue /\ call' = call
    BY <1>4 DEF Ask, todo
  <2>2. PICK t : t = Tail(todo)
    OBVIOUS
  <2>3. t \in Seq(Types) /\ \A m \in agent[s].task : IsPlanOf(t, m)
    <3>1. t \in Seq(Types)
      BY <1>1, <1>2, <2>2, HeadTailProperties
    <3>2. QED
      BY <1>1, <1>2, <1>3, <2>2, <3>1, TailOfPlan
  <2>4. PICK h : h = [agent[s] EXCEPT !.todo = t]
    OBVIOUS
  <2>5. h \in Handlers /\ h.pc = "work" /\ h.task = agent[s].task /\ h.todo = t
    BY <1>1, <1>2, <2>3, <2>4 DEF Handlers
  <2>6. /\ agent' \in [Agents -> Handlers]
        /\ \A a \in Agents : agent'[a] = IF a = s THEN h ELSE agent[a]
    <3>1. agent' = [agent EXCEPT ![s] = h]
      BY <2>1, <2>2, <2>4
    <3>2. QED
      BY <2>5, <3>1 DEF TasksTyped
  <2>7. TasksTyped'
    BY <1>1, <2>1, <2>6 DEF TasksTyped
  <2>8. Held' \subseteq Held
    BY <2>1, <2>5, <2>6, HeldIs
  <2>9. MessagesGrounded' /\ NumbersDiffer'
    BY <1>1, <2>8, HeldLess
  <2>10. PlansHold'
    BY <2>3, <2>5, <2>6 DEF TasksInv, PlansHold
  <2>11. CallersWork'
    BY <1>1, <2>1, <2>6 DEF TasksInv, CallersWork
  <2>12. AnswersCounted'
    BY <1>1, <2>5, <2>6 DEF TasksInv, AnswersCounted
  <2>13. AnswerFitsQuestion' /\ StoredTill'
    BY <1>1, <2>1 DEF TasksInv, AnswerFitsQuestion, StoredTill
  <2>14. InPlace'
    BY <2>1, <2>5, <2>6, InPlaceLess DEF TasksInv
  <2>15. QED
    BY <2>7, <2>9, <2>10, <2>11, <2>12, <2>13, <2>14 DEF TasksInv
<1>5. CASE ~Blocked(type)
  <2>1. PICK m \in agent[s].task :
          Dispatch(s, [n |-> Fresh, id |-> TaskId(m, type, Fresh), type |-> type,
                       of |-> m.id, step |-> Len(todo)])
    BY <1>5 DEF Ask, todo
  <2>2. Room(type) /\ agent' = agent
    BY <1>5 DEF Ask
  <2>3. PICK new : new = [n |-> Fresh, id |-> TaskId(m, type, Fresh), type |-> type,
                          of |-> m.id, step |-> Len(todo)]
    OBVIOUS
  <2>4. /\ Fresh \in 1 .. MaxMessages
        /\ \A x \in Held : x.n # Fresh /\ x.id # Fresh /\ x.of # Fresh
    BY <2>2, FreshIsFree
  <2>5. m \in Held /\ m \in Messages
    <3>1. m \in Held
      BY HeldIs
    <3>2. QED
      BY <3>1, HeldTyped
  <2>6. IsPlanOf(todo, m)
    BY <1>3
  <2>7. Len(todo) <= 3 /\ type \in {"read", "analyze"}
        /\ (type = "analyze" => Len(todo) = 1 /\ m.type \in Containments)
    <3>1. Len(todo) <= 3
      BY <2>6 DEF IsPlanOf
    <3>2. 1 \in 1 .. Len(todo)
      BY <1>2
    <3>3. /\ todo[1] \in {"read", "analyze"}
          /\ (todo[1] = "analyze" => 1 = Len(todo) /\ m.type \in Containments)
      BY <2>6, <3>2 DEF IsPlanOf
    <3>4. QED
      BY <1>2, <3>1, <3>3
  <2>8. /\ new.n = Fresh /\ new.id = TaskId(m, type, Fresh) /\ new.type = type
        /\ new.of = m.id /\ new.step = Len(todo)
    BY <2>3
  <2>9. new \in Messages
    <3>1. m.id \in Ids /\ Fresh \in Ids /\ type \in Types /\ Len(todo) \in 0 .. 3
      <4>1. m.id \in Ids
        BY <2>5 DEF Messages
      <4>2. Fresh \in Ids
        BY <2>4 DEF Ids
      <4>3. type \in Types
        BY <2>7 DEF Types
      <4>4. Len(todo) \in 0 .. 3
        <5>1. PICK l : l = Len(todo)
          OBVIOUS
        <5>2. l \in Nat /\ l <= 3
          BY <1>2, <2>7, <5>1
        <5>3. QED
          BY <5>1, <5>2
      <4>5. QED
        BY <4>1, <4>2, <4>3, <4>4
    <3>2. TaskId(m, type, Fresh) \in Ids
      BY <3>1 DEF TaskId
    <3>3. QED
      BY <2>3, <2>4, <3>1, <3>2 DEF Messages
  <2>10. Grounded(new)
    <3>1. CASE type = "read"
      BY <2>8, <3>1 DEF Grounded, TaskId, ToolTypes
    <3>2. CASE type = "analyze"
      <4>1. Grounded(m)
        BY <2>5 DEF MessagesGrounded
      <4>2. m.id \in Tasks /\ submitted[m.id] = {m.type} /\ m.type \in Containments
        BY <2>7, <3>2, <4>1 DEF Grounded, Containments, ToolTypes
      <4>3. new.id = m.id /\ new.of = m.id /\ new.step = 1
        BY <2>7, <2>8, <3>2 DEF TaskId
      <4>4. QED
        BY <2>8, <3>2, <4>2, <4>3 DEF Grounded
    <3>3. QED
      BY <2>7, <3>1, <3>2
  <2>11. Send(new)
    BY <2>1, <2>3 DEF Dispatch
  <2>12. PICK k : k = [asked |-> new, answer |-> {}]
    OBVIOUS
  <2>13. k \in Calls /\ k.asked = new /\ k.answer = {}
    BY <2>9, <2>12 DEF Calls
  <2>14. call' \in [Callers -> SUBSET Calls]
         /\ \A c \in Callers : call'[c] = IF c = s THEN {k} ELSE call[c]
    <3>1. call' = [call EXCEPT ![s] = {k}]
      BY <2>1, <2>3, <2>12 DEF Dispatch
    <3>2. QED
      BY <2>13, <3>1 DEF TasksTyped
  <2>15. /\ stored' \in [Agents -> SUBSET Messages] /\ queue' \in [Agents -> Seq(Messages)]
         /\ \A a \in Agents : stored[a] \subseteq stored'[a]
         /\ \A a \in Agents : \A x : x \in stored'[a] =>
              x \in stored[a] \/ (x = new /\ a = Subject(new.type))
         /\ \A a \in Agents : \A x : x \in Range(queue'[a]) =>
              x \in Range(queue[a]) \/ (x = new /\ a = Subject(new.type))
    BY <2>9, <2>11, Sends
  <2>16. TasksTyped'
    BY <1>1, <2>2, <2>14, <2>15 DEF TasksTyped
  <2>17. Held' \subseteq Held \cup {new}
    <3> SUFFICES ASSUME NEW x \in Held', x # new PROVE x \in Held
      OBVIOUS
    <3>1. CASE \E a \in Agents : x \in stored'[a] \/ x \in Range(queue'[a]) \/ x \in agent'[a].task
      BY <2>2, <2>15, <3>1, HeldIs
    <3>2. CASE \E c \in Callers : \E j \in call'[c] : x = j.asked
      BY <2>13, <2>14, <3>2, HeldIs
    <3>3. QED
      BY <3>1, <3>2, HeldIs
  <2>18. \A x : Grounded(x) => Grounded(x)'
    BY <1>1 DEF Grounded
  <2>19. MessagesGrounded' /\ NumbersDiffer'
    BY <2>4, <2>8, <2>10, <2>17, <2>18, HeldMore
  <2>20. PlansHold' /\ AnswersCounted'
    BY <1>1, <2>2 DEF TasksInv, PlansHold, AnswersCounted
  <2>21. CallersWork'
    BY <1>1, <2>2, <2>14 DEF TasksInv, CallersWork, todo
  <2>22. AnswerFitsQuestion'
    BY <2>13, <2>14 DEF TasksInv, AnswerFitsQuestion
  <2>23. StoredTill'
    BY <1>1, <2>15, SubjectIsAgent DEF TasksInv, StoredTill
  <2>24. InPlace'
    BY <2>2, <2>15, InPlaceMore DEF TasksInv
  <2>25. QED
    BY <2>16, <2>19, <2>20, <2>21, <2>22, <2>23, <2>24 DEF TasksInv
<1>6. QED
  BY <1>4, <1>5

\* A caller that gives up, or goes on: its call is open no longer.
LEMMA CallEnds ==
  ASSUME TasksInv, NEW c \in Callers, NEW h,
         call' = [call EXCEPT ![c] = {}],
         c \in Agents => h \in Handlers /\ h.pc # "ack" /\ (h.task = agent[c].task \/ h.task = {}),
         c \in Agents => \A m \in h.task : IsPlanOf(h.todo, m),
         agent' = IF c \in Agents THEN [agent EXCEPT ![c] = h] ELSE agent,
         UNCHANGED <<stored, queue, submitted, answered>>
  PROVE  TasksInv'
<1> TasksTyped /\ MessagesGrounded /\ NumbersDiffer
  BY DEF TasksInv
<1>1. call' \in [Callers -> SUBSET Calls]
      /\ \A d \in Callers : call'[d] = IF d = c THEN {} ELSE call[d]
  BY DEF TasksTyped
<1>2. agent' \in [Agents -> Handlers]
      /\ \A a \in Agents : agent'[a] = IF a = c THEN h ELSE agent[a]
  BY DEF TasksTyped
<1>3. TasksTyped'
  BY <1>1, <1>2 DEF TasksTyped
<1>4. Held' \subseteq Held
  BY <1>1, <1>2, HeldIs
<1>5. MessagesGrounded' /\ NumbersDiffer'
  BY <1>4, HeldLess
<1>6. PlansHold'
  BY <1>2 DEF TasksInv, PlansHold
<1>7. CallersWork'
  BY <1>1, <1>2 DEF TasksInv, CallersWork
<1>8. AnswersCounted'
  BY <1>2 DEF TasksInv, AnswersCounted
<1>9. AnswerFitsQuestion' /\ StoredTill'
  BY <1>1 DEF TasksInv, AnswerFitsQuestion, StoredTill
<1>10. InPlace'
  BY <1>2, InPlaceLess DEF TasksInv
<1>11. QED
  BY <1>3, <1>5, <1>6, <1>7, <1>8, <1>9, <1>10 DEF TasksInv

LEMMA IdleIsHandler ==
  Idle \in Handlers /\ Idle.pc = "idle" /\ Idle.task = {} /\ Idle.todo = <<>>
BY DEF Idle, Handlers

LEMMA ReturnsKeeps ==
  ASSUME TasksInv, NEW c \in Callers, Returns(c)
  PROVE  TasksInv'
<1>1. PICK h : h = [agent[c] EXCEPT !.todo = Tail(agent[c].todo)]
  OBVIOUS
<1>2. c \in Agents =>
        /\ h \in Handlers /\ h.pc # "ack" /\ h.task = agent[c].task
        /\ \A m \in h.task : IsPlanOf(h.todo, m)
  <2> SUFFICES ASSUME c \in Agents
               PROVE  /\ h \in Handlers /\ h.pc # "ack" /\ h.task = agent[c].task
                      /\ \A m \in h.task : IsPlanOf(h.todo, m)
    OBVIOUS
  <2>1. agent[c].pc = "work" /\ agent[c].todo # <<>>
    BY DEF Returns, TasksInv, CallersWork
  <2>2. agent[c] \in Handlers
    BY DEF TasksInv, TasksTyped
  <2>3. agent[c].todo \in Seq(Types) /\ \A m \in agent[c].task : IsPlanOf(agent[c].todo, m)
    BY <2>2 DEF TasksInv, PlansHold, Handlers
  <2>4. PICK t : t = Tail(agent[c].todo)
    OBVIOUS
  <2>5. t \in Seq(Types) /\ \A m \in agent[c].task : IsPlanOf(t, m)
    <3>1. t \in Seq(Types)
      BY <2>1, <2>3, <2>4, HeadTailProperties
    <3>2. QED
      BY <2>1, <2>3, <2>4, <3>1, TailOfPlan
  <2>6. h = [agent[c] EXCEPT !.todo = t]
    BY <1>1, <2>4
  <2>7. h \in Handlers /\ h.pc = "work" /\ h.task = agent[c].task /\ h.todo = t
    BY <2>1, <2>2, <2>5, <2>6 DEF Handlers
  <2>8. QED
    BY <2>5, <2>7
<1>3. /\ call' = [call EXCEPT ![c] = {}]
      /\ agent' = IF c \in Agents THEN [agent EXCEPT ![c] = h] ELSE agent
      /\ UNCHANGED <<stored, queue, submitted, answered>>
  BY <1>1 DEF Returns
<1>4. QED
  BY <1>2, <1>3, CallEnds

LEMMA CallFailsKeeps ==
  ASSUME TasksInv, NEW c \in Callers, CallFails(c)
  PROVE  TasksInv'
<1>1. PICK h : h = Idle
  OBVIOUS
<1>2. /\ h \in Handlers /\ h.pc # "ack" /\ h.task = {}
      /\ \A m \in h.task : IsPlanOf(h.todo, m)
  BY <1>1, IdleIsHandler
<1>3. /\ call' = [call EXCEPT ![c] = {}]
      /\ agent' = IF c \in Agents THEN [agent EXCEPT ![c] = h] ELSE agent
      /\ UNCHANGED <<stored, queue, submitted, answered>>
  BY <1>1 DEF CallFails
<1>4. QED
  BY <1>2, <1>3, CallEnds

\* A result goes to the calls that ask the same question.
LEMMA ReplyKeeps ==
  ASSUME TasksAssumption, TasksInv, NEW s \in Agents, Reply(s)
  PROVE  TasksInv'
<1> TasksTyped /\ MessagesGrounded /\ NumbersDiffer
  BY DEF TasksInv
<1>1. PICK m \in agent[s].task :
        /\ call' = [c \in Callers |->
                      {IF Matches(k, s, m) /\ k.answer = {} THEN [k EXCEPT !.answer = {m}] ELSE k
                         : k \in call[c]}]
        /\ answered' = IF m.step = 0 THEN answered \cup ({m.id} \cap Tasks) ELSE answered
  BY DEF Reply
<1>2. /\ agent[s].pc = "work" /\ agent[s].todo = <<>>
      /\ agent' = [agent EXCEPT ![s].pc = "ack"]
      /\ stored' = stored /\ queue' = queue /\ submitted' = submitted
  BY DEF Reply
<1>3. m \in Held /\ m \in Messages
  <2>1. m \in Held
    BY HeldIs
  <2>2. QED
    BY <2>1, HeldTyped
<1>4. PICK h : h = [agent[s] EXCEPT !.pc = "ack"]
  OBVIOUS
<1>5. /\ h \in Handlers /\ h.pc = "ack" /\ h.task = agent[s].task /\ h.todo = agent[s].todo
  <2>1. agent[s] \in Handlers
    BY DEF TasksTyped
  <2>2. QED
    BY <1>4, <2>1 DEF Handlers
<1>6. /\ agent' \in [Agents -> Handlers]
      /\ \A a \in Agents : agent'[a] = IF a = s THEN h ELSE agent[a]
  BY <1>2, <1>4, <1>5 DEF TasksTyped
<1>7. \A c \in Callers : \A j \in call'[c] : \E k \in call[c] :
        /\ j \in Calls /\ j.asked = k.asked
        /\ j = k \/ (Matches(k, s, m) /\ j.answer = {m})
  <2> SUFFICES ASSUME NEW c \in Callers, NEW j \in call'[c]
               PROVE  \E k \in call[c] : /\ j \in Calls /\ j.asked = k.asked
                                         /\ j = k \/ (Matches(k, s, m) /\ j.answer = {m})
    OBVIOUS
  <2>1. PICK k \in call[c] :
          j = IF Matches(k, s, m) /\ k.answer = {} THEN [k EXCEPT !.answer = {m}] ELSE k
    <3>1. call'[c] = {IF Matches(k, s, m) /\ k.answer = {} THEN [k EXCEPT !.answer = {m}] ELSE k
                        : k \in call[c]}
      BY <1>1
    <3>2. QED
      BY <3>1
  <2>2. k \in Calls
    BY DEF TasksTyped
  <2>3. CASE j = k
    BY <2>2, <2>3
  <2>4. CASE Matches(k, s, m) /\ j = [k EXCEPT !.answer = {m}]
    <3>1. j \in Calls /\ j.asked = k.asked /\ j.answer = {m}
      BY <1>3, <2>2, <2>4 DEF Calls
    <3>2. QED
      BY <2>4, <3>1
  <2>5. QED
    BY <2>1, <2>3, <2>4
<1>8. call' \in [Callers -> SUBSET Calls] /\ \A c \in Callers : call[c] = {} => call'[c] = {}
  <2>1. call' = [c \in Callers |-> call'[c]]
    BY <1>1
  <2>2. \A c \in Callers : call'[c] \subseteq Calls
    BY <1>7
  <2>3. \A c \in Callers : call[c] = {} => call'[c] = {}
    BY <1>7
  <2>4. QED
    BY <2>1, <2>2, <2>3
<1>9. TasksTyped'
  BY <1>2, <1>6, <1>8 DEF TasksTyped
<1>10. Held' \subseteq Held
  <2> SUFFICES ASSUME NEW x \in Held' PROVE x \in Held
    OBVIOUS
  <2>1. CASE \E a \in Agents : x \in stored'[a] \/ x \in Range(queue'[a]) \/ x \in agent'[a].task
    BY <1>2, <1>5, <1>6, <2>1, HeldIs
  <2>2. CASE \E c \in Callers : \E j \in call'[c] : x = j.asked
    BY <1>7, <2>2, HeldIs
  <2>3. QED
    BY <2>1, <2>2, HeldIs
<1>11. MessagesGrounded' /\ NumbersDiffer'
  BY <1>2, <1>10, HeldLess
<1>12. PlansHold'
  BY <1>5, <1>6 DEF TasksInv, PlansHold
<1>13. CallersWork'
  <2>1. s \in Callers => call[s] = {}
    BY <1>2 DEF TasksInv, CallersWork
  <2>2. QED
    BY <1>6, <1>8, <2>1 DEF TasksInv, CallersWork
<1>14. answered \subseteq answered'
  BY <1>1
<1>15. AnswersCounted'
  <2> SUFFICES ASSUME NEW a \in Agents, agent'[a].pc = "ack", NEW x \in agent'[a].task,
                      x.step = 0, x.id \in Tasks
               PROVE  x.id \in answered'
    BY DEF AnswersCounted
  <2>1. CASE a # s
    BY <1>6, <1>14, <2>1 DEF TasksInv, AnswersCounted
  <2>2. CASE a = s
    <3>1. x = m
      BY <1>5, <1>6, <2>2 DEF TasksInv, InPlace
    <3>2. QED
      BY <1>1, <3>1
  <2>3. QED
    BY <2>1, <2>2
<1>16. AnswerFitsQuestion'
  <2> SUFFICES ASSUME NEW c \in Callers, NEW j \in call'[c], NEW x \in j.answer
               PROVE  /\ x.of = j.asked.of /\ x.step = j.asked.step
                      /\ j.asked.id \notin Names => x.type = j.asked.type
                      /\ j.asked.id = j.asked.n => x = j.asked
    BY DEF AnswerFitsQuestion
  <2>1. PICK k \in call[c] : j.asked = k.asked /\ (j = k \/ (Matches(k, s, m) /\ j.answer = {m}))
    BY <1>7
  <2>2. CASE j = k
    BY <2>2 DEF TasksInv, AnswerFitsQuestion
  <2>3. CASE Matches(k, s, m) /\ j.answer = {m}
    <3>1. k.asked \in Held
      BY HeldIs
    <3>2. k.asked.id = m.id /\ Subject(k.asked.type) = s
      BY <2>3 DEF Matches
    <3>3. Subject(m.type) = s
      BY DEF TasksInv, InPlace
    <3>4. /\ m.of = k.asked.of /\ m.step = k.asked.step
          /\ m.id \notin Names => m.type = k.asked.type
          /\ k.asked.id = k.asked.n => m = k.asked
      BY <1>3, <3>1, <3>2, <3>3, SameQuestion
    <3>5. QED
      BY <2>1, <2>3, <3>2, <3>4
  <2>4. QED
    BY <2>1, <2>2, <2>3
<1>17. StoredTill'
  BY <1>2, <1>14 DEF TasksInv, StoredTill
<1>18. InPlace'
  BY <1>2, <1>5, <1>6, InPlaceLess DEF TasksInv
<1>19. QED
  BY <1>9, <1>11, <1>12, <1>13, <1>15, <1>16, <1>17, <1>18 DEF TasksInv

LEMMA AcknowledgeKeeps ==
  ASSUME TasksInv, NEW s \in Agents, Acknowledge(s)
  PROVE  TasksInv'
<1> TasksTyped /\ MessagesGrounded /\ NumbersDiffer
  BY DEF TasksInv
<1>1. /\ agent[s].pc = "ack"
      /\ stored' = [stored EXCEPT ![s] = @ \ agent[s].task] \/ stored' = stored
      /\ agent' = [agent EXCEPT ![s] = Idle]
      /\ queue' = queue /\ call' = call /\ submitted' = submitted /\ answered' = answered
  BY DEF Acknowledge
<1>2. PICK h : h = Idle
  OBVIOUS
<1>3. h \in Handlers /\ h.pc = "idle" /\ h.task = {} /\ h.todo = <<>>
  BY <1>2, IdleIsHandler
<1>4. /\ agent' \in [Agents -> Handlers]
      /\ \A a \in Agents : agent'[a] = IF a = s THEN h ELSE agent[a]
  BY <1>1, <1>2, <1>3 DEF TasksTyped
<1>5. /\ stored' \in [Agents -> SUBSET Messages]
      /\ \A a \in Agents : /\ stored'[a] \subseteq stored[a]
                          /\ \A m \in stored[a] \ agent[s].task : m \in stored'[a]
  BY <1>1 DEF TasksTyped
<1>6. TasksTyped'
  BY <1>1, <1>4, <1>5 DEF TasksTyped
<1>7. \A a \in Agents : stored'[a] \subseteq stored[a] /\ agent'[a].task \subseteq agent[a].task
  BY <1>3, <1>4, <1>5
<1>8. Held' \subseteq Held
  BY <1>1, <1>7, HeldIs
<1>9. MessagesGrounded' /\ NumbersDiffer'
  BY <1>1, <1>8, HeldLess
<1>10. InPlace'
  BY <1>1, <1>7, InPlaceLess DEF TasksInv
<1>11. PlansHold' /\ AnswersCounted'
  BY <1>1, <1>3, <1>4 DEF TasksInv, PlansHold, AnswersCounted
<1>12. CallersWork'
  BY <1>1, <1>4 DEF TasksInv, CallersWork
<1>13. AnswerFitsQuestion'
  BY <1>1 DEF TasksInv, AnswerFitsQuestion
<1>14. StoredTill'
  <2> SUFFICES ASSUME NEW t \in Tasks \ answered, NEW type \in submitted[t],
                      Subject(type) \in Durable
               PROVE  \E m \in stored'[Subject(type)] : m.id = t /\ m.step = 0
    BY <1>1 DEF StoredTill
  <2>1. PICK m \in stored[Subject(type)] : m.id = t /\ m.step = 0
    BY DEF TasksInv, StoredTill
  <2>2. ~(m \in agent[s].task)
    BY <1>1, <2>1 DEF TasksInv, AnswersCounted
  <2>3. m \in stored'[Subject(type)]
    BY <1>5, <2>1, <2>2, SubjectIsAgent
  <2>4. QED
    BY <2>1, <2>3
<1>15. QED
  BY <1>6, <1>9, <1>10, <1>11, <1>12, <1>13, <1>14 DEF TasksInv

\* An agent that drops its task, with its call or what was delivered to it.
LEMMA DropKeeps ==
  ASSUME TasksInv, NEW s \in Agents,
         agent' = [agent EXCEPT ![s] = Idle],
         queue' = queue \/ queue' = [queue EXCEPT ![s] = <<>>],
         call' = call \/ call' = [c \in Callers |-> IF c = s THEN {} ELSE call[c]],
         s \in Callers => call'[s] = {},
         UNCHANGED <<stored, submitted, answered>>
  PROVE  TasksInv'
<1> TasksTyped /\ MessagesGrounded /\ NumbersDiffer
  BY DEF TasksInv
<1>1. PICK h : h = Idle
  OBVIOUS
<1>2. h \in Handlers /\ h.pc = "idle" /\ h.task = {} /\ h.todo = <<>>
  BY <1>1, IdleIsHandler
<1>3. /\ agent' \in [Agents -> Handlers]
      /\ \A a \in Agents : agent'[a] = IF a = s THEN h ELSE agent[a]
  BY <1>1, <1>2 DEF TasksTyped
<1>4. /\ queue' \in [Agents -> Seq(Messages)]
      /\ \A a \in Agents : Range(queue'[a]) \subseteq Range(queue[a])
  <2>1. CASE queue' = queue
    BY <2>1 DEF TasksTyped
  <2>2. CASE queue' = [queue EXCEPT ![s] = <<>>]
    <3>1. <<>> \in Seq(Messages) /\ Range(<<>>) = {}
      BY EmptySeq DEF Range
    <3>2. QED
      BY <2>2, <3>1 DEF TasksTyped
  <2>3. QED
    BY <2>1, <2>2
<1>5. call' \in [Callers -> SUBSET Calls] /\ \A c \in Callers : call'[c] \subseteq call[c]
  BY DEF TasksTyped
<1>6. TasksTyped'
  BY <1>3, <1>4, <1>5 DEF TasksTyped
<1>7. \A a \in Agents : agent'[a].task \subseteq agent[a].task
  BY <1>2, <1>3
<1>8. Held' \subseteq Held
  BY <1>4, <1>5, <1>7, HeldIs
<1>9. MessagesGrounded' /\ NumbersDiffer'
  BY <1>8, HeldLess
<1>10. InPlace'
  BY <1>4, <1>7, InPlaceLess DEF TasksInv
<1>11. PlansHold' /\ AnswersCounted'
  BY <1>2, <1>3 DEF TasksInv, PlansHold, AnswersCounted
<1>12. CallersWork'
  BY <1>3, <1>5 DEF TasksInv, CallersWork
<1>13. AnswerFitsQuestion' /\ StoredTill'
  BY <1>5 DEF TasksInv, AnswerFitsQuestion, StoredTill
<1>14. QED
  BY <1>6, <1>9, <1>10, <1>11, <1>12, <1>13 DEF TasksInv

LEMMA InitTasksInv == TasksAssumption /\ Init => TasksInv
<1> SUFFICES ASSUME Init PROVE TasksInv
  OBVIOUS
<1>1. \A s \in Agents : Range(queue[s]) = {} /\ stored[s] = {} /\ agent[s] = Idle
  BY DEF Init, Range
<1>2. \A s \in Agents : agent[s].pc = "idle" /\ agent[s].task = {} /\ agent[s].todo = <<>>
  BY <1>1 DEF Idle
<1>3. \A c \in Callers : call[c] = {}
  BY DEF Init
<1>4. TasksTyped
  BY EmptySeq, IdleIsHandler DEF Init, TasksTyped
<1>5. Held = {}
  BY <1>1, <1>2, <1>3, HeldIs
<1>6. MessagesGrounded /\ NumbersDiffer
  BY <1>5 DEF MessagesGrounded, NumbersDiffer
<1>7. InPlace /\ PlansHold /\ CallersWork /\ AnswersCounted
  BY <1>1, <1>2, <1>3 DEF InPlace, PlansHold, CallersWork, AnswersCounted
<1>8. AnswerFitsQuestion /\ StoredTill
  BY <1>3 DEF Init, AnswerFitsQuestion, StoredTill
<1>9. QED
  BY <1>4, <1>6, <1>7, <1>8 DEF TasksInv

LEMMA NextTasksInv == TasksAssumption /\ TasksInv /\ [Next]_vars => TasksInv'
<1> SUFFICES ASSUME TasksAssumption, TasksInv, [Next]_vars PROVE TasksInv'
  OBVIOUS
<1>1. ASSUME NEW t \in Tasks, NEW type \in Produced, Submit(t, type) PROVE TasksInv'
  BY <1>1, SubmitKeeps
<1>2. ASSUME NEW o \in Operators, NEW type \in Tools,
             NEW given \in {{}} \cup {{r} : r \in Names}, OperatorCalls(o, type, given)
      PROVE  TasksInv'
  BY <1>2, OperatorCallsKeeps
<1>3. ASSUME NEW s \in Durable, NEW n \in 1 .. MaxMessages, Deliver(s, n) PROVE TasksInv'
  <2>1. s \in Agents
    BY DEF TasksAssumption
  <2>2. QED
    BY <1>3, <2>1, DeliverKeeps
<1>4. ASSUME NEW s \in Agents, Runner(s) PROVE TasksInv'
  <2>1. CASE Take(s)
    BY <2>1, TakeKeeps
  <2>2. CASE s \in Callers /\ Ask(s)
    <3>1. s \in Agents \cap Callers /\ Ask(s)
      BY <2>2
    <3>2. QED
      BY <3>1, AskKeeps
  <2>3. CASE Reply(s)
    BY <2>3, ReplyKeeps
  <2>4. CASE Acknowledge(s)
    BY <2>4, AcknowledgeKeeps
  <2>5. QED
    BY <1>4, <2>1, <2>2, <2>3, <2>4 DEF Runner
<1>5. ASSUME NEW c \in Callers, Returns(c) \/ CallFails(c) PROVE TasksInv'
  BY <1>5, ReturnsKeeps, CallFailsKeeps
<1>6. ASSUME NEW s \in Agents, HandlerRaises(s) PROVE TasksInv'
  BY <1>6, DropKeeps DEF HandlerRaises
<1>7. ASSUME NEW s \in Agents, Crash(s) PROVE TasksInv'
  BY <1>7, DropKeeps DEF Crash
<1>8. CASE UNCHANGED vars
  <2>1. Held' \subseteq Held
    BY <1>8, HeldIs DEF vars
  <2>2. MessagesGrounded' /\ NumbersDiffer'
    BY <1>8, <2>1, HeldLess DEF vars, TasksInv
  <2>3. TasksTyped' /\ InPlace' /\ PlansHold' /\ CallersWork'
    BY <1>8 DEF vars, TasksInv, TasksTyped, InPlace, PlansHold, CallersWork
  <2>4. AnswersCounted' /\ StoredTill' /\ AnswerFitsQuestion'
    BY <1>8 DEF vars, TasksInv, AnswersCounted, StoredTill, AnswerFitsQuestion
  <2>5. QED
    BY <2>2, <2>3, <2>4 DEF TasksInv
<1>9. QED
  BY <1>1, <1>2, <1>3, <1>4, <1>5, <1>6, <1>7, <1>8 DEF Next

LEMMA TasksInvariant == Spec => []TasksInv
<1>1. Init => TasksInv
  BY InitTasksInv, TasksAssumption
<1>2. TasksInv /\ [Next]_vars => TasksInv'
  BY NextTasksInv, TasksAssumption
<1>3. QED
  BY <1>1, <1>2, PTL DEF Spec

(* The result a tool call takes is that of the very question when the server    *)
(* named it, and one of the same step of the same task when a handler passed    *)
(* its task_id on, however tasks are redelivered, calls given up and questions  *)
(* asked again, with any number of tasks and callers and any of the subjects in *)
(* a stream; a question named by its caller gets one of that name, of whichever *)
(* request (_dispatch_agent_tool compares task_ids).                            *)
THEOREM AnswersFit == Spec => []AnswerFitsQuestion
<1>1. TasksInv => AnswerFitsQuestion
  BY DEF TasksInv
<1>2. QED
  BY <1>1, TasksInvariant, PTL

(* A task in a stream stays there until its result was published: no crash,     *)
(* timeout or failing tool drops it (on_task acknowledges last).                *)
THEOREM TasksAreKept == Spec => []UnansweredIsStored
<1>1. TasksInv => UnansweredIsStored
  BY DEF TasksInv, StoredTill, UnansweredIsStored
<1>2. QED
  BY <1>1, TasksInvariant, PTL

-----------------------------------------------------------------------------
(* Completions.                                                                *)

ModelOrNone == ModelID \cup {None}

Responses ==
  {None, "denied", "error", "rehearsed", "refused", "cancelled", "batch", "withheld",
   "answered", "unavailable"}

Jobs ==
  [pc : {"idle", "classify", "primary", "fallback", "vetting", "batch"},
   ask : SUBSET Requests, primary : ModelOrNone, fallback : ModelOrNone,
   context : Contexts \cup {0}, window : Seq(Turns), reply : Responses,
   used : ModelOrNone, raised : SUBSET ModelID]

\* What a handler knows of the models it asked: the fallback is another than the primary,
\* and is asked only after that raised.
JobOK(j) ==
  /\ j \in Jobs
  /\ j.pc # "idle" => j.reply = None
  /\ j.pc = "idle" => j.ask = {}
  /\ j.pc \in {"primary", "fallback"} =>
       /\ j.primary \in ModelID /\ j.fallback \in ModelID
       /\ j.pc = "primary" => j.raised = {} /\ j.primary # j.fallback
       /\ j.pc = "fallback" => j.raised = {j.primary} /\ j.primary # j.fallback
  /\ j.reply = "unavailable" => Cardinality(j.raised) = 2

Panels == [script : Seq(ModelID), heard : Seq([asked : ModelID, used : ModelOrNone]),
           raised : SUBSET ModelID]

\* The decision agent's call is of the model after those it has heard, in its script.
PanelOK(p, j) ==
  /\ p \in Panels
  /\ Len(p.heard) <= Len(p.script)
  /\ p.raised = {} => \A i \in 1 .. Len(p.heard) : p.heard[i].used = p.script[i]
  /\ j.pc \in {"idle", "primary", "fallback"}
  /\ j.pc # "idle" \/ j.reply # None => Len(p.heard) < Len(p.script)
  /\ j.pc = "primary" => j.primary = p.script[Len(p.heard) + 1]
  /\ j.reply = "answered" /\ j.raised = {} => j.used = p.script[Len(p.heard) + 1]

StoreTyped ==
  /\ store \in [Sessions -> Contexts \cup {0}]
  /\ fresh \in [Contexts -> BOOLEAN]
  /\ turns \in [Contexts -> Seq(Turns)]

JobsOK ==
  /\ job = [c \in Clients |-> job[c]] /\ \A c \in Clients : JobOK(job[c])
  /\ batch = [c \in Clients |-> batch[c]] /\ batch["decision"] = NoBatch

CompletionsInv ==
  StoreTyped /\ JobsOK /\ PanelOK(panel, job["decision"]) /\ TurnsArePaired

-----------------------------------------------------------------------------
(* Routes.                                                                     *)

\* No route falls back on its own primary model.
LEMMA RouteHasTwo ==
  ASSUME NEW type \in TaskTypes
  PROVE  Primary(type) \in ModelID /\ Fallback(type) \in ModelID /\ Primary(type) # Fallback(type)
<1>1. type \in {"generate_rego", "generate_rego_test", "refactor_rego", "generate_script",
                "classify_threat", "detect_anomaly", "analyze_attack", "score_risk",
                "correlate_events", "investigate", "explain", "analyze_graph", "draft_plan",
                "parse_log", "extract_entities", "summarize_short", "answer_soc",
                "high_risk_decision", "human_explanation", "complex_reasoning",
                "classify_intent", "validate_schema", "compare_policies", "explain_code"}
  BY DEF TaskTypes, FastPathTypes, HeuristicTypes
<1>2. QED
  BY <1>1 DEF Primary, Fallback, ModelID, GpuModels, OpenAI

LEMMA ForcedHasTwo ==
  ASSUME NEW type \in TaskTypes, NEW force \in ModelID \cup {None}
  PROVE  LET d == Forced(Route(type), force)
         IN  /\ d.primary \in ModelID /\ d.fallback \in ModelID /\ d.primary # d.fallback
             /\ force # None => d.primary = force
<1>1. Route(type).primary = Primary(type) /\ Route(type).fallback = Fallback(type)
  BY DEF Route
<1>2. CASE force = None
  BY <1>1, <1>2, RouteHasTwo DEF Forced
<1>3. CASE force # None
  BY <1>3 DEF Forced, ModelID, OpenAI
<1>4. QED
  BY <1>2, <1>3

-----------------------------------------------------------------------------
(* What a handler leaves behind at its next await or its end.                  *)

QuietJob(j) ==
  /\ j.pc = "idle" /\ j.ask = {} /\ j.context = 0 /\ j.raised = {}
  /\ j.reply \notin {"unavailable", "answered"}

LEMMA QuietIsOK ==
  ASSUME NEW reply \in Responses, NEW used \in ModelOrNone, NEW raised \in SUBSET ModelID,
         reply = "unavailable" => Cardinality(raised) = 2
  PROVE  /\ JobOK(Quiet(reply, used, raised))
         /\ Quiet(reply, used, raised).pc = "idle" /\ Quiet(reply, used, raised).ask = {}
         /\ Quiet(reply, used, raised).context = 0 /\ Quiet(reply, used, raised).reply = reply
         /\ Quiet(reply, used, raised).used = used /\ Quiet(reply, used, raised).raised = raised
<1>1. PICK j : j = Quiet(reply, used, raised)
  OBVIOUS
<1>2. /\ j.pc = "idle" /\ j.ask = {} /\ j.context = 0 /\ j.reply = reply /\ j.used = used
      /\ j.raised = raised
  BY <1>1 DEF Quiet
<1>3. j \in Jobs
  <2>1. None \in ModelOrNone /\ <<>> \in Seq(Turns)
    BY EmptySeq DEF ModelOrNone
  <2>2. QED
    BY <1>1, <2>1 DEF Quiet, Jobs
<1>4. QED
  BY <1>1, <1>2, <1>3 DEF JobOK

LEMMA LastTyped ==
  ASSUME NEW s \in Seq(Turns), NEW n \in Nat
  PROVE  Last(s, n) \in Seq(Turns)
<1>1. Len(s) \in Nat
  BY LenProperties
<1>2. PICK m : m = IF Len(s) > n THEN Len(s) - n + 1 ELSE 1
  OBVIOUS
<1>3. m \in 1 .. Len(s) + 1
  BY <1>1, <1>2
<1>4. \A i \in m .. Len(s) : s[i] \in Turns
  BY <1>1, <1>3
<1>5. SubSeq(s, m, Len(s)) \in Seq(Turns)
  BY <1>1, <1>3, <1>4, SubSeqProperties
<1>6. QED
  BY <1>2, <1>5 DEF Last

LEMMA MaxTurnsTyped == \A model \in DOMAIN MaxTurns : MaxTurns[model] \in Nat
  BY DEF MaxTurns, ModelID, GpuModels, OpenAI

\* A call to a model with the window of the context x.
CallingJob(j, q, d, x) ==
  /\ j.pc = "primary" /\ j.ask = {q} /\ j.context = x /\ j.reply = None /\ j.raised = {}
  /\ j.primary = d.primary /\ j.fallback = d.fallback

LEMMA CallsModelIsOK ==
  ASSUME NEW c \in Clients, NEW q \in Requests, NEW d,
         d.primary \in ModelID, d.fallback \in ModelID, d.primary # d.fallback,
         NEW x \in Contexts \cup {0}, NEW window \in Seq(Turns), CallsModel(c, q, d, x, window)
  PROVE  \E j : job' = [job EXCEPT ![c] = j] /\ JobOK(j) /\ CallingJob(j, q, d, x)
<1>1. PICK j : j = [pc |-> "primary", ask |-> {q}, primary |-> d.primary,
                    fallback |-> d.fallback, context |-> x, window |-> window,
                    reply |-> None, used |-> None, raised |-> {}]
  OBVIOUS
<1>2. CallingJob(j, q, d, x)
  BY <1>1 DEF CallingJob
<1>3. None \in Responses /\ None \in ModelOrNone /\ ModelID \subseteq ModelOrNone
  BY DEF Responses, ModelOrNone
<1>4. j \in Jobs
  BY <1>1, <1>3 DEF Jobs
<1>5. JobOK(j)
  <2>1. None # "unavailable"
    BY DEF None
  <2>2. QED
    BY <1>2, <1>4, <2>1 DEF JobOK, CallingJob
<1>6. job' = [job EXCEPT ![c] = j]
  BY <1>1 DEF CallsModel
<1>7. QED
  BY <1>2, <1>5, <1>6

QuietReplies ==
  {None, "denied", "error", "rehearsed", "refused", "cancelled", "batch", "withheld"}

LEMMA RepliesIsQuiet ==
  ASSUME NEW c, NEW reply \in QuietReplies,
         Replies(c, reply, None, {})
  PROVE  \E j : job' = [job EXCEPT ![c] = j] /\ JobOK(j) /\ QuietJob(j) /\ j.reply = reply
<1>1. reply \in Responses /\ reply # "unavailable" /\ reply # "answered" /\ None \in ModelOrNone
  BY DEF Responses, None, ModelOrNone, QuietReplies
<1>2. PICK j : j = Quiet(reply, None, {})
  OBVIOUS
<1>3. JobOK(j) /\ QuietJob(j) /\ j.reply = reply
  BY <1>1, <1>2, QuietIsOK DEF QuietJob
<1>4. QED
  BY <1>2, <1>3 DEF Replies

\* The contexts after a handler that found, made or needs none of them: a new one is
\* nobody's.
ContextsAfter(q, x) ==
  \/ UNCHANGED <<store, fresh, turns>> /\ x = 0
  \/ /\ UNCHANGED <<store, fresh, turns>>
     /\ Live(q.session) /\ x = store[q.session]
  \/ /\ ~Live(q.session)
     /\ store' = [store EXCEPT ![q.session] = 0]
     /\ \E y \in Contexts \ InUse :
          /\ turns' = [turns EXCEPT ![y] = <<>>] /\ fresh' = [fresh EXCEPT ![y] = FALSE]
          /\ x \in {0, y}

\* A handler that ran from the classification on.
RoutedJob(j, q) ==
  /\ JobOK(j)
  /\ \/ QuietJob(j) /\ ContextsAfter(q, 0)
     \/ /\ \E d : /\ CallingJob(j, q, d, j.context)
                  /\ q.force # None => d.primary = q.force
        /\ ContextsAfter(q, j.context)

LEMMA ProceedsIsRouted ==
  ASSUME CompletionsAssumption, NEW c \in Clients, NEW q \in Requests, NEW d,
         d.primary \in ModelID, d.fallback \in ModelID, d.primary # d.fallback,
         NEW x \in Contexts \cup {0}, NEW past \in Seq(Turns), Proceeds(c, q, d, x, past)
  PROVE  \E j : /\ job' = [job EXCEPT ![c] = j] /\ JobOK(j)
                /\ QuietJob(j) \/ CallingJob(j, q, d, x)
<1>1. CASE d.primary \notin DOMAIN MaxTurns
  BY <1>1, RepliesIsQuiet DEF QuietReplies, Proceeds
<1>2. CASE d.primary \in DOMAIN MaxTurns /\ q.rehearsal
  BY <1>2, RepliesIsQuiet DEF QuietReplies, Proceeds, Simulates
<1>3. CASE d.primary \in DOMAIN MaxTurns /\ ~q.rehearsal
  <2>1. MaxTurns[d.primary] \in Nat
    BY <1>3, MaxTurnsTyped
  <2>2. PICK past1 : past1 = Last(past, MaxTurns[d.primary])
    OBVIOUS
  <2>3. past1 \in Seq(Turns) /\ <<[role |-> "user", of |-> c]>> \in Seq(Turns)
    <3>1. [role |-> "user", of |-> c] \in Turns
      BY DEF Turns
    <3>2. past1 \in Seq(Turns)
      BY <2>1, <2>2, LastTyped
    <3>3. QED
      BY <3>1, <3>2
  <2>4. past1 \o <<[role |-> "user", of |-> c]>> \in Seq(Turns)
    BY <2>3, ConcatProperties
  <2>5. CallsModel(c, q, d, x, past1 \o <<[role |-> "user", of |-> c]>>)
    BY <1>3, <2>2 DEF Proceeds
  <2>6. QED
    BY <2>4, <2>5, CallsModelIsOK
<1>4. QED
  BY <1>1, <1>2, <1>3

LEMMA RoutedIsOK ==
  ASSUME CompletionsAssumption, StoreTyped, NEW c \in Clients, NEW q \in Requests,
         NEW type \in TaskTypes, Routed(c, q, type)
  PROVE  \E j : job' = [job EXCEPT ![c] = j] /\ RoutedJob(j, q)
<1> DEFINE d == Forced(Route(type), q.force)
<1>1. /\ q.force \in ModelID \cup {None} /\ q.session \in Sessions \cup {None}
      /\ None \notin Sessions
  BY DEF Requests, CompletionsAssumption
<1>2. /\ d.primary \in ModelID /\ d.fallback \in ModelID /\ d.primary # d.fallback
      /\ q.force # None => d.primary = q.force
  BY <1>1, ForcedHasTwo
<1> HIDE DEF d
<1>3. CASE Replies(c, "denied", None, {}) /\ UNCHANGED <<store, fresh, turns>>
  BY <1>3, RepliesIsQuiet DEF QuietReplies, RoutedJob, ContextsAfter
<1>4. CASE WithoutSession(c, q, d)
  <2>1. PICK w : w = <<[role |-> "user", of |-> c]>>
    OBVIOUS
  <2>2. w \in Seq(Turns)
    <3>1. [role |-> "user", of |-> c] \in Turns
      BY DEF Turns
    <3>2. QED
      BY <2>1, <3>1
  <2>3. UNCHANGED <<store, fresh, turns>>
    BY <1>4 DEF WithoutSession
  <2>4. CASE q.rehearsal
    BY <1>4, <2>3, <2>4, RepliesIsQuiet
       DEF QuietReplies, WithoutSession, Simulates, RoutedJob, ContextsAfter
  <2>5. CASE ~q.rehearsal
    <3>1. CallsModel(c, q, d, 0, w)
      BY <1>4, <2>1, <2>5 DEF WithoutSession
    <3>2. PICK j : job' = [job EXCEPT ![c] = j] /\ JobOK(j) /\ CallingJob(j, q, d, 0)
      BY <1>2, <2>2, <3>1, CallsModelIsOK
    <3>3. j.context = 0
      BY <3>2 DEF CallingJob
    <3>4. QED
      BY <1>2, <2>3, <3>2, <3>3 DEF RoutedJob, ContextsAfter
  <2>6. QED
    BY <2>4, <2>5
<1>5. CASE Loads(c, q, d)
  <2>1. q.session \in Sessions /\ Live(q.session) /\ UNCHANGED <<store, fresh, turns>>
    BY <1>1, <1>5 DEF Loads
  <2>2. PICK x : x = store[q.session]
    OBVIOUS
  <2>3. x \in Contexts /\ turns[x] \in Seq(Turns)
    BY <2>1, <2>2 DEF StoreTyped, Live
  <2>4. Proceeds(c, q, d, x, turns[x])
    BY <1>5, <2>2 DEF Loads
  <2>5. PICK j : /\ job' = [job EXCEPT ![c] = j] /\ JobOK(j)
                 /\ QuietJob(j) \/ CallingJob(j, q, d, x)
    BY <1>2, <2>3, <2>4, ProceedsIsRouted
  <2>6. CASE QuietJob(j)
    BY <2>1, <2>5, <2>6 DEF RoutedJob, ContextsAfter
  <2>7. CASE CallingJob(j, q, d, x)
    <3>1. j.context = x
      BY <2>7 DEF CallingJob
    <3>2. QED
      BY <1>2, <2>1, <2>2, <2>5, <2>7, <3>1 DEF RoutedJob, ContextsAfter
  <2>8. QED
    BY <2>5, <2>6, <2>7
<1>6. CASE Creates(c, q, d)
  <2>1. /\ ~Live(q.session) /\ store' = [store EXCEPT ![q.session] = 0]
    BY <1>6 DEF Creates
  <2>2. PICK x \in Contexts \ InUse :
          /\ turns' = [turns EXCEPT ![x] = <<>>] /\ fresh' = [fresh EXCEPT ![x] = FALSE]
          /\ Proceeds(c, q, d, x, <<>>)
    BY <1>6 DEF Creates
  <2>3. PICK j : /\ job' = [job EXCEPT ![c] = j] /\ JobOK(j)
                 /\ QuietJob(j) \/ CallingJob(j, q, d, x)
    <3>1. <<>> \in Seq(Turns)
      BY EmptySeq
    <3>2. QED
      BY <1>2, <2>2, <3>1, ProceedsIsRouted
  <2>4. ContextsAfter(q, 0) /\ ContextsAfter(q, x)
    BY <2>1, <2>2 DEF ContextsAfter
  <2>5. CASE QuietJob(j)
    BY <2>3, <2>4, <2>5 DEF RoutedJob
  <2>6. CASE CallingJob(j, q, d, x)
    <3>1. j.context = x
      BY <2>6 DEF CallingJob
    <3>2. QED
      BY <1>2, <2>3, <2>4, <2>6, <3>1 DEF RoutedJob
  <2>7. QED
    BY <2>3, <2>5, <2>6
<1>7. QED
  BY <1>3, <1>4, <1>5, <1>6 DEF Routed, d

\* What a request begins with: its routing, or a wait for phi3 or for Sentinel.
BegunJob(j, q) ==
  \/ RoutedJob(j, q)
  \/ /\ JobOK(j) /\ j.pc \in {"vetting", "classify"} /\ j.ask = {q} /\ j.context = 0
     /\ j.raised = {} /\ ContextsAfter(q, 0)
     /\ q.keyword = None \/ q.batch # {}

LEMMA BeginsIsOK ==
  ASSUME CompletionsAssumption, StoreTyped, NEW c \in Clients, NEW q \in Requests, Begins(c, q)
  PROVE  \E j : job' = [job EXCEPT ![c] = j] /\ BegunJob(j, q)
<1>1. CASE Replies(c, "refused", None, {}) /\ UNCHANGED <<store, fresh, turns>>
  BY <1>1, RepliesIsQuiet DEF QuietReplies, BegunJob, RoutedJob, ContextsAfter
<1>2. ASSUME NEW pc \in {"vetting", "classify"},
             job' = [job EXCEPT ![c] = [Quiet(None, None, {}) EXCEPT !.pc = pc, !.ask = {q}]],
             UNCHANGED <<store, fresh, turns>>, q.keyword = None \/ q.batch # {}
      PROVE  \E j : job' = [job EXCEPT ![c] = j] /\ BegunJob(j, q)
  <2>1. PICK j : j = [Quiet(None, None, {}) EXCEPT !.pc = pc, !.ask = {q}]
    OBVIOUS
  <2>2. j = [pc |-> pc, ask |-> {q}, primary |-> None, fallback |-> None, context |-> 0,
             window |-> <<>>, reply |-> None, used |-> None, raised |-> {}]
    BY <2>1 DEF Quiet
  <2>3. /\ j.pc = pc /\ j.ask = {q} /\ j.context = 0 /\ j.reply = None /\ j.raised = {}
    BY <2>2
  <2>4. j \in Jobs
    <3>1. None \in ModelOrNone /\ None \in Responses /\ <<>> \in Seq(Turns)
      BY EmptySeq DEF ModelOrNone, Responses
    <3>2. QED
      BY <2>2, <3>1 DEF Jobs
  <2>5. JobOK(j)
    BY <2>3, <2>4 DEF JobOK, None
  <2>6. QED
    BY <1>2, <2>1, <2>3, <2>5 DEF BegunJob, ContextsAfter
<1>3. CASE q.keyword # None /\ Routed(c, q, q.keyword)
  <2>1. q.keyword \in TaskTypes
    BY <1>3 DEF Requests, TaskTypes
  <2>2. QED
    BY <1>3, <2>1, RoutedIsOK DEF BegunJob
<1>4. QED
  BY <1>1, <1>2, <1>3 DEF Begins

-----------------------------------------------------------------------------
(* Conversations.                                                              *)

\* The turns of one context come in pairs.
PairedTurns(t) ==
  \A i \in 1 .. Len(t) :
    IF i % 2 = 1
    THEN /\ t[i].role = "user"
         /\ i < Len(t) /\ t[i + 1] = [role |-> "assistant", of |-> t[i].of]
    ELSE t[i].role = "assistant"

LEMMA PairedMeans ==
  /\ StoreTyped => (TurnsArePaired <=> \A x \in Contexts : PairedTurns(turns[x]))
  /\ StoreTyped' => (TurnsArePaired' <=> \A x \in Contexts : PairedTurns(turns'[x]))
<1>1. StoreTyped => \A x \in Contexts : DOMAIN turns[x] = 1 .. Len(turns[x])
  BY DEF StoreTyped
<1>2. StoreTyped' => \A x \in Contexts : DOMAIN turns'[x] = 1 .. Len(turns'[x])
  BY DEF StoreTyped
<1>3. QED
  BY <1>1, <1>2 DEF TurnsArePaired, PairedTurns

\* One more question and its answer.
LEMMA PairAdded ==
  ASSUME NEW t \in Seq(Turns), PairedTurns(t), NEW c \in Clients
  PROVE  LET u == t \o <<[role |-> "user", of |-> c], [role |-> "assistant", of |-> c]>>
         IN  /\ u \in Seq(Turns) /\ PairedTurns(u)
             /\ Len(u) >= Len(t) /\ SubSeq(u, 1, Len(t)) = t
<1>1. PICK p : p = <<[role |-> "user", of |-> c], [role |-> "assistant", of |-> c]>>
  OBVIOUS
<1>2. /\ p \in Seq(Turns) /\ Len(p) = 2
      /\ p[1] = [role |-> "user", of |-> c] /\ p[2] = [role |-> "assistant", of |-> c]
  <2>1. [role |-> "user", of |-> c] \in Turns /\ [role |-> "assistant", of |-> c] \in Turns
    BY DEF Turns
  <2>2. QED
    BY <1>1, <2>1
<1>3. PICK u : u = t \o p
  OBVIOUS
<1>4. PICK n : n = Len(t)
  OBVIOUS
<1>5. /\ n \in Nat /\ u \in Seq(Turns) /\ Len(u) = n + 2
      /\ \A i \in 1 .. n : u[i] = t[i]
      /\ u[n + 1] = p[1] /\ u[n + 2] = p[2]
  <2>1. n \in Nat
    BY <1>4, LenProperties
  <2>2. /\ u \in Seq(Turns) /\ Len(u) = Len(t) + Len(p)
        /\ \A i \in 1 .. Len(t) + Len(p) : u[i] = IF i <= Len(t) THEN t[i] ELSE p[i - Len(t)]
    BY <1>2, <1>3, ConcatProperties
  <2>3. Len(u) = n + 2 /\ \A i \in 1 .. n + 2 : u[i] = IF i <= n THEN t[i] ELSE p[i - n]
    BY <1>2, <1>4, <2>2
  <2>4. \A i \in 1 .. n : u[i] = t[i]
    BY <2>1, <2>3
  <2>5. u[n + 1] = p[n + 1 - n] /\ u[n + 2] = p[n + 2 - n]
    BY <2>1, <2>3
  <2>6. n + 1 - n = 1 /\ n + 2 - n = 2
    BY <2>1
  <2>7. QED
    BY <2>1, <2>2, <2>3, <2>4, <2>5, <2>6
<1>6. \A i \in 1 .. n :
        /\ i % 2 = 1 => /\ t[i].role = "user" /\ i < n
                       /\ t[i + 1] = [role |-> "assistant", of |-> t[i].of]
        /\ i % 2 # 1 => t[i].role = "assistant"
  BY <1>4 DEF PairedTurns
<1>7. n \in Nat /\ \A i \in 1 .. n : i % 2 = 1 => i < n
  BY <1>5, <1>6
<1>8. n % 2 = 0
  <2>1. n \in 1 .. n => n % 2 # 1
    <3> SUFFICES ASSUME n \in 1 .. n, n % 2 = 1 PROVE FALSE
      OBVIOUS
    <3>1. n < n
      BY <1>7
    <3>2. QED
      BY <1>7, <3>1
  <2>2. n \in 1 .. n \/ n = 0
    BY <1>5
  <2>3. n % 2 \in 0 .. 1
    BY <1>5
  <2>4. QED
    BY <2>1, <2>2, <2>3
<1>9. PairedTurns(u)
  <2> SUFFICES ASSUME NEW i \in 1 .. Len(u)
               PROVE  IF i % 2 = 1
                      THEN /\ u[i].role = "user"
                           /\ i < Len(u) /\ u[i + 1] = [role |-> "assistant", of |-> u[i].of]
                      ELSE u[i].role = "assistant"
    BY DEF PairedTurns
  <2>1. CASE i \in 1 .. n
    <3>1. u[i] = t[i]
      BY <1>5, <2>1
    <3>2. CASE i % 2 = 1
      <4>1. i < n /\ i + 1 \in 1 .. n
        <5>1. i < n
          BY <1>7, <2>1, <3>2
        <5>2. QED
          BY <1>7, <2>1, <5>1
      <4>2. u[i + 1] = t[i + 1] /\ i < Len(u)
        BY <1>5, <4>1
      <4>3. QED
        BY <1>6, <2>1, <3>1, <3>2, <4>2
    <3>3. CASE i % 2 # 1
      BY <1>6, <2>1, <3>1, <3>3
    <3>4. QED
      BY <3>2, <3>3
  <2>2. CASE i = n + 1
    <3>1. i % 2 = 1
      BY <1>5, <1>8, <2>2
    <3>2. u[i] = [role |-> "user", of |-> c] /\ u[i + 1] = [role |-> "assistant", of |-> c]
      BY <1>2, <1>5, <2>2
    <3>3. i < Len(u)
      BY <1>5, <2>2
    <3>4. QED
      BY <3>1, <3>2, <3>3
  <2>3. CASE i = n + 2
    <3>1. i % 2 = 0
      BY <1>5, <1>8, <2>3
    <3>2. u[i] = [role |-> "assistant", of |-> c]
      BY <1>2, <1>5, <2>3
    <3>3. QED
      BY <3>1, <3>2
  <2>4. QED
    BY <1>5, <2>1, <2>2, <2>3
<1>10. SubSeq(u, 1, n) = t
  <2>1. n \in 0 .. Len(u) /\ \A i \in 1 .. n : u[i] \in Turns
    BY <1>5
  <2>2. PICK v : v = SubSeq(u, 1, n)
    OBVIOUS
  <2>3. v \in Seq(Turns) /\ Len(v) = n /\ \A i \in 1 .. n : v[i] = u[i]
    BY <1>5, <2>1, <2>2, SubSeqProperties
  <2>4. v = t
    BY <1>4, <1>5, <2>3, SeqEqual
  <2>5. QED
    BY <2>2, <2>4
<1>11. QED
  BY <1>1, <1>3, <1>4, <1>5, <1>9, <1>10

SettledStep == \A s \in Sessions : Settled(s) => Grows(s) \/ Expires(s)

LEMMA SameContexts ==
  ASSUME CompletionsInv, UNCHANGED <<store, fresh, turns>>
  PROVE  StoreTyped' /\ TurnsArePaired'
BY DEF CompletionsInv, StoreTyped, TurnsArePaired

LEMMA ContextsKeep ==
  ASSUME CompletionsAssumption, CompletionsInv, NEW q, NEW x, ContextsAfter(q, x)
  PROVE  StoreTyped' /\ TurnsArePaired'
<1>1. CASE UNCHANGED <<store, fresh, turns>>
  BY <1>1, SameContexts
<1>2. CASE \E y \in Contexts \ InUse :
             /\ store' = [store EXCEPT ![q.session] = 0]
             /\ turns' = [turns EXCEPT ![y] = <<>>] /\ fresh' = [fresh EXCEPT ![y] = FALSE]
  <2>1. PICK y \in Contexts :
          /\ store' = [store EXCEPT ![q.session] = 0]
          /\ turns' = [turns EXCEPT ![y] = <<>>] /\ fresh' = [fresh EXCEPT ![y] = FALSE]
    BY <1>2
  <2>2. <<>> \in Seq(Turns) /\ PairedTurns(<<>>)
    BY EmptySeq DEF PairedTurns
  <2>3. StoreTyped'
    BY <2>1, <2>2 DEF CompletionsInv, StoreTyped
  <2>4. \A z \in Contexts : turns'[z] = IF z = y THEN <<>> ELSE turns[z]
    BY <2>1 DEF CompletionsInv, StoreTyped
  <2>5. TurnsArePaired'
    BY <2>2, <2>3, <2>4, PairedMeans DEF CompletionsInv
  <2>6. QED
    BY <2>3, <2>5
<1>3. QED
  BY <1>1, <1>2 DEF ContextsAfter

\* A step that leaves the context of a settled session alone.
LEMMA SameGrows ==
  ASSUME StoreTyped, NEW s \in Sessions, Settled(s),
         store'[s] = store[s], turns'[store[s]] = turns[store[s]],
         fresh'[store[s]] = fresh[store[s]],
         \A d \in Clients : job'[d].context # 0 /\ (\E q \in job'[d].ask : q.session = s)
                              => job'[d].context = store[s]
  PROVE  Grows(s)
<1>1. store[s] \in Contexts /\ turns[store[s]] \in Seq(Turns)
  BY DEF Settled, Live, StoreTyped
<1>2. Settled(s)'
  BY DEF Settled, Live, Holding
<1>3. SubSeq(turns[store[s]], 1, Len(turns[store[s]])) = turns[store[s]]
  BY <1>1, SubSeqFull
<1>4. Len(turns[store[s]]) \in Nat
  BY <1>1, LenProperties
<1>5. QED
  BY <1>2, <1>3, <1>4 DEF Grows

\* A request that begins holds the context of its session, or one that is nobody's.
LEMMA BegunSettles ==
  ASSUME CompletionsAssumption, CompletionsInv, NEW c \in Clients, NEW q, NEW j,
         job' = [job EXCEPT ![c] = j], ContextsAfter(q, j.context), j.ask \subseteq {q}
  PROVE  SettledStep
<1> SUFFICES ASSUME NEW s \in Sessions, Settled(s) PROVE Grows(s)
  BY DEF SettledStep
<1>1. StoreTyped /\ \A d \in Clients : job'[d] = IF d = c THEN j ELSE job[d]
  <2>1. job = [d \in Clients |-> job[d]]
    BY DEF CompletionsInv, JobsOK
  <2>2. QED
    BY <2>1 DEF CompletionsInv
<1>2. Live(s) /\ store[s] \in InUse /\ store[s] \in Contexts
  BY <1>1 DEF Settled, Live, InUse, StoreTyped
<1>3. \A d \in Clients : job[d].context # 0 /\ (\E r \in job[d].ask : r.session = s)
                           => job[d].context = store[s]
  BY DEF Settled, Holding
<1>4. CASE UNCHANGED <<store, fresh, turns>>
  <2>1. j.context # 0 /\ (\E r \in j.ask : r.session = s) => j.context = store[s]
    BY <1>2, <1>4 DEF ContextsAfter
  <2>2. QED
    BY <1>1, <1>3, <1>4, <2>1, SameGrows
<1>5. CASE /\ ~Live(q.session) /\ store' = [store EXCEPT ![q.session] = 0]
           /\ \E y \in Contexts \ InUse :
                turns' = [turns EXCEPT ![y] = <<>>] /\ fresh' = [fresh EXCEPT ![y] = FALSE]
  <2>1. q.session # s
    BY <1>2, <1>5
  <2>2. PICK y \in Contexts \ InUse :
          turns' = [turns EXCEPT ![y] = <<>>] /\ fresh' = [fresh EXCEPT ![y] = FALSE]
    BY <1>5
  <2>3. y # store[s]
    BY <1>2
  <2>4. /\ store'[s] = store[s] /\ turns'[store[s]] = turns[store[s]]
        /\ fresh'[store[s]] = fresh[store[s]]
    BY <1>1, <1>2, <1>5, <2>1, <2>2, <2>3 DEF StoreTyped
  <2>5. ~(\E r \in j.ask : r.session = s)
    BY <2>1
  <2>6. QED
    BY <1>1, <1>3, <2>4, <2>5, SameGrows
<1>6. QED
  BY <1>4, <1>5 DEF ContextsAfter

\* A handler that ends, or goes on with what it holds.
LEMMA OtherSettles ==
  ASSUME CompletionsInv, NEW c \in Clients, NEW j, job' = [job EXCEPT ![c] = j],
         UNCHANGED <<store, fresh, turns>>,
         j.ask = {} \/ (j.ask = job[c].ask /\ j.context = job[c].context)
  PROVE  SettledStep
<1> SUFFICES ASSUME NEW s \in Sessions, Settled(s) PROVE Grows(s)
  BY DEF SettledStep
<1>1. StoreTyped /\ \A d \in Clients : job'[d] = IF d = c THEN j ELSE job[d]
  <2>1. job = [d \in Clients |-> job[d]]
    BY DEF CompletionsInv, JobsOK
  <2>2. QED
    BY <2>1 DEF CompletionsInv
<1>2. \A d \in Clients : job[d].context # 0 /\ (\E r \in job[d].ask : r.session = s)
                           => job[d].context = store[s]
  BY DEF Settled, Holding
<1>3. QED
  BY <1>1, <1>2, SameGrows

LEMMA JobStepKeeps ==
  ASSUME CompletionsInv, StoreTyped', TurnsArePaired', NEW c \in Clients, NEW j,
         job' = [job EXCEPT ![c] = j], JobOK(j),
         batch' = [d \in Clients |-> batch'[d]], batch'["decision"] = NoBatch,
         PanelOK(panel', job'["decision"])
  PROVE  CompletionsInv'
<1>1. job' = [d \in Clients |-> IF d = c THEN j ELSE job[d]]
  BY DEF CompletionsInv, JobsOK
<1>2. \A d \in Clients : JobOK(job'[d])
  BY <1>1 DEF CompletionsInv, JobsOK
<1>3. JobsOK'
  <2>1. \A d \in Clients : JobOK(job[d])'
    BY <1>2 DEF JobOK
  <2>2. QED
    BY <1>1, <2>1 DEF JobsOK
<1>4. PanelOK(panel, job["decision"])'
  BY DEF PanelOK
<1>5. QED
  BY <1>3, <1>4 DEF CompletionsInv

\* What the handler of another client does is nothing to the decision agent.
LEMMA OthersJob ==
  ASSUME CompletionsInv, NEW c \in Clients, NEW j, job' = [job EXCEPT ![c] = j], c # "decision"
  PROVE  job'["decision"] = job["decision"]
<1>1. "decision" \in Clients
  BY DEF Clients
<1>2. QED
  BY <1>1 DEF CompletionsInv, JobsOK

-----------------------------------------------------------------------------
(* Each step keeps the invariant and the settled conversations.                *)
LEMMA BegunMeans ==
  ASSUME NEW j, NEW q, BegunJob(j, q)
  PROVE  JobOK(j) /\ ContextsAfter(q, j.context) /\ j.ask \subseteq {q}
BY DEF BegunJob, RoutedJob, QuietJob, CallingJob

LEMMA BegunKeeps ==
  ASSUME CompletionsAssumption, CompletionsInv, NEW c \in Clients, NEW q, NEW j,
         job' = [job EXCEPT ![c] = j], BegunJob(j, q), batch' = batch,
         PanelOK(panel', job'["decision"])
  PROVE  CompletionsInv' /\ SettledStep
<1>1. JobOK(j) /\ ContextsAfter(q, j.context) /\ j.ask \subseteq {q}
  BY BegunMeans
<1>2. StoreTyped' /\ TurnsArePaired'
  BY <1>1, ContextsKeep
<1>3. batch' = [d \in Clients |-> batch'[d]] /\ batch'["decision"] = NoBatch
  BY DEF CompletionsInv, JobsOK
<1>4. CompletionsInv'
  BY <1>1, <1>2, <1>3, JobStepKeeps
<1>5. SettledStep
  BY <1>1, BegunSettles
<1>6. QED
  BY <1>4, <1>5

LEMMA UserAsksKeeps ==
  ASSUME CompletionsAssumption, CompletionsInv, NEW c \in Users, NEW q \in Menu, UserAsks(c, q)
  PROVE  CompletionsInv' /\ SettledStep
<1>1. c \in Clients /\ c # "decision" /\ q \in Requests
  BY DEF Clients, CompletionsAssumption
<1>2. Begins(c, q) /\ panel' = panel /\ batch' = batch
  BY DEF UserAsks, Begins
<1>3. PICK j : job' = [job EXCEPT ![c] = j] /\ BegunJob(j, q)
  BY <1>1, <1>2, BeginsIsOK DEF CompletionsInv
<1>4. PanelOK(panel', job'["decision"])
  BY <1>1, <1>2, <1>3, OthersJob DEF CompletionsInv
<1>5. QED
  BY <1>1, <1>2, <1>3, <1>4, BegunKeeps

LEMMA ClassifiedKeeps ==
  ASSUME CompletionsAssumption, CompletionsInv, NEW c \in Clients, Classified(c)
  PROVE  CompletionsInv' /\ SettledStep
<1>1. c # "decision"
  BY DEF Classified, CompletionsInv, PanelOK
<1>2. job[c].ask \subseteq Requests
  BY DEF CompletionsInv, JobsOK, JobOK, Jobs
<1>3. PICK q \in Requests : \E type \in Phi3Types \cup {q.hint} : Routed(c, q, type)
  BY <1>2 DEF Classified
<1>4. q.hint \in TaskTypes /\ Phi3Types \subseteq TaskTypes
  BY DEF Requests, TaskTypes, CompletionsAssumption
<1>5. PICK type \in TaskTypes : Routed(c, q, type)
  BY <1>3, <1>4
<1>6. PICK j : job' = [job EXCEPT ![c] = j] /\ RoutedJob(j, q)
  BY <1>5, RoutedIsOK DEF CompletionsInv
<1>7. panel' = panel /\ batch' = batch
  BY DEF Classified
<1>8. PanelOK(panel', job'["decision"])
  BY <1>1, <1>6, <1>7, OthersJob DEF CompletionsInv
<1>9. QED
  BY <1>6, <1>7, <1>8, BegunKeeps DEF BegunJob

\* A step after which a handler has ended or waits on, and no conversation changed.
LEMMA OtherKeeps ==
  ASSUME CompletionsInv, NEW c \in Clients, NEW j, job' = [job EXCEPT ![c] = j], JobOK(j),
         UNCHANGED <<store, fresh, turns>>,
         j.ask = {} \/ (j.ask = job[c].ask /\ j.context = job[c].context),
         batch' = [d \in Clients |-> batch'[d]], batch'["decision"] = NoBatch,
         PanelOK(panel', job'["decision"])
  PROVE  CompletionsInv' /\ SettledStep
<1>1. StoreTyped' /\ TurnsArePaired'
  BY SameContexts
<1>2. CompletionsInv'
  BY <1>1, JobStepKeeps
<1>3. SettledStep
  BY OtherSettles
<1>4. QED
  BY <1>2, <1>3

LEMMA SameJob ==
  ASSUME CompletionsInv, NEW c \in Clients, job' = job
  PROVE  job' = [job EXCEPT ![c] = job[c]] /\ JobOK(job[c])
BY DEF CompletionsInv, JobsOK

LEMMA RaisesKeeps ==
  ASSUME CompletionsInv, NEW c \in Clients, Raises(c)
  PROVE  CompletionsInv' /\ SettledStep
<1>1. /\ job[c].pc \in {"primary", "fallback"} /\ UNCHANGED <<store, fresh, turns, batch, panel>>
      /\ JobOK(job[c]) /\ job[c] \in Jobs
  BY DEF Raises, CompletionsInv, JobsOK, JobOK
<1>2. batch' = [d \in Clients |-> batch'[d]] /\ batch'["decision"] = NoBatch
  BY <1>1 DEF CompletionsInv, JobsOK
<1>3. "decision" \in Clients /\ PanelOK(panel, job["decision"])
  BY DEF Clients, CompletionsInv
<1>4. /\ job[c].primary \in ModelID /\ job[c].fallback \in ModelID
      /\ job[c].primary # job[c].fallback
  BY <1>1 DEF JobOK
<1>5. CASE job[c].pc = "primary"
  <2>1. PICK j : j = [job[c] EXCEPT !.pc = "fallback", !.raised = {job[c].primary}]
    OBVIOUS
  <2>2. job[c].raised \cup {Asked(c)} = {job[c].primary}
    BY <1>1, <1>5 DEF JobOK, Asked
  <2>3. job' = [job EXCEPT ![c].pc = "fallback", ![c].raised = {job[c].primary}]
    BY <1>4, <1>5, <2>2 DEF Raises
  <2>4. job' = [job EXCEPT ![c] = j]
    BY <2>1, <2>3 DEF CompletionsInv, JobsOK
  <2>5. /\ j \in Jobs /\ j.pc = "fallback" /\ j.raised = {job[c].primary}
        /\ j.ask = job[c].ask /\ j.primary = job[c].primary /\ j.fallback = job[c].fallback
        /\ j.context = job[c].context /\ j.reply = job[c].reply
    BY <1>1, <1>4, <2>1 DEF Jobs
  <2>6. j.reply = None
    BY <1>1, <1>5, <2>5 DEF JobOK
  <2>7. JobOK(j)
    BY <1>4, <2>5, <2>6 DEF JobOK, None
  <2>8. PanelOK(panel', job'["decision"])
    <3>1. CASE c # "decision"
      BY <1>1, <1>3, <2>4, <3>1, OthersJob
    <3>2. CASE c = "decision"
      <4>1. job'["decision"] = j
        BY <2>4, <3>2 DEF CompletionsInv, JobsOK
      <4>2. QED
        BY <1>1, <1>3, <1>5, <2>5, <2>6, <3>2, <4>1 DEF PanelOK, None
    <3>3. QED
      BY <3>1, <3>2
  <2>9. QED
    BY <1>1, <1>2, <2>4, <2>5, <2>7, <2>8, OtherKeeps
<1>6. CASE job[c].pc = "fallback"
  <2>1. PICK raised : raised = {job[c].primary, job[c].fallback}
    OBVIOUS
  <2>2. job[c].raised \cup {Asked(c)} = raised /\ raised \subseteq ModelID
    BY <1>1, <1>4, <1>6, <2>1 DEF JobOK, Asked
  <2>3. Cardinality(raised) = 2
    <3>1. IsFiniteSet({job[c].primary}) /\ Cardinality({job[c].primary}) = 1
      BY FS_Singleton
    <3>2. job[c].fallback \notin {job[c].primary}
      BY <1>4
    <3>3. Cardinality({job[c].primary} \cup {job[c].fallback}) = 1 + 1
      BY <3>1, <3>2, FS_AddElement
    <3>4. raised = {job[c].primary} \cup {job[c].fallback}
      BY <2>1
    <3>5. QED
      BY <3>3, <3>4
  <2>4. Replies(c, "unavailable", None, raised)
    BY <1>6, <2>2 DEF Raises
  <2>5. PICK j : j = Quiet("unavailable", None, raised)
    OBVIOUS
  <2>6. JobOK(j) /\ j.pc = "idle" /\ j.ask = {} /\ j.reply = "unavailable"
    <3>1. "unavailable" \in Responses /\ None \in ModelOrNone
      BY DEF Responses, ModelOrNone
    <3>2. QED
      BY <2>2, <2>3, <2>5, <3>1, QuietIsOK
  <2>7. job' = [job EXCEPT ![c] = j]
    BY <2>4, <2>5 DEF Replies
  <2>8. PanelOK(panel', job'["decision"])
    <3>1. CASE c # "decision"
      BY <1>1, <1>3, <2>7, <3>1, OthersJob
    <3>2. CASE c = "decision"
      <4>1. job'["decision"] = j
        BY <2>7, <3>2 DEF CompletionsInv, JobsOK
      <4>2. QED
        BY <1>1, <1>3, <1>6, <2>6, <3>2, <4>1 DEF PanelOK
    <3>3. QED
      BY <3>1, <3>2
  <2>9. QED
    BY <1>1, <1>2, <2>6, <2>7, <2>8, OtherKeeps
<1>7. QED
  BY <1>1, <1>5, <1>6

\* An answer that the filter lets through is remembered as a pair of turns.
LEMMA RemembersKeeps ==
  ASSUME CompletionsAssumption, CompletionsInv, NEW c \in Clients, NEW q \in job[c].ask,
         Remembers(c, q), NEW j, job' = [job EXCEPT ![c] = j], j.ask = {}
  PROVE  StoreTyped' /\ TurnsArePaired' /\ SettledStep
<1>1. CASE job[c].context = 0
  BY <1>1, SameContexts, OtherSettles DEF Remembers
<1>2. CASE job[c].context # 0
  <2>1. PICK x : x = job[c].context
    OBVIOUS
  <2>2. x \in Contexts /\ x # 0
    BY <1>2, <2>1 DEF CompletionsInv, JobsOK, JobOK, Jobs
  <2>3. PICK u : u = turns[x] \o <<[role |-> "user", of |-> c], [role |-> "assistant", of |-> c]>>
    OBVIOUS
  <2>4. StoreTyped /\ turns[x] \in Seq(Turns) /\ PairedTurns(turns[x])
    BY <2>2, PairedMeans DEF CompletionsInv, StoreTyped
  <2>5. /\ u \in Seq(Turns) /\ PairedTurns(u)
        /\ Len(u) >= Len(turns[x]) /\ SubSeq(u, 1, Len(turns[x])) = turns[x]
    BY <2>3, <2>4, PairAdded
  <2>6. /\ turns' = [turns EXCEPT ![x] = u] /\ fresh' = [fresh EXCEPT ![x] = TRUE]
        /\ store' = [store EXCEPT ![q.session] = x]
    BY <1>2, <2>1, <2>3 DEF Remembers
  <2>7. StoreTyped'
    BY <2>2, <2>4, <2>5, <2>6 DEF StoreTyped
  <2>8. \A y \in Contexts : turns'[y] = IF y = x THEN u ELSE turns[y]
    BY <2>4, <2>6 DEF StoreTyped
  <2>9. TurnsArePaired'
    BY <2>5, <2>7, <2>8, PairedMeans DEF CompletionsInv
  <2>10. SettledStep
    <3> SUFFICES ASSUME NEW s \in Sessions, Settled(s) PROVE Grows(s)
      BY DEF SettledStep
    <3>1. Live(s) /\ store[s] \in Contexts
      BY <2>4 DEF Settled, Live, StoreTyped
    <3>2. q.session = s => x = store[s]
      BY <1>2, <2>1 DEF Settled, Holding
    <3>3. store'[s] = store[s]
      BY <2>4, <2>6, <3>2 DEF StoreTyped
    <3>4. \A d \in Clients : job'[d] = IF d = c THEN j ELSE job[d]
      BY DEF CompletionsInv, JobsOK
    <3>5. \A d \in Clients : job'[d].context # 0 /\ (\E r \in job'[d].ask : r.session = s)
                               => job'[d].context = store[s]
      BY <3>4 DEF Settled, Holding
    <3>6. CASE x # store[s]
      <4>1. turns'[store[s]] = turns[store[s]] /\ fresh'[store[s]] = fresh[store[s]]
        BY <2>4, <2>6, <3>1, <3>6 DEF StoreTyped
      <4>2. QED
        BY <2>4, <3>3, <3>5, <4>1, SameGrows
    <3>7. CASE x = store[s]
      <4>1. turns'[store[s]] = u /\ fresh'[store[s]] = TRUE
        BY <2>4, <2>6, <3>1, <3>7 DEF StoreTyped
      <4>2. Settled(s)'
        BY <2>2, <3>3, <3>5, <3>7, <4>1 DEF Settled, Live, Holding
      <4>3. QED
        BY <2>5, <3>3, <3>7, <4>1, <4>2 DEF Grows
    <3>8. QED
      BY <3>6, <3>7
  <2>11. QED
    BY <2>7, <2>9, <2>10
<1>3. QED
  BY <1>1, <1>2

LEMMA AnswersKeeps ==
  ASSUME CompletionsAssumption, CompletionsInv, NEW c \in Clients, Answers(c)
  PROVE  CompletionsInv' /\ SettledStep
<1>1. /\ job[c].pc \in {"primary", "fallback"} /\ UNCHANGED <<batch, panel>>
      /\ JobOK(job[c]) /\ job[c] \in Jobs
  BY DEF Answers, CompletionsInv, JobsOK, JobOK
<1>2. batch' = [d \in Clients |-> batch'[d]] /\ batch'["decision"] = NoBatch
  BY <1>1 DEF CompletionsInv, JobsOK
<1>3. "decision" \in Clients /\ PanelOK(panel, job["decision"])
  BY DEF Clients, CompletionsInv
<1>4. Asked(c) \in ModelOrNone /\ job[c].raised \subseteq ModelID
  BY <1>1 DEF Asked, Jobs
<1>5. PICK q \in job[c].ask :
        \/ Replies(c, "answered", Asked(c), job[c].raised) /\ Remembers(c, q)
        \/ Replies(c, "withheld", None, job[c].raised) /\ UNCHANGED <<store, fresh, turns>>
  BY DEF Answers
<1>6. CASE Replies(c, "answered", Asked(c), job[c].raised) /\ Remembers(c, q)
  <2>1. PICK j : j = Quiet("answered", Asked(c), job[c].raised)
    OBVIOUS
  <2>2. /\ JobOK(j) /\ j.pc = "idle" /\ j.ask = {} /\ j.reply = "answered" /\ j.used = Asked(c)
        /\ j.raised = job[c].raised
    <3>1. "answered" \in Responses
      BY DEF Responses
    <3>2. QED
      BY <1>4, <2>1, <3>1, QuietIsOK
  <2>3. job' = [job EXCEPT ![c] = j]
    BY <1>6, <2>1 DEF Replies
  <2>4. StoreTyped' /\ TurnsArePaired' /\ SettledStep
    BY <1>6, <2>2, <2>3, RemembersKeeps
  <2>5. PanelOK(panel', job'["decision"])
    <3>1. CASE c # "decision"
      BY <1>1, <1>3, <2>3, <3>1, OthersJob
    <3>2. CASE c = "decision"
      <4>1. job'["decision"] = j
        BY <2>3, <3>2 DEF CompletionsInv, JobsOK
      <4>2. Len(panel.heard) < Len(panel.script)
        BY <1>1, <1>3, <3>2 DEF PanelOK
      <4>3. j.raised = {} => j.used = panel.script[Len(panel.heard) + 1]
        BY <1>1, <1>3, <2>2, <3>2 DEF PanelOK, JobOK, Asked
      <4>4. QED
        BY <1>1, <1>3, <2>2, <4>1, <4>2, <4>3 DEF PanelOK
    <3>3. QED
      BY <3>1, <3>2
  <2>6. CompletionsInv'
    BY <1>2, <2>2, <2>3, <2>4, <2>5, JobStepKeeps
  <2>7. QED
    BY <2>4, <2>6
<1>7. CASE Replies(c, "withheld", None, job[c].raised) /\ UNCHANGED <<store, fresh, turns>>
  <2>1. PICK j : j = Quiet("withheld", None, job[c].raised)
    OBVIOUS
  <2>2. /\ JobOK(j) /\ j.pc = "idle" /\ j.ask = {} /\ j.reply = "withheld"
    <3>1. "withheld" \in Responses /\ None \in ModelOrNone
      BY DEF Responses, ModelOrNone
    <3>2. QED
      BY <1>4, <2>1, <3>1, QuietIsOK
  <2>3. job' = [job EXCEPT ![c] = j]
    BY <1>7, <2>1 DEF Replies
  <2>4. PanelOK(panel', job'["decision"])
    <3>1. CASE c # "decision"
      BY <1>1, <1>3, <2>3, <3>1, OthersJob
    <3>2. CASE c = "decision"
      <4>1. job'["decision"] = j
        BY <2>3, <3>2 DEF CompletionsInv, JobsOK
      <4>2. QED
        BY <1>1, <1>3, <2>2, <3>2, <4>1 DEF PanelOK
    <3>3. QED
      BY <3>1, <3>2
  <2>5. QED
    BY <1>2, <1>7, <2>2, <2>3, <2>4, OtherKeeps
<1>8. QED
  BY <1>5, <1>6, <1>7

-----------------------------------------------------------------------------
(* Batches are the users' alone.                                               *)
LEMMA BatchVettedKeeps ==
  ASSUME CompletionsInv, NEW c \in Clients, BatchVetted(c)
  PROVE  CompletionsInv' /\ SettledStep
<1>1. /\ c # "decision" /\ UNCHANGED <<store, fresh, turns, panel>> /\ job[c].pc = "vetting"
      /\ JobOK(job[c]) /\ job[c] \in Jobs
  BY DEF BatchVetted, CompletionsInv, PanelOK, JobsOK, JobOK
<1>2. /\ PanelOK(panel, job["decision"]) /\ batch = [d \in Clients |-> batch[d]]
      /\ batch["decision"] = NoBatch
  BY DEF CompletionsInv, JobsOK
<1>3. PICK q \in job[c].ask, n \in UNION {r.batch : r \in job[c].ask} :
        \/ Replies(c, "cancelled", None, {}) /\ UNCHANGED batch
        \/ /\ job' = [job EXCEPT ![c].pc = "batch"]
           /\ batch' = [batch EXCEPT ![c] = [limit |-> Limit(q),
                                             items |-> [i \in 1..n |-> "waiting"]]]
  BY DEF BatchVetted
<1>4. CASE Replies(c, "cancelled", None, {}) /\ UNCHANGED batch
  <2>1. PICK j : job' = [job EXCEPT ![c] = j] /\ JobOK(j) /\ QuietJob(j) /\ j.reply = "cancelled"
    BY <1>4, RepliesIsQuiet DEF QuietReplies
  <2>2. j.ask = {}
    BY <2>1 DEF QuietJob
  <2>3. PanelOK(panel', job'["decision"])
    BY <1>1, <1>2, <2>1, OthersJob
  <2>4. QED
    BY <1>1, <1>2, <1>4, <2>1, <2>2, <2>3, OtherKeeps
<1>5. CASE /\ job' = [job EXCEPT ![c].pc = "batch"]
           /\ batch' = [batch EXCEPT ![c] = [limit |-> Limit(q),
                                             items |-> [i \in 1..n |-> "waiting"]]]
  <2>1. PICK j : j = [job[c] EXCEPT !.pc = "batch"]
    OBVIOUS
  <2>2. /\ j \in Jobs /\ j.pc = "batch" /\ j.ask = job[c].ask /\ j.context = job[c].context
        /\ j.reply = job[c].reply
    BY <1>1, <2>1 DEF Jobs
  <2>3. JobOK(j)
    <3>1. j.reply = None
      BY <1>1, <2>2 DEF JobOK
    <3>2. QED
      BY <2>2, <3>1 DEF JobOK, None
  <2>4. job' = [job EXCEPT ![c] = j]
    BY <1>5, <2>1 DEF CompletionsInv, JobsOK
  <2>5. PanelOK(panel', job'["decision"])
    BY <1>1, <1>2, <2>4, OthersJob
  <2>6. batch' = [d \in Clients |-> batch'[d]] /\ batch'["decision"] = NoBatch
    <3>1. PICK b : b = [limit |-> Limit(q), items |-> [i \in 1..n |-> "waiting"]]
      OBVIOUS
    <3>2. batch' = [batch EXCEPT ![c] = b]
      BY <1>5, <3>1
    <3>3. "decision" \in Clients
      BY DEF Clients
    <3>4. QED
      BY <1>1, <1>2, <3>2, <3>3
  <2>7. QED
    BY <1>1, <2>2, <2>3, <2>4, <2>5, <2>6, OtherKeeps
<1>6. QED
  BY <1>3, <1>4, <1>5

\* The decision agent has no call to run.
LEMMA NoItems ==
  ASSUME CompletionsInv
  PROVE  Items("decision") = {} /\ batch["decision"].limit = 0
<1>1. batch["decision"].items = <<>> /\ batch["decision"].limit = 0
  BY DEF CompletionsInv, JobsOK, NoBatch
<1>2. QED
  BY <1>1 DEF Items

LEMMA SetItemKeeps ==
  ASSUME CompletionsInv, NEW c \in Clients, NEW i \in Items(c), NEW state, SetItem(c, i, state)
  PROVE  c # "decision" /\ batch' = [d \in Clients |-> batch'[d]] /\ batch'["decision"] = NoBatch
<1>1. c # "decision" /\ "decision" \in Clients
  BY NoItems DEF Clients
<1>2. batch = [d \in Clients |-> batch[d]] /\ batch["decision"] = NoBatch
  BY DEF CompletionsInv, JobsOK
<1>3. PICK b : b = [batch[c] EXCEPT !.items[i] = state]
  OBVIOUS
<1>4. batch' = [batch EXCEPT ![c] = b]
  BY <1>2, <1>3 DEF SetItem
<1>5. QED
  BY <1>1, <1>2, <1>4

\* A step of a batch answers its request, or leaves it alone.
LEMMA BatchStepKeeps ==
  ASSUME CompletionsInv, NEW c \in Clients, UNCHANGED <<store, fresh, turns, panel>>,
         c # "decision", NEW reply \in {"batch", "error"},
         Replies(c, reply, None, {}) \/ job' = job,
         batch' = [d \in Clients |-> batch'[d]], batch'["decision"] = NoBatch
  PROVE  CompletionsInv' /\ SettledStep
<1>1. PanelOK(panel, job["decision"])
  BY DEF CompletionsInv
<1>2. PICK j : job' = [job EXCEPT ![c] = j] /\ JobOK(j) /\ (j.ask = {} \/ j = job[c])
  <2>1. CASE Replies(c, reply, None, {})
    <3>1. reply \in QuietReplies
      BY DEF QuietReplies
    <3>2. PICK j : job' = [job EXCEPT ![c] = j] /\ JobOK(j) /\ QuietJob(j)
      BY <2>1, <3>1, RepliesIsQuiet
    <3>3. QED
      BY <3>2 DEF QuietJob
  <2>2. CASE job' = job
    BY <2>2, SameJob
  <2>3. QED
    BY <2>1, <2>2
<1>3. PanelOK(panel', job'["decision"])
  BY <1>1, <1>2, OthersJob
<1>4. QED
  BY <1>2, <1>3, OtherKeeps

LEMMA ItemStartsKeeps ==
  ASSUME CompletionsInv, NEW c \in Clients, ItemStarts(c)
  PROVE  CompletionsInv' /\ SettledStep
<1>1. PICK i \in Items(c) : SetItem(c, i, "checking")
  BY DEF ItemStarts
<1>2. c # "decision" /\ batch' = [d \in Clients |-> batch'[d]] /\ batch'["decision"] = NoBatch
  BY <1>1, SetItemKeeps
<1>3. UNCHANGED <<store, fresh, turns, job, panel>>
  BY DEF ItemStarts
<1>4. QED
  BY <1>2, <1>3, BatchStepKeeps

LEMMA ItemProceedsKeeps ==
  ASSUME CompletionsInv, NEW c \in Clients, NEW i \in Items(c), ItemProceeds(c, i)
  PROVE  CompletionsInv' /\ SettledStep
<1>1. PICK state \in {"running", "blocked", "completed", "late", "raised"} : SetItem(c, i, state)
  BY DEF ItemProceeds
<1>2. c # "decision" /\ batch' = [d \in Clients |-> batch'[d]] /\ batch'["decision"] = NoBatch
  BY <1>1, SetItemKeeps
<1>3. UNCHANGED <<store, fresh, turns, panel>> /\ (Replies(c, "error", None, {}) \/ job' = job)
  BY DEF ItemProceeds
<1>4. QED
  BY <1>2, <1>3, BatchStepKeeps

LEMMA BatchEndsKeeps ==
  ASSUME CompletionsInv, NEW c \in Clients, BatchEnds(c)
  PROVE  CompletionsInv' /\ SettledStep
<1>1. c # "decision"
  BY DEF BatchEnds, CompletionsInv, JobsOK, PanelOK
<1>2. batch' = [d \in Clients |-> batch'[d]] /\ batch'["decision"] = NoBatch
  <2>1. "decision" \in Clients /\ batch' = [batch EXCEPT ![c] = NoBatch]
    BY DEF Clients, BatchEnds
  <2>2. QED
    BY <1>1, <2>1 DEF CompletionsInv, JobsOK
<1>3. UNCHANGED <<store, fresh, turns, panel>> /\ (Replies(c, "batch", None, {}) \/ job' = job)
  BY DEF BatchEnds
<1>4. QED
  BY <1>1, <1>2, <1>3, BatchStepKeeps

-----------------------------------------------------------------------------
(* A context that passes its time to live is the one way to lose a conversation. *)
LEMMA ExpiresKeeps ==
  ASSUME CompletionsInv, NEW s \in Sessions, Expires(s)
  PROVE  CompletionsInv' /\ SettledStep
<1>1. /\ UNCHANGED <<store, turns, job, batch, panel>> /\ Live(s)
      /\ fresh' = [fresh EXCEPT ![store[s]] = FALSE] /\ StoreTyped
  BY DEF Expires, CompletionsInv
<1>2. StoreTyped' /\ TurnsArePaired'
  BY <1>1 DEF StoreTyped, CompletionsInv, TurnsArePaired
<1>3. CompletionsInv'
  BY <1>1, <1>2 DEF CompletionsInv, JobsOK, JobOK, PanelOK
<1>4. SettledStep
  <2> SUFFICES ASSUME NEW t \in Sessions, Settled(t) PROVE Grows(t) \/ Expires(t)
    BY DEF SettledStep
  <2>1. CASE store[t] = store[s]
    <3>1. Live(t) /\ fresh' = [fresh EXCEPT ![store[t]] = FALSE]
      BY <1>1, <2>1 DEF Live
    <3>2. UNCHANGED <<store, turns, job, batch, panel, left>>
      BY DEF Expires
    <3>3. QED
      BY <3>1, <3>2 DEF Expires
  <2>2. CASE store[t] # store[s]
    <3>1. store[t] \in Contexts
      BY <1>1 DEF Settled, Live, StoreTyped
    <3>2. fresh'[store[t]] = fresh[store[t]]
      BY <1>1, <2>2, <3>1 DEF StoreTyped
    <3>3. \A d \in Clients : job'[d].context # 0 /\ (\E q \in job'[d].ask : q.session = t)
                               => job'[d].context = store[t]
      BY <1>1 DEF Settled, Holding
    <3>4. QED
      BY <1>1, <3>2, <3>3, SameGrows
  <2>3. QED
    BY <2>1, <2>2
<1>5. QED
  BY <1>3, <1>4

-----------------------------------------------------------------------------
(* The decision agent.                                                         *)
LEMMA NoPanelTyped == NoPanel \in Panels
<1>1. <<>> \in Seq(ModelID) /\ <<>> \in Seq([asked : ModelID, used : ModelOrNone])
  BY EmptySeq
<1>2. QED
  BY <1>1 DEF NoPanel, Panels

LEMMA ScriptsTyped == Scripts \subseteq Seq(ModelID)
<1>1. "claude" \in ModelID /\ "openai-gpt5" \in ModelID /\ "openai-gpt45" \in ModelID
  BY DEF ModelID, OpenAI
<1>2. DeepAnalysis \in Seq(ModelID)
  BY <1>1 DEF DeepAnalysis
<1>3. Committee \in Seq(ModelID)
  BY <1>1, <1>2, AppendProperties DEF Committee
<1>4. QED
  BY <1>2, <1>3 DEF Scripts

\* A panel without a call under way.
LEMMA RestingPanel ==
  ASSUME NEW p \in Panels, Len(p.heard) <= Len(p.script),
         p.raised = {} => \A i \in 1 .. Len(p.heard) : p.heard[i].used = p.script[i],
         NEW j, j.pc = "idle", j.reply = None
  PROVE  PanelOK(p, j)
BY DEF PanelOK, None

LEMMA EmptyPanel ==
  ASSUME NEW script \in Seq(ModelID), NEW j, j.pc = "idle", j.reply = None
  PROVE  PanelOK([NoPanel EXCEPT !.script = script], j)
<1>1. PICK p : p = [NoPanel EXCEPT !.script = script]
  OBVIOUS
<1>2. p \in Panels /\ p.heard = <<>> /\ p.script = script
  BY <1>1, NoPanelTyped DEF Panels, NoPanel
<1>3. Len(p.heard) = 0 /\ Len(p.script) \in Nat
  BY <1>2, LenProperties
<1>4. QED
  <2>1. \A i \in 1 .. Len(p.heard) : FALSE
    BY <1>3
  <2>2. PanelOK(p, j)
    BY <1>2, <1>3, <2>1, RestingPanel
  <2>3. QED
    BY <1>1, <2>2

\* With nothing left to ask, no call of the decision agent is under way.
LEMMA NothingAsked ==
  ASSUME CompletionsInv, ~(Len(panel.heard) < Len(panel.script))
  PROVE  job["decision"].pc = "idle" /\ job["decision"].reply = None
BY DEF CompletionsInv, PanelOK

LEMMA DecisionRests ==
  ASSUME CompletionsInv, job' = job, UNCHANGED <<store, fresh, turns, batch>>,
         PanelOK(panel', job["decision"])
  PROVE  CompletionsInv' /\ SettledStep
<1>1. "decision" \in Clients
  BY DEF Clients
<1>2. job' = [job EXCEPT !["decision"] = job["decision"]] /\ JobOK(job["decision"])
  BY <1>1, SameJob
<1>3. batch' = [d \in Clients |-> batch'[d]] /\ batch'["decision"] = NoBatch
  BY DEF CompletionsInv, JobsOK
<1>4. QED
  BY <1>1, <1>2, <1>3, OtherKeeps

LEMMA PanelConvenesKeeps ==
  ASSUME CompletionsInv, NEW script \in Scripts, PanelConvenes(script)
  PROVE  CompletionsInv' /\ SettledStep
<1>1. panel = NoPanel /\ panel' = [NoPanel EXCEPT !.script = script]
      /\ UNCHANGED <<store, fresh, turns, job, batch>>
  BY DEF PanelConvenes
<1>2. Len(panel.heard) = 0 /\ Len(panel.script) = 0
  BY <1>1 DEF NoPanel
<1>3. job["decision"].pc = "idle" /\ job["decision"].reply = None
  BY <1>2, NothingAsked
<1>4. PanelOK(panel', job["decision"])
  BY <1>1, <1>3, ScriptsTyped, EmptyPanel
<1>5. QED
  BY <1>1, <1>4, DecisionRests

LEMMA PanelReportsKeeps ==
  ASSUME CompletionsInv, PanelReports
  PROVE  CompletionsInv' /\ SettledStep
<1>1. /\ Len(panel.heard) = Len(panel.script) /\ panel' = NoPanel
      /\ UNCHANGED <<store, fresh, turns, job, batch>>
  BY DEF PanelReports
<1>2. Len(panel.script) \in Nat
  BY LenProperties DEF CompletionsInv, PanelOK, Panels
<1>3. job["decision"].pc = "idle" /\ job["decision"].reply = None
  BY <1>1, <1>2, NothingAsked
<1>4. PanelOK(panel', job["decision"])
  <2>1. NoPanel.heard = <<>> /\ NoPanel.script = <<>>
    BY DEF NoPanel
  <2>2. QED
    BY <1>1, <1>3, <2>1, NoPanelTyped, RestingPanel
<1>5. QED
  BY <1>1, <1>4, DecisionRests

LEMMA PanelRequestTyped ==
  ASSUME NEW model \in ModelID
  PROVE  /\ PanelRequest(model) \in Requests /\ PanelRequest(model).force = model
         /\ PanelRequest(model).keyword # None /\ PanelRequest(model).batch = {}
         /\ model # None
<1>1. "high_risk_decision" \in FastPathTypes /\ "complex_reasoning" \in HeuristicTypes
  BY DEF FastPathTypes, HeuristicTypes
<1>2. "preprod" \in Environments /\ "plain" \in Inputs
  BY DEF Environments, Inputs
<1>3. model # None
  BY DEF ModelID, GpuModels, OpenAI, None
<1>4. "high_risk_decision" # None
  BY DEF None
<1>5. PICK q : q = PanelRequest(model)
  OBVIOUS
<1>6. q.force = model /\ q.keyword = "high_risk_decision" /\ q.batch = {}
  BY <1>5 DEF PanelRequest
<1>7. q \in Requests
  BY <1>1, <1>2, <1>5 DEF PanelRequest, Requests
<1>8. QED
  BY <1>3, <1>4, <1>5, <1>6, <1>7

LEMMA PanelAsksKeeps ==
  ASSUME CompletionsAssumption, CompletionsInv, PanelAsks
  PROVE  CompletionsInv' /\ SettledStep
<1>1. PICK n : n = Len(panel.heard)
  OBVIOUS
<1>2. /\ n < Len(panel.script) /\ panel' = panel /\ PanelOK(panel, job["decision"])
      /\ panel.script \in Seq(ModelID) /\ panel.heard \in Seq([asked : ModelID, used : ModelOrNone])
  BY <1>1 DEF PanelAsks, CompletionsInv, PanelOK, Panels
<1>3. n \in Nat /\ Len(panel.script) \in Nat
  BY <1>1, <1>2, LenProperties
<1>4. PICK model : model = panel.script[n + 1]
  OBVIOUS
<1>5. model \in ModelID
  BY <1>2, <1>3, <1>4, ElementOfSeq
<1>6. PICK q : q = PanelRequest(model)
  OBVIOUS
<1>7. q \in Requests /\ q.force = model /\ q.keyword # None /\ q.batch = {} /\ model # None
  BY <1>5, <1>6, PanelRequestTyped
<1>8. "decision" \in Clients /\ Begins("decision", q)
  BY <1>1, <1>4, <1>6 DEF Clients, PanelAsks
<1>9. PICK j : job' = [job EXCEPT !["decision"] = j] /\ BegunJob(j, q)
  BY <1>7, <1>8, BeginsIsOK DEF CompletionsInv
<1>10. job'["decision"] = j /\ RoutedJob(j, q)
  BY <1>7, <1>8, <1>9 DEF CompletionsInv, JobsOK, BegunJob
<1>11. PanelOK(panel', j)
  <2>1. CASE QuietJob(j)
    BY <1>1, <1>2, <2>1 DEF PanelOK, QuietJob
  <2>2. ASSUME NEW d, CallingJob(j, q, d, j.context), d.primary = q.force
        PROVE  PanelOK(panel', j)
    <3>1. j.pc = "primary" /\ j.reply = None /\ j.primary = panel.script[Len(panel.heard) + 1]
      BY <1>1, <1>4, <1>7, <2>2 DEF CallingJob
    <3>2. QED
      BY <1>1, <1>2, <3>1 DEF PanelOK, None
  <2>3. QED
    BY <1>7, <1>10, <2>1, <2>2 DEF RoutedJob
<1>12. batch' = batch
  BY DEF PanelAsks, Begins
<1>13. QED
  BY <1>8, <1>9, <1>10, <1>11, <1>12, BegunKeeps

LEMMA PanelHearsKeeps ==
  ASSUME CompletionsInv, PanelHears
  PROVE  CompletionsInv' /\ SettledStep
<1>1. PICK d : d = job["decision"]
  OBVIOUS
<1>2. /\ d.reply # None /\ PanelOK(panel, d) /\ d \in Jobs
      /\ UNCHANGED <<store, fresh, turns, batch>> /\ "decision" \in Clients
  BY <1>1 DEF PanelHears, CompletionsInv, JobsOK, JobOK, Clients
<1>3. PICK j :
              /\ /\ job' = [job EXCEPT !["decision"] = j]
              /\ JobOK(j) /\ QuietJob(j) /\ j.reply = None
  BY RepliesIsQuiet DEF QuietReplies, PanelHears
<1>4. job'["decision"] = j /\ j.pc = "idle" /\ j.ask = {}
  BY <1>2, <1>3 DEF CompletionsInv, JobsOK, QuietJob
<1>5. batch' = [c \in Clients |-> batch'[c]] /\ batch'["decision"] = NoBatch
  BY <1>2 DEF CompletionsInv, JobsOK
<1>6. PanelOK(panel', j)
  <2>1. CASE d.reply = "answered"
    <3>1. PICK n : n = Len(panel.heard)
      OBVIOUS
    <3>2. /\ panel \in Panels /\ panel.script \in Seq(ModelID) /\ n < Len(panel.script)
          /\ panel.heard \in Seq([asked : ModelID, used : ModelOrNone])
          /\ panel.raised = {} => \A i \in 1 .. n : panel.heard[i].used = panel.script[i]
          /\ d.raised = {} => d.used = panel.script[n + 1]
      BY <1>2, <2>1, <3>1 DEF PanelOK, Panels
    <3>3. n \in Nat /\ Len(panel.script) \in Nat
      BY <3>1, <3>2, LenProperties
    <3>4. PICK o : o = [asked |-> panel.script[n + 1], used |-> d.used]
      OBVIOUS
    <3>5. panel.script[n + 1] \in ModelID
      BY <3>2, <3>3, ElementOfSeq
    <3>6. o \in [asked : ModelID, used : ModelOrNone] /\ o.used = d.used
      BY <1>2, <3>4, <3>5 DEF Jobs
    <3>7. PICK heard : heard = Append(panel.heard, o)
      OBVIOUS
    <3>8. /\ heard \in Seq([asked : ModelID, used : ModelOrNone]) /\ Len(heard) = n + 1
          /\ \A i \in 1 .. n : heard[i] = panel.heard[i]
          /\ heard[n + 1] = o
      BY <3>1, <3>2, <3>6, <3>7, AppendProperties
    <3>9. PICK p : p = [panel EXCEPT !.heard = heard, !.raised = panel.raised \cup d.raised]
      OBVIOUS
    <3>10. panel' = p
      BY <1>1, <2>1, <3>1, <3>4, <3>7, <3>9 DEF PanelHears
    <3>11. /\ p \in Panels /\ p.heard = heard /\ p.script = panel.script
           /\ p.raised = panel.raised \cup d.raised
      BY <1>2, <3>2, <3>8, <3>9 DEF Panels, Jobs
    <3>12. Len(p.heard) <= Len(p.script)
      BY <3>2, <3>3, <3>8, <3>11
    <3>13. p.raised = {} => \A i \in 1 .. Len(p.heard) : p.heard[i].used = p.script[i]
      <4> SUFFICES ASSUME p.raised = {}, NEW i \in 1 .. n + 1
                   PROVE  heard[i].used = panel.script[i]
        BY <3>8, <3>11
      <4>1. panel.raised = {} /\ d.raised = {}
        BY <3>11
      <4>2. CASE i \in 1 .. n
        BY <3>2, <3>8, <4>1, <4>2
      <4>3. CASE i = n + 1
        BY <3>2, <3>6, <3>8, <4>1, <4>3
      <4>4. QED
        BY <3>3, <4>2, <4>3
    <3>14. QED
      BY <1>3, <1>4, <3>10, <3>11, <3>12, <3>13, RestingPanel
  <2>2. CASE d.reply # "answered"
    <3>1. panel' = NoPanel
      BY <1>1, <2>2 DEF PanelHears
    <3>2. NoPanel.heard = <<>> /\ NoPanel.script = <<>>
      BY DEF NoPanel
    <3>3. QED
      BY <1>3, <1>4, <3>1, <3>2, NoPanelTyped, RestingPanel
  <2>3. QED
    BY <2>1, <2>2
<1>7. QED
  BY <1>2, <1>3, <1>4, <1>5, <1>6, OtherKeeps

-----------------------------------------------------------------------------
LEMMA InitCompletions == CompletionsAssumption /\ CompletionsInit => CompletionsInv
<1> SUFFICES ASSUME CompletionsInit PROVE CompletionsInv
  OBVIOUS
<1>1. <<>> \in Seq(Turns)
  BY EmptySeq
<1>2. StoreTyped
  BY <1>1 DEF CompletionsInit, StoreTyped
<1>3. TurnsArePaired
  BY DEF CompletionsInit, TurnsArePaired
<1>4. PICK j : j = Quiet(None, None, {})
  OBVIOUS
<1>5. JobOK(j) /\ j.pc = "idle" /\ j.reply = None
  <2>1. None \in Responses /\ None \in ModelOrNone /\ None # "unavailable"
    BY DEF Responses, ModelOrNone, None
  <2>2. QED
    BY <1>4, <2>1, QuietIsOK
<1>6. job = [c \in Clients |-> j] /\ batch = [c \in Clients |-> NoBatch] /\ panel = NoPanel
  BY <1>4 DEF CompletionsInit
<1>7. "decision" \in Clients
  BY DEF Clients
<1>8. JobsOK
  BY <1>5, <1>6, <1>7 DEF JobsOK
<1>9. PanelOK(panel, job["decision"])
  <2>1. NoPanel.heard = <<>> /\ NoPanel.script = <<>>
    BY DEF NoPanel
  <2>2. QED
    BY <1>5, <1>6, <1>7, <2>1, NoPanelTyped, RestingPanel
<1>10. QED
  BY <1>2, <1>3, <1>8, <1>9 DEF CompletionsInv

LEMMA NextCompletions ==
  ASSUME CompletionsAssumption, CompletionsInv, CompletionsNext
  PROVE  CompletionsInv' /\ SettledStep
<1>1. ASSUME NEW c \in Users, NEW q \in Menu, UserAsks(c, q)
      PROVE  CompletionsInv' /\ SettledStep
  BY <1>1, UserAsksKeeps
<1>2. ASSUME NEW c \in Clients, Handler(c)
      PROVE  CompletionsInv' /\ SettledStep
  BY <1>2, ClassifiedKeeps, AnswersKeeps, RaisesKeeps DEF Handler
<1>3. ASSUME NEW c \in Clients, Batch(c)
      PROVE  CompletionsInv' /\ SettledStep
  BY <1>3, BatchVettedKeeps, ItemStartsKeeps, ItemProceedsKeeps, BatchEndsKeeps DEF Batch
<1>4. ASSUME NEW s \in Sessions, Expires(s)
      PROVE  CompletionsInv' /\ SettledStep
  BY <1>4, ExpiresKeeps
<1>5. CASE \/ \E script \in Scripts : PanelConvenes(script)
           \/ PanelAsks \/ PanelHears \/ PanelReports
  BY <1>5, PanelConvenesKeeps, PanelAsksKeeps, PanelHearsKeeps, PanelReportsKeeps
<1>6. QED
  BY <1>1, <1>2, <1>3, <1>4, <1>5 DEF CompletionsNext

LEMMA IdleCompletions ==
  ASSUME CompletionsInv, UNCHANGED completionsVars
  PROVE  CompletionsInv'
BY DEF CompletionsInv, completionsVars, StoreTyped, JobsOK, JobOK, PanelOK, TurnsArePaired

LEMMA CompletionsInvariance == CompletionsSpec => []CompletionsInv
<1>1. CompletionsInit => CompletionsInv
  BY InitCompletions, CompletionsAssumption
<1>2. CompletionsInv /\ [CompletionsNext]_completionsVars => CompletionsInv'
  BY NextCompletions, IdleCompletions, CompletionsAssumption
<1>3. QED
  BY <1>1, <1>2, PTL DEF CompletionsSpec

\* In a context every question of a user is followed by its own answer, whatever other
\* requests of the session were answered in between (complete).
THEOREM QuestionsKeepTheirAnswers == CompletionsSpec => []TurnsArePaired
<1>1. CompletionsInv => TurnsArePaired
  BY DEF CompletionsInv
<1>2. QED
  BY <1>1, CompletionsInvariance, PTL

\* A completion fails for want of a model only when two models raised, however the
\* requests overlap (execute_with_fallback, _forced_model_decision).
THEOREM FailureTakesTwo == CompletionsSpec => []OneFailureIsAbsorbed
<1>1. CompletionsInv => OneFailureIsAbsorbed
  BY DEF CompletionsInv, JobsOK, JobOK, OneFailureIsAbsorbed
<1>2. QED
  BY <1>1, CompletionsInvariance, PTL

\* Two members of the decision agent's committee that should be different models are,
\* unless one raised (_committee, _run_deep_analysis).
THEOREM CommitteeHasItsMembers == CompletionsSpec => []CommitteeIsPlural
<1>1. CompletionsInv => CommitteeIsPlural
  <2> SUFFICES ASSUME CompletionsInv, panel.raised = {},
                      NEW i \in 1 .. Len(panel.heard), NEW j \in 1 .. Len(panel.heard),
                      panel.script[i] # panel.script[j]
               PROVE  panel.heard[i].used # panel.heard[j].used
    BY DEF CommitteeIsPlural
  <2>1. QED
    BY DEF CompletionsInv, PanelOK
<1>2. QED
  BY <1>1, CompletionsInvariance, PTL

\* A conversation that has settled keeps every turn, and its context, in every step but
\* the one that lets it pass its time to live (load_context, save_context).
THEOREM SettledConversationsGrow == CompletionsSpec => SettledGrows
<1>1. CompletionsInv /\ [CompletionsNext]_completionsVars
        => [\A s \in Sessions : Settled(s) => Grows(s) \/ Expires(s)]_completionsVars
  BY NextCompletions, CompletionsAssumption DEF SettledStep
<1>2. QED
  BY <1>1, CompletionsInvariance, PTL DEF CompletionsSpec, SettledGrows
=============================================================================
