-------------------------- MODULE DirectoryProofs ---------------------------
(* A path to tier zero that the memberships added on BloodHound's word open   *)
(* has a membership it did not hold when it was asked, and a scan with a      *)
(* baseline counts what was added and stayed, for any directory, any number   *)
(* of copies and any tasks.                                                   *)
EXTENDS Directory, TLAPS

\* No asset of tier zero is reached from o over the memberships E.
Safe(E, o) == \A t \in Tier0 : ~Reaches(E, o, t)

\* The record of a copy has these fields and no others.
IsState(r) ==
  r = [pc |-> r.pc, task |-> r.task, tier0 |-> r.tier0, todo |-> r.todo, risk |-> r.risk,
       seen |-> r.seen, tries |-> r.tries, snapshot |-> r.snapshot, missed |-> r.missed,
       found |-> r.found, report |-> r.report, reply |-> r.reply]

Is(s, pc, task, tier0, todo, risk, seen) ==
  /\ IsState(s)
  /\ s.pc = pc /\ s.task = task /\ s.tier0 = tier0 /\ s.todo = todo /\ s.risk = risk
  /\ s.seen = seen

\* What an addition has established once BloodHound gave its list, over what it held at
\* every question: no path to the assets already asked about, and at the write to none.
Vetted(r) ==
  r.tier0 = "answered" =>
    /\ (r.task.type = "add_to_group" /\ r.pc = "paths" /\ r.risk < 4) =>
         \A t \in Tier0 \ r.todo : ~Reaches(r.seen, r.task.group, t)
    /\ r.pc = "write" => Safe(r.seen, r.task.group)

IInv ==
  /\ agent = [a \in Agents |-> agent[a]]
  /\ \A a \in Agents : IsState(agent[a]) /\ Vetted(agent[a])
  /\ known \subseteq Edges /\ ours \subseteq Edges
  /\ \A e \in ours : Safe(known, e[2])

-----------------------------------------------------------------------------
(* What is reached over some memberships is reached over more.                *)
LEMMA ReachesMonotone ==
  ASSUME NEW E, NEW F, E \subseteq F, NEW o, NEW t, Reaches(E, o, t)
  PROVE  Reaches(F, o, t)
BY DEF Reaches, ClosedUnder

(* When no membership of F leads to a place from which t is reached over E,    *)
(* then t is reached over E and F only from where it is reached over E: the    *)
(* other objects are closed under both.                                       *)
LEMMA NoDetour ==
  ASSUME NEW E \in SUBSET Edges, NEW F \in SUBSET Edges, NEW t,
         \A e \in F : ~Reaches(E, e[2], t),
         NEW o \in Objects, ~Reaches(E, o, t)
  PROVE  ~Reaches(E \cup F, o, t)
<1> DEFINE N == {x \in Objects : ~Reaches(E, x, t)}
<1>1. N \in SUBSET Objects /\ o \in N
  OBVIOUS
<1>2. ClosedUnder(E \cup F, N)
  <2> SUFFICES ASSUME NEW e \in E \cup F, e[1] \in N PROVE e[2] \in N
    BY DEF ClosedUnder
  <2>1. e[2] \in Objects
    BY DEF Edges
  <2>2. CASE e \in F
    BY <2>1, <2>2
  <2>3. CASE e \in E
    <3> SUFFICES ASSUME Reaches(E, e[2], t) PROVE FALSE
      BY <2>1
    <3>1. Reaches(E, e[1], t)
      BY <2>3 DEF Reaches, ClosedUnder
    <3>2. QED
      BY <3>1
  <2>4. QED
    BY <2>2, <2>3
<1>3. t \notin N
  BY DEF Reaches
<1>4. QED
  BY <1>1, <1>2, <1>3 DEF Reaches

(* The invariant gives the property: the last membership added on a path is    *)
(* followed by one that was not known.                                        *)
LEMMA IInvIsEnough == IInv => VettedAddsOpenNoPath
<1> SUFFICES ASSUME IInv, NEW o \in Objects, NEW t \in Tier0,
                    ~Reaches(Live(member) \cap known, o, t)
             PROVE  ~Reaches((Live(member) \cap known) \cup (Live(member) \cap ours), o, t)
  BY DEF VettedAddsOpenNoPath
<1> DEFINE E == Live(member) \cap known
           F == Live(member) \cap ours
<1>1. E \in SUBSET Edges /\ F \in SUBSET Edges /\ E \subseteq known
  BY DEF IInv
<1>2. \A e \in F : ~Reaches(known, e[2], t)
  BY DEF IInv, Safe
<1>3. \A e \in F : ~Reaches(E, e[2], t)
  BY <1>1, <1>2, ReachesMonotone
<1> HIDE DEF E, F
<1>4. ~Reaches(E \cup F, o, t)
  BY <1>1, <1>3, NoDetour DEF E
<1>5. QED
  BY <1>4 DEF E, F

-----------------------------------------------------------------------------
(* What the record is after one, two or three of its fields are set.           *)
LEMMA OneField ==
  ASSUME NEW r, IsState(r), NEW v
  PROVE  /\ Is([r EXCEPT !.pc = v], v, r.task, r.tier0, r.todo, r.risk, r.seen)
         /\ Is([r EXCEPT !.task = v], r.pc, v, r.tier0, r.todo, r.risk, r.seen)
         /\ Is([r EXCEPT !.tier0 = v], r.pc, r.task, v, r.todo, r.risk, r.seen)
         /\ Is([r EXCEPT !.todo = v], r.pc, r.task, r.tier0, v, r.risk, r.seen)
         /\ Is([r EXCEPT !.risk = v], r.pc, r.task, r.tier0, r.todo, v, r.seen)
         /\ Is([r EXCEPT !.seen = v], r.pc, r.task, r.tier0, r.todo, r.risk, v)
         /\ Is([r EXCEPT !.tries = v], r.pc, r.task, r.tier0, r.todo, r.risk, r.seen)
BY DEF IsState, Is

LEMMA OtherField ==
  ASSUME NEW r, IsState(r), NEW v
  PROVE  /\ Is([r EXCEPT !.snapshot = v], r.pc, r.task, r.tier0, r.todo, r.risk, r.seen)
         /\ Is([r EXCEPT !.missed = v], r.pc, r.task, r.tier0, r.todo, r.risk, r.seen)
         /\ Is([r EXCEPT !.found = v], r.pc, r.task, r.tier0, r.todo, r.risk, r.seen)
         /\ Is([r EXCEPT !.report = v], r.pc, r.task, r.tier0, r.todo, r.risk, r.seen)
         /\ Is([r EXCEPT !.reply = v], r.pc, r.task, r.tier0, r.todo, r.risk, r.seen)
BY DEF IsState, Is

LEMMA RiskAndTodo ==
  ASSUME NEW r, IsState(r), NEW u, NEW v
  PROVE  Is([r EXCEPT !.risk = u, !.todo = v], r.pc, r.task, r.tier0, v, u, r.seen)
<1> DEFINE s == [r EXCEPT !.risk = u]
<1>1. Is(s, r.pc, r.task, r.tier0, r.todo, u, r.seen)
  BY OneField
<1>2. IsState(s)
  BY <1>1 DEF Is
<1> HIDE DEF s
<1>3. Is([s EXCEPT !.todo = v], s.pc, s.task, s.tier0, v, s.risk, s.seen)
  BY <1>2, OneField
<1>4. Is([s EXCEPT !.todo = v], r.pc, r.task, r.tier0, v, u, r.seen)
  BY <1>1, <1>3, Zenon DEF Is
<1>5. QED
  BY <1>4, Zenon DEF s

LEMMA TodoAndSeen ==
  ASSUME NEW r, IsState(r), NEW u, NEW v
  PROVE  Is([r EXCEPT !.todo = u, !.seen = v], r.pc, r.task, r.tier0, u, r.risk, v)
<1> DEFINE s == [r EXCEPT !.todo = u]
<1>1. Is(s, r.pc, r.task, r.tier0, u, r.risk, r.seen)
  BY OneField
<1>2. IsState(s)
  BY <1>1 DEF Is
<1> HIDE DEF s
<1>3. Is([s EXCEPT !.seen = v], s.pc, s.task, s.tier0, s.todo, s.risk, v)
  BY <1>2, OneField
<1>4. Is([s EXCEPT !.seen = v], r.pc, r.task, r.tier0, u, r.risk, v)
  BY <1>1, <1>3, Zenon DEF Is
<1>5. QED
  BY <1>4, Zenon DEF s

LEMMA TierAndPc ==
  ASSUME NEW r, IsState(r), NEW u, NEW v
  PROVE  Is([r EXCEPT !.tier0 = u, !.pc = v], v, r.task, u, r.todo, r.risk, r.seen)
<1> DEFINE s == [r EXCEPT !.tier0 = u]
<1>1. Is(s, r.pc, r.task, u, r.todo, r.risk, r.seen)
  BY OneField
<1>2. IsState(s)
  BY <1>1 DEF Is
<1> HIDE DEF s
<1>3. Is([s EXCEPT !.pc = v], v, s.task, s.tier0, s.todo, s.risk, s.seen)
  BY <1>2, OneField
<1>4. Is([s EXCEPT !.pc = v], v, r.task, u, r.todo, r.risk, r.seen)
  BY <1>1, <1>3, Zenon DEF Is
<1>5. QED
  BY <1>4, Zenon DEF s

LEMMA PcAndSnapshot ==
  ASSUME NEW r, IsState(r), NEW u, NEW v
  PROVE  Is([r EXCEPT !.pc = u, !.snapshot = v], u, r.task, r.tier0, r.todo, r.risk, r.seen)
<1> DEFINE s == [r EXCEPT !.pc = u]
<1>1. Is(s, u, r.task, r.tier0, r.todo, r.risk, r.seen)
  BY OneField
<1>2. IsState(s)
  BY <1>1 DEF Is
<1> HIDE DEF s
<1>3. Is([s EXCEPT !.snapshot = v], s.pc, s.task, s.tier0, s.todo, s.risk, s.seen)
  BY <1>2, OtherField
<1>4. Is([s EXCEPT !.snapshot = v], u, r.task, r.tier0, r.todo, r.risk, r.seen)
  BY <1>1, <1>3, Zenon DEF Is
<1>5. QED
  BY <1>4, Zenon DEF s

LEMMA PcAndFound ==
  ASSUME NEW r, IsState(r), NEW u, NEW v
  PROVE  Is([r EXCEPT !.pc = u, !.found = v], u, r.task, r.tier0, r.todo, r.risk, r.seen)
<1> DEFINE s == [r EXCEPT !.pc = u]
<1>1. Is(s, u, r.task, r.tier0, r.todo, r.risk, r.seen)
  BY OneField
<1>2. IsState(s)
  BY <1>1 DEF Is
<1> HIDE DEF s
<1>3. Is([s EXCEPT !.found = v], s.pc, s.task, s.tier0, s.todo, s.risk, s.seen)
  BY <1>2, OtherField
<1>4. Is([s EXCEPT !.found = v], u, r.task, r.tier0, r.todo, r.risk, r.seen)
  BY <1>1, <1>3, Zenon DEF Is
<1>5. QED
  BY <1>4, Zenon DEF s

(* A copy that is done has forgotten all but its task, and a scan ends with     *)
(* what it found.                                                             *)
LEMMA DoneIs ==
  ASSUME NEW a, NEW reply
  PROVE  Is(Done(a, reply), "done", agent[a].task, "unasked", {}, 0, Edges)
<1>1. PICK q : q = Resting
  OBVIOUS
<1>2. Is(q, "idle", None, "unasked", {}, 0, Edges)
  BY <1>1 DEF Resting, Is, IsState
<1>3. PICK task : task = agent[a].task
  OBVIOUS
<1>4. PICK r : r = [q EXCEPT !.pc = "done", !.task = task, !.reply = reply]
  BY Zenon
<1>5. Is(r, "done", task, "unasked", {}, 0, Edges)
  BY <1>2, <1>4 DEF Is, IsState
<1>6. r = Done(a, reply)
  BY <1>1, <1>3, <1>4, Zenon DEF Done
<1>7. QED
  BY <1>3, <1>5, <1>6, Zenon

Concluded(a, missed, found, report) ==
  [Done(a, Scanned) EXCEPT !.missed = missed, !.found = found, !.report = report]

LEMMA ConcludedIs ==
  ASSUME NEW a, NEW missed, NEW found, NEW report, NEW r,
         r = Concluded(a, missed, found, report)
  PROVE  /\ IsState(r) /\ r.pc = "done" /\ r.task = agent[a].task
         /\ r.missed = missed /\ r.found = found /\ r.report = report
<1>1. PICK d : d = Done(a, Scanned)
  OBVIOUS
<1>2. Is(d, "done", agent[a].task, "unasked", {}, 0, Edges)
  BY <1>1, DoneIs, Zenon
<1>3. PICK task : task = agent[a].task
  OBVIOUS
<1>4. IsState(d) /\ d.pc = "done" /\ d.task = task
  BY <1>2, <1>3, Zenon DEF Is
<1>5. r = [d EXCEPT !.missed = missed, !.found = found, !.report = report]
  BY <1>1, Zenon DEF Concluded
<1>6. /\ IsState(r) /\ r.pc = "done" /\ r.task = task
      /\ r.missed = missed /\ r.found = found /\ r.report = report
  BY <1>4, <1>5 DEF IsState
<1>7. QED
  BY <1>3, <1>6

-----------------------------------------------------------------------------
(* A copy's own step that changes nothing but its record keeps the invariant   *)
(* when the new record is vetted.                                             *)
LEMMA RecordKeeps ==
  ASSUME IInv, NEW a \in Agents, NEW r, agent' = [agent EXCEPT ![a] = r],
         UNCHANGED vetting, IsState(r), Vetted(r)
  PROVE  IInv'
<1>1. known' = known /\ ours' = ours
  BY DEF vetting
<1>2. agent' = [b \in Agents |-> agent'[b]] /\ agent'[a] = r
      /\ \A b \in Agents \ {a} : agent'[b] = agent[b]
  BY DEF IInv
<1>3. \A b \in Agents : IsState(agent'[b]) /\ Vetted(agent'[b])
  BY <1>2 DEF IInv
<1>4. \A b \in Agents : IsState(agent[b])' /\ Vetted(agent[b])'
  BY <1>3 DEF Vetted, Safe, IsState, Reaches, ClosedUnder
<1>5. QED
  BY <1>1, <1>2, <1>4 DEF IInv, Safe, Reaches, ClosedUnder

LEMMA LocalKeeps ==
  ASSUME IInv, NEW a \in Agents, NEW r, Local(a, r), IsState(r), Vetted(r)
  PROVE  IInv'
BY RecordKeeps DEF Local

(* A copy outside the stages that ask for paths or write has nothing to keep.  *)
LEMMA QuietKeeps ==
  ASSUME IInv, NEW a \in Agents, NEW r, Local(a, r), IsState(r),
         r.pc \notin {"paths", "write"}
  PROVE  IInv'
BY LocalKeeps DEF Vetted

LEMMA DoneKeeps ==
  ASSUME IInv, NEW a \in Agents, NEW reply, Local(a, Done(a, reply))
  PROVE  IInv'
<1> DEFINE s == Done(a, reply)
<1>1. IsState(s) /\ s.pc = "done"
  BY DoneIs, Zenon DEF Is
<1> HIDE DEF s
<1>2. Local(a, s)
  BY Zenon DEF s
<1>3. QED
  BY <1>1, <1>2, QuietKeeps

(* Steps of the environment leave the copies and what was vetted alone.        *)
LEMMA OutsideKeeps ==
  ASSUME IInv, agent' = agent, UNCHANGED vetting
  PROVE  IInv'
<1>1. \A b \in Agents : IsState(agent[b])' /\ Vetted(agent[b])'
  BY DEF IInv, Vetted, Safe, IsState, Reaches, ClosedUnder
<1>2. QED
  BY <1>1 DEF IInv, vetting, Safe, Reaches, ClosedUnder

-----------------------------------------------------------------------------
(* The steps that ask BloodHound.                                             *)
LEMMA AskTierZeroKeeps == ASSUME IInv, NEW a \in Agents, AskTierZero(a) PROVE IInv'
<1> DEFINE r == agent[a]
           asked == [r EXCEPT !.tier0 = IF up THEN "answered" ELSE "failed", !.pc = "paths"]
<1>1. Is(asked, "paths", r.task, IF up THEN "answered" ELSE "failed", r.todo, r.risk, r.seen)
  BY TierAndPc DEF IInv
<1>2. \/ r.task.type \in RiskTasks /\ Local(a, [asked EXCEPT !.risk = 5])
      \/ r.task.type \in RiskTasks
         /\ Local(a, [asked EXCEPT !.risk = 1, !.todo = TierZeroAssets])
      \/ Local(a, Done(a, TierZero))
      \/ /\ r.task.type \in ExposureTasks
         /\ \E assets : Local(a, [asked EXCEPT !.todo = assets])
  BY Zenon DEF AskTierZero
<1>3. IsState(asked) /\ asked.task = r.task /\ asked.pc = "paths"
      /\ asked.tier0 = IF up THEN "answered" ELSE "failed"
  BY <1>1, Zenon DEF Is
<1> HIDE DEF asked
<1>4. CASE Local(a, [asked EXCEPT !.risk = 5])
  <2>1. PICK s : s = [asked EXCEPT !.risk = 5]
    OBVIOUS
  <2>2. Is(s, asked.pc, asked.task, asked.tier0, asked.todo, 5, asked.seen)
    BY <1>3, <2>1, OneField, Zenon
  <2>3. Local(a, s)
    BY <1>4, <2>1, Zenon
  <2>4. IsState(s) /\ s.pc = "paths" /\ s.risk = 5
    BY <1>3, <2>2 DEF Is
  <2>5. Vetted(s)
    BY <2>4 DEF Vetted
  <2>6. QED
    BY <2>3, <2>4, <2>5, LocalKeeps
<1>5. CASE Local(a, [asked EXCEPT !.risk = 1, !.todo = TierZeroAssets])
  <2>1. PICK s : s = [asked EXCEPT !.risk = 1, !.todo = TierZeroAssets]
    BY Zenon
  <2>2. Is(s, asked.pc, asked.task, asked.tier0, TierZeroAssets, 1, asked.seen)
    BY <1>3, <2>1, RiskAndTodo, Zenon
  <2>3. Local(a, s)
    BY <1>5, <2>1, Zenon
  <2>4. IsState(s) /\ s.pc = "paths" /\ s.tier0 = asked.tier0 /\ s.todo = TierZeroAssets
    BY <1>3, <2>2 DEF Is
  <2>5. Vetted(s)
    BY <1>3, <2>4 DEF Vetted, TierZeroAssets
  <2>6. QED
    BY <2>3, <2>4, <2>5, LocalKeeps
<1>6. CASE r.task.type \in ExposureTasks /\ \E assets : Local(a, [asked EXCEPT !.todo = assets])
  <2>1. PICK assets : Local(a, [asked EXCEPT !.todo = assets])
    BY <1>6
  <2>2. PICK s : s = [asked EXCEPT !.todo = assets]
    OBVIOUS
  <2>3. Is(s, asked.pc, asked.task, asked.tier0, assets, asked.risk, asked.seen)
    BY <1>3, <2>2, OneField, Zenon
  <2>4. Local(a, s)
    BY <2>1, <2>2, Zenon
  <2>5. IsState(s) /\ s.task = r.task /\ s.pc = "paths"
    BY <1>3, <2>3 DEF Is
  <2>6. Vetted(s)
    BY <1>6, <2>5 DEF Vetted, ExposureTasks
  <2>7. QED
    BY <2>4, <2>5, <2>6, LocalKeeps
<1>7. QED
  BY <1>2, <1>4, <1>5, <1>6, DoneKeeps

LEMMA AskPathKeeps == ASSUME IInv, NEW a \in Agents, AskPath(a) PROVE IInv'
<1> DEFINE r == agent[a]
<1>1. IsState(r) /\ Vetted(r)
  BY DEF IInv
<1>2. PICK x \in r.todo :
        /\ r.pc = "paths"
        /\ \/ r.task.type \in RiskTasks /\ Local(a, [r EXCEPT !.risk = 4, !.todo = {}])
           \/ /\ r.task.type \in RiskTasks /\ ~HasPath(r.task.group, x)
              /\ Local(a, [r EXCEPT !.todo = @ \ {x}, !.seen = @ \cap graph])
           \/ /\ r.task.type \notin RiskTasks
              /\ \E risk : Local(a, [r EXCEPT !.risk = risk, !.todo = @ \ {x}])
  BY Zenon DEF AskPath
<1>3. CASE Local(a, [r EXCEPT !.risk = 4, !.todo = {}])
  <2>1. PICK s : s = [r EXCEPT !.risk = 4, !.todo = {}]
    BY Zenon
  <2>2. Is(s, r.pc, r.task, r.tier0, {}, 4, r.seen)
    BY <1>1, <2>1, RiskAndTodo, Zenon
  <2>3. Local(a, s)
    BY <1>3, <2>1, Zenon
  <2>4. IsState(s) /\ s.pc = "paths" /\ s.risk = 4
    BY <1>2, <2>2 DEF Is
  <2>5. Vetted(s)
    BY <2>4 DEF Vetted
  <2>6. QED
    BY <2>3, <2>4, <2>5, LocalKeeps
<1>4. CASE /\ ~HasPath(r.task.group, x)
           /\ Local(a, [r EXCEPT !.todo = @ \ {x}, !.seen = @ \cap graph])
  <2>1. PICK s : s = [r EXCEPT !.todo = r.todo \ {x}, !.seen = r.seen \cap graph]
    BY Zenon
  <2>2. Is(s, r.pc, r.task, r.tier0, r.todo \ {x}, r.risk, r.seen \cap graph)
    BY <1>1, <2>1, TodoAndSeen, Zenon
  <2>3. Local(a, s)
    BY <1>4, <2>1, Zenon
  <2>4. ~Reaches(graph, r.task.group, x)
    BY <1>4 DEF HasPath
  <2>5. \A t : ~Reaches(r.seen, r.task.group, t) \/ t = x
               => ~Reaches(r.seen \cap graph, r.task.group, t)
    BY <2>4, ReachesMonotone
  <2>6. IsState(s) /\ s.pc = "paths" /\ s.task = r.task /\ s.tier0 = r.tier0
        /\ s.todo = r.todo \ {x} /\ s.risk = r.risk /\ s.seen = r.seen \cap graph
    BY <1>2, <2>2 DEF Is
  <2>7. Vetted(s)
    <3> SUFFICES ASSUME s.tier0 = "answered", s.task.type = "add_to_group", s.risk < 4,
                        NEW t \in Tier0 \ s.todo
                 PROVE  ~Reaches(s.seen, s.task.group, t)
      BY <2>6 DEF Vetted
    <3>1. t \in Tier0 \ r.todo \/ t = x
      BY <2>6
    <3>2. ~Reaches(r.seen, r.task.group, t) \/ t = x
      BY <1>1, <1>2, <2>6, <3>1 DEF Vetted
    <3>3. QED
      BY <2>5, <2>6, <3>2
  <2>8. QED
    BY <2>3, <2>6, <2>7, LocalKeeps
<1>5. CASE /\ r.task.type \notin RiskTasks
           /\ \E risk : Local(a, [r EXCEPT !.risk = risk, !.todo = @ \ {x}])
  <2>1. PICK risk : Local(a, [r EXCEPT !.risk = risk, !.todo = @ \ {x}])
    BY <1>5
  <2>2. PICK s : s = [r EXCEPT !.risk = risk, !.todo = @ \ {x}]
    BY Zenon
  <2>3. Is(s, r.pc, r.task, r.tier0, r.todo \ {x}, risk, r.seen)
    BY <1>1, <2>2, RiskAndTodo, Zenon
  <2>4. Local(a, s)
    BY <2>1, <2>2, Zenon
  <2>5. IsState(s) /\ s.task = r.task /\ s.pc = "paths"
    BY <1>2, <2>3 DEF Is
  <2>6. Vetted(s)
    BY <1>5, <2>5 DEF Vetted, RiskTasks
  <2>7. QED
    BY <2>4, <2>5, <2>6, LocalKeeps
<1>6. QED
  BY <1>2, <1>3, <1>4, <1>5, Zenon

LEMMA ConcludeKeeps == ASSUME IInv, NEW a \in Agents, Conclude(a) PROVE IInv'
<1> DEFINE r == agent[a]
<1>1. IsState(r) /\ Vetted(r)
  BY DEF IInv
<1>2. /\ r.pc = "paths" /\ r.todo = {}
      /\ \/ r.task.type = "add_to_group" /\ r.risk < 4 /\ Local(a, [r EXCEPT !.pc = "write"])
         \/ Local(a, Done(a, Conclusion(r.task.type, r.risk)))
  BY Zenon DEF Conclude
<1>3. CASE r.task.type = "add_to_group" /\ r.risk < 4 /\ Local(a, [r EXCEPT !.pc = "write"])
  <2>1. PICK s : s = [r EXCEPT !.pc = "write"]
    OBVIOUS
  <2>2. Is(s, "write", r.task, r.tier0, r.todo, r.risk, r.seen)
    BY <1>1, <2>1, OneField
  <2>3. Local(a, s)
    BY <1>3, <2>1, Zenon
  <2>4. IsState(s) /\ Vetted(s)
    BY <1>1, <1>2, <1>3, <2>2 DEF Vetted, Safe, Is
  <2>5. QED
    BY <2>3, <2>4, LocalKeeps
<1>4. QED
  BY <1>2, <1>3, DoneKeeps
-----------------------------------------------------------------------------
(* The other steps.                                                           *)
LEMMA TakeKeeps == ASSUME IInv, NEW a \in Agents, Take(a) PROVE IInv'
<1>1. PICK r : agent' = [agent EXCEPT ![a] = r] /\ IsState(r) /\ r.tier0 = "unasked"
  <2> DEFINE t == Head(queue[a])
             todo == IF Begins(t) = "paths" THEN {t.group} ELSE {}
  <2>1. PICK s1 : s1 = [Resting EXCEPT !.task = t]
    OBVIOUS
  <2>2. IsState(s1) /\ s1.tier0 = "unasked"
    BY <2>1 DEF Resting, IsState
  <2>3. PICK s2 : s2 = [s1 EXCEPT !.pc = Begins(t)]
    OBVIOUS
  <2>4. Is(s2, Begins(t), s1.task, s1.tier0, s1.todo, s1.risk, s1.seen)
    BY <2>2, <2>3, OneField, Zenon
  <2>5. IsState(s2) /\ s2.tier0 = "unasked"
    BY <2>2, <2>4 DEF Is
  <2>6. PICK s3 : s3 = [s2 EXCEPT !.todo = todo]
    OBVIOUS
  <2>7. Is(s3, s2.pc, s2.task, s2.tier0, todo, s2.risk, s2.seen)
    BY <2>5, <2>6, OneField, Zenon
  <2>8. IsState(s3) /\ s3.tier0 = "unasked"
    BY <2>5, <2>7 DEF Is
  <2>9. agent' = [agent EXCEPT ![a] = s3]
    BY <2>1, <2>3, <2>6, Zenon DEF Take
  <2>10. QED
    BY <2>8, <2>9
<1>2. Vetted(r) /\ UNCHANGED vetting
  BY <1>1 DEF Vetted, Take
<1>3. QED
  BY <1>1, <1>2, RecordKeeps

LEMMA RestKeeps ==
  ASSUME IInv, NEW a \in Agents, agent' = [agent EXCEPT ![a] = Resting], UNCHANGED vetting
  PROVE  IInv'
<1>1. IsState(Resting) /\ Resting.tier0 = "unasked"
  BY DEF IsState, Resting
<1>2. Vetted(Resting)
  BY <1>1 DEF Vetted
<1>3. QED
  BY <1>1, <1>2, RecordKeeps

(* The write adds a membership that what was seen does not lead on to tier     *)
(* zero, and from then on only what was seen counts as known.                 *)
LEMMA WriteMemberKeeps == ASSUME IInv, NEW a \in Agents, WriteMember(a) PROVE IInv'
<1> DEFINE r == agent[a]
<1>1. IsState(r) /\ Vetted(r)
  BY DEF IInv
<1>2. PICK s : s = [r EXCEPT !.pc = "verify"]
  OBVIOUS
<1>3. Is(s, "verify", r.task, r.tier0, r.todo, r.risk, r.seen)
  BY <1>1, <1>2, OneField
<1>4. IsState(s) /\ Vetted(s)
  BY <1>3 DEF Is, Vetted
<1>5. agent' = [agent EXCEPT ![a] = s]
  BY <1>2, Zenon DEF WriteMember
<1>6. CASE UNCHANGED vetting
  BY <1>4, <1>5, <1>6, RecordKeeps
<1>7. CASE /\ r.tier0 = "answered"
           /\ ours' = ours \cup {TheEdge(a)} /\ known' = known \cap r.seen
  <2>1. /\ agent' = [b \in Agents |-> agent'[b]]
        /\ \A b \in Agents : agent'[b] = agent[b] \/ agent'[b] = s
    BY <1>5 DEF IInv
  <2>2. \A b \in Agents : IsState(agent'[b]) /\ Vetted(agent'[b])
    BY <1>4, <2>1 DEF IInv
  <2>3. \A b \in Agents : IsState(agent[b])' /\ Vetted(agent[b])'
    BY <2>2 DEF Vetted, Safe, IsState, Reaches, ClosedUnder
  <2>4. TheEdge(a) \in Edges /\ r.pc = "write"
    BY DEF WriteMember, Live
  <2>5. \A o : Safe(known, o) \/ Safe(r.seen, o) => Safe(known', o)
    BY <1>7, ReachesMonotone DEF Safe
  <2>6. \A e \in ours' : Safe(known', e[2])
    <3>1. Safe(r.seen, r.task.group)
      BY <1>1, <1>7, <2>4 DEF Vetted
    <3> SUFFICES ASSUME NEW e \in ours' PROVE Safe(known', e[2])
      OBVIOUS
    <3>2. CASE e \in ours
      BY <2>5, <3>2 DEF IInv
    <3>3. CASE e = TheEdge(a)
      <4>1. e[2] = r.task.group
        BY <3>3 DEF TheEdge
      <4>2. QED
        BY <2>5, <3>1, <4>1
    <3>4. QED
      BY <1>7, <3>2, <3>3
  <2>7. \A e \in ours' : Safe(known, e[2])'
    BY <2>6 DEF Safe, Reaches, ClosedUnder
  <2>8. QED
    BY <1>7, <2>1, <2>3, <2>4, <2>7 DEF IInv
<1>8. QED
  BY <1>6, <1>7 DEF WriteMember

LEMMA WritingKeeps == ASSUME IInv, NEW a \in Agents, Writing(a) PROVE IInv'
<1> DEFINE r == agent[a]
<1>1. IsState(r) /\ Vetted(r)
  BY DEF IInv
<1>2. CASE Verify(a)
  <2>1. CASE Local(a, [r EXCEPT !.tries = @ + 1]) /\ r.pc = "verify"
    <3>1. PICK s : s = [r EXCEPT !.tries = @ + 1]
      OBVIOUS
    <3>2. Is(s, "verify", r.task, r.tier0, r.todo, r.risk, r.seen)
      BY <1>1, <2>1, <3>1, OneField, Zenon
    <3>3. IsState(s) /\ s.pc = "verify"
      BY <3>2 DEF Is
    <3>4. Local(a, s)
      BY <2>1, <3>1, Zenon
    <3>5. QED
      BY <3>3, <3>4, QuietKeeps
  <2>2. QED
    BY <1>2, <2>1, DoneKeeps, Zenon DEF Verify
<1>3. CASE SearchDeleted(a)
  <2>1. CASE Local(a, [r EXCEPT !.pc = "modify"])
    <3>1. PICK s : s = [r EXCEPT !.pc = "modify"]
      OBVIOUS
    <3>2. Is(s, "modify", r.task, r.tier0, r.todo, r.risk, r.seen)
      BY <1>1, <3>1, OneField, Zenon
    <3>3. IsState(s) /\ s.pc = "modify"
      BY <3>2 DEF Is
    <3>4. Local(a, s)
      BY <2>1, <3>1, Zenon
    <3>5. QED
      BY <3>3, <3>4, QuietKeeps
  <2>2. QED
    BY <1>3, <2>1, DoneKeeps, Zenon DEF SearchDeleted
<1>4. CASE RestoreObject(a)
  <2>1. PICK s : s = Done(a, Restored(TRUE))
    OBVIOUS
  <2>2. IsState(s) /\ s.pc = "done"
    BY <2>1, DoneIs, Zenon DEF Is
  <2>3. agent' = [agent EXCEPT ![a] = s] /\ UNCHANGED vetting
    BY <1>4, <2>1, Zenon DEF RestoreObject
  <2>4. Vetted(s)
    BY <2>2 DEF Vetted
  <2>5. QED
    BY <2>2, <2>3, <2>4, RecordKeeps
<1>5. CASE WriteRefused(a) \/ RestoreRefused(a)
  BY <1>5, DoneKeeps, Zenon DEF WriteRefused, RestoreRefused
<1>6. QED
  BY <1>2, <1>3, <1>4, <1>5, WriteMemberKeeps DEF Writing

LEMMA ScanningKeeps == ASSUME IInv, NEW a \in Agents, Scanning(a) \/ Reading(a) PROVE IInv'
<1> DEFINE r == agent[a]
<1>1. IsState(r)
  BY DEF IInv
<1>2. CASE TakeSnapshot(a)
  <2>1. PICK members : Local(a, [r EXCEPT !.pc = "inspect", !.snapshot = members])
    BY <1>2, Zenon DEF TakeSnapshot
  <2>2. PICK s : s = [r EXCEPT !.pc = "inspect", !.snapshot = members]
    BY Zenon
  <2>3. Is(s, "inspect", r.task, r.tier0, r.todo, r.risk, r.seen)
    BY <1>1, <2>2, PcAndSnapshot, Zenon
  <2>4. IsState(s) /\ s.pc = "inspect"
    BY <2>3 DEF Is
  <2>5. Local(a, s)
    BY <2>1, <2>2, Zenon
  <2>6. QED
    BY <2>4, <2>5, QuietKeeps
<1>3. CASE Inspect(a)
  <2>1. PICK found : Local(a, [r EXCEPT !.pc = "compare", !.found = found])
    BY <1>3, Zenon DEF Inspect
  <2>2. PICK s : s = [r EXCEPT !.pc = "compare", !.found = found]
    BY Zenon
  <2>3. Is(s, "compare", r.task, r.tier0, r.todo, r.risk, r.seen)
    BY <1>1, <2>2, PcAndFound, Zenon
  <2>4. IsState(s) /\ s.pc = "compare"
    BY <2>3 DEF Is
  <2>5. Local(a, s)
    BY <2>1, <2>2, Zenon
  <2>6. QED
    BY <2>4, <2>5, QuietKeeps
<1>4. CASE Compare(a)
  <2>1. PICK missed, found, report :
          Local(a, Concluded(a, missed, found, report))
    BY <1>4, Zenon DEF Compare, Concluded
  <2>2. PICK s : s = Concluded(a, missed, found, report)
    OBVIOUS
  <2>3. IsState(s) /\ s.pc = "done"
    BY <2>2, ConcludedIs
  <2>4. Local(a, s)
    BY <2>1, <2>2, Zenon
  <2>5. QED
    BY <2>3, <2>4, QuietKeeps
<1>5. CASE Reading(a)
  BY <1>5, DoneKeeps, Zenon DEF Reading, List, CheckServiceAccount
<1>6. QED
  BY <1>2, <1>3, <1>4, <1>5 DEF Scanning

LEMMA EnvironmentKeeps == ASSUME IInv, Environment PROVE IInv'
<1>1. ASSUME NEW a \in Agents, Crash(a) \/ Raise(a) PROVE IInv'
  BY <1>1, RestKeeps DEF Crash, Raise, Local
<1>2. CASE ~(\E a \in Agents : Crash(a) \/ Raise(a))
  <2>1. agent' = agent /\ UNCHANGED vetting
    BY <1>2 DEF Environment, Send, ScheduleScan, Deliver, AdminAdds, AdminRemoves, AdminDeletes,
                EditPolicy, Administering, Collect, BloodHoundChanges, Refreshing
  <2>2. QED
    BY <2>1, OutsideKeeps
<1>3. QED
  BY <1>1, <1>2

LEMMA InitKeeps == Init => IInv
<1> SUFFICES ASSUME Init PROVE IInv
  OBVIOUS
<1>1. IsState(Resting) /\ Resting.tier0 = "unasked"
  BY DEF IsState, Resting
<1>2. \A a \in Agents : IsState(agent[a]) /\ Vetted(agent[a])
  BY <1>1 DEF Init, Vetted
<1>3. QED
  BY <1>2 DEF Init, IInv

LEMMA NextKeeps == ASSUME IInv, [Next]_vars PROVE IInv'
<1>1. CASE Environment
  BY <1>1, EnvironmentKeeps
<1>2. ASSUME NEW a \in Agents, Handler(a) PROVE IInv'
  <2>1. CASE Guarding(a)
    BY <2>1, AskTierZeroKeeps, AskPathKeeps, ConcludeKeeps DEF Guarding
  <2>2. CASE Answer(a)
    BY <2>2, RestKeeps DEF Answer
  <2>3. QED
    BY <1>2, <2>1, <2>2, TakeKeeps, WritingKeeps, ScanningKeeps DEF Handler
<1>3. CASE UNCHANGED vars
  BY <1>3, OutsideKeeps DEF vars
<1>4. QED
  BY <1>1, <1>2, <1>3 DEF Next

(* For any directory, any set of tasks, any number of copies and however stale  *)
(* BloodHound's graph, a path to tier zero that the memberships the agent adds  *)
(* on its answers open has one that it did not hold at a question asked for     *)
(* them (check_group_membership_risk before _add_to_group).                    *)
THEOREM Safety == Spec => []VettedAddsOpenNoPath
<1>1. Init => IInv
  BY InitKeeps
<1>2. IInv => VettedAddsOpenNoPath
  BY IInvIsEnough
<1>3. QED
  BY <1>1, <1>2, NextKeeps, PTL DEF Spec

-----------------------------------------------------------------------------
(* The drift scan.  A copy with a bound client only ends a scan by comparing;  *)
(* what it has kept since it took the task is in the directory all along.      *)
ScanStages == {"snapshot", "inspect", "compare", "done"}

\* The drift of e is counted, and listed unless the list is full of what comes no later.
Told(found, report, e) ==
  LET d == Drift("sensitive_group_change", e, 5, FALSE) IN
  /\ d \in found
  /\ \/ d \in report
     \/ /\ Cardinality(report) = ReportLimit
        /\ \A x \in report : Place(x.type) <= Place(d.type)

Reports(r, held) ==
  (conn = "bound" /\ r.pc # "idle" /\ r.task.type = "run_drift_scan") =>
    /\ r.pc \in ScanStages
    /\ (r.pc = "done" /\ r.task.compare) =>
         \A e \in held \ r.task.baseline : e[2] \notin r.missed => Told(r.found, r.report, e)

ScanInv ==
  /\ kept = [a \in Agents |-> kept[a]]
  /\ \A a \in Agents : kept[a] \subseteq SensitiveEdges(Live(member))
  /\ \A a \in Agents : Reports(agent[a], kept[a])

(* What the directory does to the memberships kept: they are still there, or   *)
(* not kept.                                                                  *)
KeptShrinks ==
  /\ conn' = conn
  /\ \/ kept' = kept /\ member \subseteq member' /\ bin' \subseteq bin
     \/ /\ \E a \in Agents : kept' = [kept EXCEPT ![a] = {}]
        /\ member' = member /\ bin' = bin
     \/ StillKept

LEMMA KeptStays ==
  ASSUME ScanInv, KeptShrinks
  PROVE  /\ kept' = [a \in Agents |-> kept'[a]]
         /\ \A a \in Agents : kept'[a] \subseteq kept[a]
         /\ \A a \in Agents : kept'[a] \subseteq SensitiveEdges(Live(member))'
<1>1. CASE kept' = kept /\ member \subseteq member' /\ bin' \subseteq bin
  BY <1>1 DEF ScanInv, SensitiveEdges, Live
<1>2. CASE StillKept
  <2>1. \A a \in Agents : kept'[a] = kept[a] \cap Live(member)'
    BY <1>2 DEF StillKept
  <2>2. \A a \in Agents : kept'[a] \subseteq SensitiveEdges(Live(member))'
    BY <2>1 DEF ScanInv, SensitiveEdges
  <2>3. QED
    BY <1>2, <2>1, <2>2 DEF StillKept
<1>3. CASE /\ \E a \in Agents : kept' = [kept EXCEPT ![a] = {}]
           /\ member' = member /\ bin' = bin
  BY <1>3 DEF ScanInv, SensitiveEdges, Live
<1>4. QED
  BY <1>1, <1>2, <1>3 DEF KeptShrinks

(* A step of at most one copy keeps the invariant when its new record reports  *)
(* on what it has kept.                                                       *)
LEMMA StepReports ==
  ASSUME IInv, ScanInv, KeptShrinks, NEW a \in Agents, NEW r,
         agent' = [agent EXCEPT ![a] = r], Reports(r, kept[a])
  PROVE  ScanInv'
<1>1. /\ kept' = [b \in Agents |-> kept'[b]]
      /\ \A b \in Agents : kept'[b] \subseteq kept[b]
      /\ \A b \in Agents : kept'[b] \subseteq SensitiveEdges(Live(member))'
  BY KeptStays
<1>2. \A b \in Agents : Reports(agent'[b], kept[b])
  BY DEF IInv, ScanInv
<1>3. conn' = conn
  BY DEF KeptShrinks
<1>4. \A b \in Agents : Reports(agent[b], kept[b])'
  BY <1>1, <1>2, <1>3 DEF Reports, Told, Drift, Place
<1>5. QED
  BY <1>1, <1>4 DEF ScanInv

LEMMA IdleReports == \A held : Reports(Resting, held)
BY DEF Reports, Resting

(* A copy that is not at a scan's stage has no scan with a bound client.       *)
LEMMA OtherReports ==
  ASSUME ScanInv, NEW a \in Agents, NEW r, r.task = agent[a].task,
         agent[a].pc \notin ScanStages \cup {"idle"}
  PROVE  Reports(r, kept[a])
BY DEF ScanInv, Reports

(* Setting other fields keeps the task, and a stage that is set is the stage.   *)
LEMMA TaskStays ==
  ASSUME NEW r, IsState(r), NEW u, NEW v
  PROVE  /\ [r EXCEPT !.pc = u].task = r.task
         /\ [r EXCEPT !.risk = u].task = r.task
         /\ [r EXCEPT !.todo = u].task = r.task
         /\ [r EXCEPT !.tries = u].task = r.task
         /\ [r EXCEPT !.risk = u, !.todo = v].task = r.task
         /\ [r EXCEPT !.todo = u, !.seen = v].task = r.task
         /\ [r EXCEPT !.pc = u, !.snapshot = v].pc = u
         /\ [r EXCEPT !.pc = u, !.found = v].pc = u
<1>1. /\ [r EXCEPT !.pc = u].task = r.task
      /\ [r EXCEPT !.risk = u].task = r.task
      /\ [r EXCEPT !.todo = u].task = r.task
      /\ [r EXCEPT !.tries = u].task = r.task
  BY DEF IsState
<1>2. [r EXCEPT !.risk = u, !.todo = v].task = r.task
  BY DEF IsState
<1>3. [r EXCEPT !.todo = u, !.seen = v].task = r.task
  BY DEF IsState
<1>4. [r EXCEPT !.pc = u, !.snapshot = v].pc = u
  BY DEF IsState
<1>5. [r EXCEPT !.pc = u, !.found = v].pc = u
  BY DEF IsState
<1>6. QED
  BY <1>1, <1>2, <1>3, <1>4, <1>5

(* The steps of the guard, the writes and the reads keep the task.             *)
LEMMA DoneKeepsTask ==
  ASSUME NEW a \in Agents, NEW reply
  PROVE  Done(a, reply).task = agent[a].task
BY DoneIs DEF Is

LEMMA GuardingKeepsTask ==
  ASSUME IInv, NEW a \in Agents, Guarding(a)
  PROVE  \E r : Local(a, r) /\ r.task = agent[a].task
<1> DEFINE s == agent[a]
<1>1. IsState(s)
  BY DEF IInv
<1>2. CASE AskTierZero(a)
  <2> DEFINE asked == [s EXCEPT !.tier0 = IF up THEN "answered" ELSE "failed", !.pc = "paths"]
  <2>1. Is(asked, "paths", s.task, IF up THEN "answered" ELSE "failed", s.todo, s.risk, s.seen)
    BY <1>1, TierAndPc
  <2>2. \/ Local(a, [asked EXCEPT !.risk = 5])
        \/ Local(a, [asked EXCEPT !.risk = 1, !.todo = TierZeroAssets])
        \/ Local(a, Done(a, TierZero))
        \/ \E assets : Local(a, [asked EXCEPT !.todo = assets])
    BY <1>2, Zenon DEF AskTierZero
  <2>3. IsState(asked) /\ asked.task = s.task
    BY <2>1, Zenon DEF Is
  <2> HIDE DEF asked
  <2>4. /\ [asked EXCEPT !.risk = 5].task = s.task
        /\ \A assets : [asked EXCEPT !.todo = assets].task = s.task
    BY <2>3, TaskStays
  <2>5. [asked EXCEPT !.risk = 1, !.todo = TierZeroAssets].task = s.task
    BY <2>3, TaskStays
  <2>6. QED
    BY <2>2, <2>4, <2>5, DoneKeepsTask, Zenon
<1>3. CASE AskPath(a)
  <2>1. PICK x \in s.todo :
          \/ Local(a, [s EXCEPT !.risk = 4, !.todo = {}])
          \/ Local(a, [s EXCEPT !.todo = @ \ {x}, !.seen = @ \cap graph])
          \/ \E risk : Local(a, [s EXCEPT !.risk = risk, !.todo = @ \ {x}])
    BY <1>3, Zenon DEF AskPath
  <2>2. [s EXCEPT !.todo = @ \ {x}, !.seen = @ \cap graph].task = s.task
    BY <1>1, TaskStays
  <2>3. \A risk : [s EXCEPT !.risk = risk, !.todo = @ \ {x}].task = s.task
    BY <1>1, TaskStays
  <2>4. [s EXCEPT !.risk = 4, !.todo = {}].task = s.task
    BY <1>1, TaskStays
  <2>5. QED
    BY <2>1, <2>2, <2>3, <2>4, Zenon
<1>4. CASE Conclude(a)
  <2>1. \/ Local(a, [s EXCEPT !.pc = "write"])
        \/ Local(a, Done(a, Conclusion(s.task.type, s.risk)))
    BY <1>4, Zenon DEF Conclude
  <2>2. [s EXCEPT !.pc = "write"].task = s.task
    BY <1>1, TaskStays
  <2>3. QED
    BY <2>1, <2>2, DoneKeepsTask, Zenon
<1>5. QED
  BY <1>2, <1>3, <1>4 DEF Guarding

LEMMA GuardingReports ==
  ASSUME IInv, ScanInv, NEW a \in Agents, Guarding(a) \/ Reading(a)
  PROVE  ScanInv'
<1>1. agent[a].pc \notin ScanStages \cup {"idle"}
  BY DEF Guarding, Reading, AskTierZero, AskPath, Conclude, List, CheckServiceAccount, ScanStages
<1>2. PICK r : Local(a, r) /\ r.task = agent[a].task
  <2>1. CASE Guarding(a)
    BY <2>1, GuardingKeepsTask
  <2>2. CASE Reading(a)
    BY <2>2, DoneKeepsTask, Zenon DEF Reading, List, CheckServiceAccount
  <2>3. QED
    BY <2>1, <2>2
<1>3. KeptShrinks /\ agent' = [agent EXCEPT ![a] = r]
  BY <1>2 DEF Local, KeptShrinks, outside, setup
<1>4. QED
  BY <1>1, <1>2, <1>3, OtherReports, StepReports

LEMMA WritingReports ==
  ASSUME IInv, ScanInv, NEW a \in Agents, Writing(a)
  PROVE  ScanInv'
<1> DEFINE s == agent[a]
<1>1. s.pc \notin ScanStages \cup {"idle"}
  BY DEF Writing, WriteMember, WriteRefused, Verify, SearchDeleted, RestoreObject, RestoreRefused,
         ScanStages
<1>2. IsState(s)
  BY DEF IInv
<1>3. KeptShrinks
  BY DEF Writing, WriteMember, WriteRefused, Verify, SearchDeleted, RestoreObject, RestoreRefused,
         Local, KeptShrinks, outside, setup
<1>4. /\ [s EXCEPT !.pc = "verify"].task = s.task
      /\ [s EXCEPT !.pc = "modify"].task = s.task
      /\ [s EXCEPT !.tries = @ + 1].task = s.task
  BY <1>2, TaskStays
<1>5. \E r : agent' = [agent EXCEPT ![a] = r] /\ r.task = s.task
  <2>1. CASE WriteMember(a)
    BY <2>1, <1>4, Zenon DEF WriteMember
  <2>2. CASE RestoreObject(a)
    BY <2>2, DoneKeepsTask, Zenon DEF RestoreObject
  <2>3. CASE WriteRefused(a) \/ RestoreRefused(a)
    BY <2>3, DoneKeepsTask, Zenon DEF WriteRefused, RestoreRefused, Local
  <2>4. CASE Verify(a)
    BY <2>4, <1>4, DoneKeepsTask, Zenon DEF Verify, Local
  <2>5. CASE SearchDeleted(a)
    BY <2>5, <1>4, DoneKeepsTask, Zenon DEF SearchDeleted, Local
  <2>6. QED
    BY <2>1, <2>2, <2>3, <2>4, <2>5 DEF Writing
<1>6. QED
  BY <1>1, <1>3, <1>5, OtherReports, StepReports

(* The scan itself: what it compares holds all it has kept.                    *)
LEMMA ScanningReports ==
  ASSUME IInv, ScanInv, NEW a \in Agents, Scanning(a)
  PROVE  ScanInv'
<1> DEFINE s == agent[a]
<1>1. IsState(s)
  BY DEF IInv
<1>2. CASE TakeSnapshot(a)
  <2>1. PICK members : Local(a, [s EXCEPT !.pc = "inspect", !.snapshot = members])
    BY <1>2, Zenon DEF TakeSnapshot
  <2>2. PICK r : r = [s EXCEPT !.pc = "inspect", !.snapshot = members]
    BY Zenon
  <2>3. r.pc = "inspect"
    BY <1>1, <2>2, TaskStays
  <2>4. Local(a, r)
    BY <2>1, <2>2, Zenon
  <2>5. QED
    BY <2>3, <2>4, StepReports DEF Reports, ScanStages, Local, KeptShrinks, outside, setup
<1>3. CASE Inspect(a)
  <2>1. PICK found : Local(a, [s EXCEPT !.pc = "compare", !.found = found])
    BY <1>3, Zenon DEF Inspect
  <2>2. PICK r : r = [s EXCEPT !.pc = "compare", !.found = found]
    BY Zenon
  <2>3. r.pc = "compare"
    BY <1>1, <2>2, TaskStays
  <2>4. Local(a, r)
    BY <2>1, <2>2, Zenon
  <2>5. QED
    BY <2>3, <2>4, StepReports DEF Reports, ScanStages, Local, KeptShrinks, outside, setup
<1>4. CASE Compare(a)
  <2>1. PICK missed, policies, found, report :
          /\ found = s.found \cup Compared(a, missed) \cup GpoDrift(policies)
          /\ report \in Listed(found)
          /\ Local(a, Concluded(a, missed, found, report))
    BY <1>4, Zenon DEF Compare, Concluded
  <2>2. PICK r : r = Concluded(a, missed, found, report)
    OBVIOUS
  <2>3. /\ r.pc = "done" /\ r.task = s.task
        /\ r.missed = missed /\ r.found = found /\ r.report = report
    BY <2>2, ConcludedIs
  <2>4. Local(a, r)
    BY <2>1, <2>2, Zenon
  <2>5. Reports(r, kept[a])
    <3> SUFFICES ASSUME conn = "bound", s.task.compare, NEW e \in kept[a] \ s.task.baseline,
                        e[2] \notin missed
                 PROVE  Told(found, report, e)
      BY <2>3 DEF Reports, ScanStages
    <3>1. e \in SensitiveMembers(missed) \ s.task.baseline
      BY DEF ScanInv, SensitiveMembers
    <3>2. Drift("sensitive_group_change", e, 5, FALSE) \in Compared(a, missed)
      BY <3>1 DEF Compared, SensitiveGroupChanges
    <3> DEFINE d == Drift("sensitive_group_change", e, 5, FALSE)
    <3>3. report = found \/ Cardinality(report) = ReportLimit
      BY <2>1 DEF Listed, FirstOf
    <3>4. d \in found
      BY <2>1, <3>2
    <3>5. d \notin report => \A x \in report : Place(x.type) <= Place(d.type)
      BY <2>1, <3>4, Zenon DEF Listed
    <3>6. QED
      BY <3>3, <3>4, <3>5, Zenon DEF Told
  <2>6. QED
    BY <2>4, <2>5, StepReports DEF Local, KeptShrinks, outside, setup
<1>5. QED
  BY <1>2, <1>3, <1>4 DEF Scanning

LEMMA TakeReports ==
  ASSUME IInv, ScanInv, NEW a \in Agents, Take(a)
  PROVE  ScanInv'
<1> DEFINE t == Head(queue[a])
           todo == IF Begins(t) = "paths" THEN {t.group} ELSE {}
<1>1. PICK r : r = [Resting EXCEPT !.task = t, !.pc = Begins(t), !.todo = todo]
  BY Zenon
<1>2. r.pc = Begins(t) /\ r.task = t
  BY <1>1 DEF Resting
<1>3. agent' = [agent EXCEPT ![a] = r]
  BY <1>1, Zenon DEF Take
<1>4. (conn = "bound" /\ t.type = "run_drift_scan") => Begins(t) = "snapshot"
  BY DEF Begins, Stubs, NeedsGuard, NeedsClient, NeedsConnection, PathTasks, ExposureTasks,
         RiskTasks, ListTasks, KerberosTasks
<1>5. \A held : Reports(r, held)
  BY <1>2, <1>4 DEF Reports, ScanStages
<1>6. /\ \/ kept' = [kept EXCEPT ![a] = SensitiveEdges(Live(member))]
         \/ kept' = [kept EXCEPT ![a] = {}]
      /\ member' = member /\ bin' = bin /\ conn' = conn
  BY Zenon DEF Take, outside, setup
<1>7. \A b \in Agents : Reports(agent'[b], kept'[b])
  BY <1>3, <1>5, <1>6 DEF IInv, ScanInv
<1>8. \A b \in Agents : Reports(agent[b], kept[b])'
  BY <1>6, <1>7 DEF Reports, Told, Drift, Place
<1>9. QED
  BY <1>6, <1>8 DEF ScanInv, SensitiveEdges, Live

LEMMA RestReports ==
  ASSUME IInv, ScanInv, NEW a \in Agents, Answer(a) \/ Crash(a) \/ Raise(a)
  PROVE  ScanInv'
<1>1. KeptShrinks /\ agent' = [agent EXCEPT ![a] = Resting]
  BY DEF Answer, Crash, Raise, Local, KeptShrinks, outside, setup
<1>2. QED
  BY <1>1, IdleReports, StepReports

(* A step of the surroundings leaves the copies alone.                         *)
LEMMA OutsideReports ==
  ASSUME ScanInv, KeptShrinks, agent' = agent
  PROVE  ScanInv'
<1>1. /\ kept' = [b \in Agents |-> kept'[b]]
      /\ \A b \in Agents : kept'[b] \subseteq kept[b]
      /\ \A b \in Agents : kept'[b] \subseteq SensitiveEdges(Live(member))'
  BY KeptStays
<1>2. \A b \in Agents : Reports(agent[b], kept[b])'
  BY <1>1 DEF ScanInv, KeptShrinks, Reports, Told, Drift, Place
<1>3. QED
  BY <1>1, <1>2 DEF ScanInv

LEMMA EnvironmentReports ==
  ASSUME IInv, ScanInv, Environment
  PROVE  ScanInv'
<1>1. CASE \E a \in Agents : Crash(a) \/ Raise(a)
  BY <1>1, RestReports
<1>2. CASE \/ \E t \in Tasks : Send(t)
           \/ ScheduleScan
           \/ \E p \in Policies : EditPolicy(p)
           \/ Collect \/ BloodHoundChanges
  <2>1. KeptShrinks /\ agent' = agent
    BY <1>2 DEF Send, ScheduleScan, Deliver, EditPolicy, Collect, BloodHoundChanges, Administering,
                Refreshing, KeptShrinks, outside, setup
  <2>2. QED
    BY <2>1, OutsideReports
<1>3. CASE \/ \E e \in AdminEdges : AdminAdds(e) \/ AdminRemoves(e)
           \/ \E o \in AdminObjects : AdminDeletes(o)
  <2>1. KeptShrinks /\ agent' = agent
    BY <1>3 DEF AdminAdds, AdminRemoves, AdminDeletes, Administering, KeptShrinks, setup
  <2>2. QED
    BY <2>1, OutsideReports
<1>4. QED
  BY <1>1, <1>2, <1>3 DEF Environment

(* For any directory, any tasks, any number of copies and length of the list,  *)
(* a scan with a baseline and a bound client counts every membership that was  *)
(* added before it and stayed, in a group whose search did not fail, and lists  *)
(* it unless the list is full of drifts that come no later (_run_drift_scan).  *)
THEOREM ScansReport == Spec => []AdditionsAreReported
<1>1. Init => IInv /\ ScanInv
  <2> SUFFICES ASSUME Init PROVE ScanInv
    BY InitKeeps
  <2>1. \A a \in Agents : Reports(agent[a], kept[a])
    BY IdleReports DEF Init
  <2>2. QED
    BY <2>1 DEF Init, ScanInv
<1>2. IInv /\ ScanInv /\ [Next]_vars => ScanInv'
  <2> SUFFICES ASSUME IInv, ScanInv, [Next]_vars PROVE ScanInv'
    OBVIOUS
  <2>1. CASE Environment
    BY <2>1, EnvironmentReports
  <2>2. ASSUME NEW a \in Agents, Handler(a) PROVE ScanInv'
    BY <2>2, TakeReports, GuardingReports, WritingReports, ScanningReports, RestReports DEF Handler
  <2>3. CASE UNCHANGED vars
    BY <2>3, OutsideReports DEF vars, outside, setup, KeptShrinks
  <2>4. QED
    BY <2>1, <2>2, <2>3 DEF Next
<1>3. ScanInv => AdditionsAreReported
  BY DEF ScanInv, Reports, Told, AdditionsAreReported
<1>4. QED
  BY <1>1, <1>2, <1>3, NextKeeps, PTL DEF Spec
=============================================================================
