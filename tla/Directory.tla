----------------------------- MODULE Directory ------------------------------
(* The AD agent (cortex_agents/agents/ad.py) with its BloodHound guard, LDAP  *)
(* client, verifier and drift detector, against a directory administrators    *)
(* change at the same time.  BloodHound and the directory are external: the   *)
(* one answers from its last collection or not at all, the other carries out  *)
(* a modification or refuses it.  An attack path is a chain of memberships.   *)
(*                                                                            *)
(* The subject of the agent is in no stream, so that its subscription is a    *)
(* plain one: every running copy gets every task (two of them during a        *)
(* rolling update), handles one at a time and forgets them when it dies.      *)
EXTENDS Naturals, Sequences, FiniteSets

CONSTANTS
  Agents,        \* running copies of the agent
  Objects,       \* DNs
  Tier0,         \* what BloodHound lists as tier zero
  Sensitive,     \* SENSITIVE_GROUPS
  Idle,          \* accounts whose last logon is older than STALE_USER_DAYS
  Unmanaged,     \* accounts without a manager or a department
  Policies,      \* GPOs, by display name
  Tasks,         \* the tasks that may be sent
  AdminEdges,    \* the memberships administrators change
  AdminObjects,  \* the objects they delete
  Members0,      \* the memberships at the start
  ReportLimit,   \* drifts an answer lists
  ExposureLimit, \* tier-zero assets an exposure looks at
  MaxTasks,      \* bound: tasks sent
  MaxChanges,    \* bound: changes administrators make
  MaxRefreshes   \* bound: changes of BloodHound

Edges == Objects \X Objects
None == "none"

ASSUME DirectoryAssumption ==
  /\ Tier0 \subseteq Objects /\ Sensitive \subseteq Objects
  /\ AdminEdges \subseteq Edges /\ AdminObjects \subseteq Objects /\ Members0 \subseteq Edges
  /\ ReportLimit \in Nat /\ ExposureLimit \in Nat
  /\ MaxTasks \in Nat /\ MaxChanges \in Nat /\ MaxRefreshes \in Nat

VARIABLES
  member,   \* memberships of the directory, of deleted objects too
  bin,      \* objects in the recycle bin
  edited,   \* GPOs edited since their expected version was taken
  graph,    \* the memberships of BloodHound's last collection
  up,       \* BloodHound answers
  guard,    \* the agent has a BloodHound token
  conn,     \* its LDAP client: "absent", "unbound" or "bound"
  queue,    \* tasks delivered to each copy
  agent,    \* what each copy is doing
  sent, changes, refreshes,
  known,    \* ghost: memberships BloodHound held at each question of every vetted addition
  ours,     \* ghost: the vetted additions, those the agent made on its answers
  kept      \* ghost: sensitive memberships held since each copy began its scan

outside == <<member, bin, edited, graph, up, changes, refreshes>>
setup == <<guard, conn>>
vetting == <<known, ours>>
vars == <<outside, setup, queue, agent, sent, vetting, kept>>

Live(E) == {e \in E : e[1] \notin bin /\ e[2] \notin bin}
ClosedUnder(E, S) == \A e \in E : e[1] \in S => e[2] \in S
\* o is or leads to t over the memberships E.
Reaches(E, o, t) ==
  \A S \in SUBSET Objects : (o \in S /\ ClosedUnder(E, S)) => t \in S

\* The first n of S, in an order of their own.
FirstOf(S, n) ==
  {F \in SUBSET S : Cardinality(F) <= n /\ (F # S => Cardinality(F) = n)}

-----------------------------------------------------------------------------
(* Task types by what their handlers do. *)
Stubs == {"create_user", "disable_account", "remove_from_group",
          "reset_password", "move_to_ou"}
PathTasks == {"get_attack_path", "answer_privilege_question"}
ExposureTasks == {"get_blast_radius", "visualize_exposure", "answer_exposure_question"}
RiskTasks == {"add_to_group", "validate_group_membership"}
ListTasks == {"get_object_acl", "get_deleted_objects", "dirsync_changes"}
KerberosTasks == {"create_service_account", "validate_service_account"}
\* Handlers that refuse without a guard, and without an LDAP client.
NeedsGuard(type) ==
  type \in PathTasks \cup ExposureTasks
           \cup {"get_tier0_assets", "validate_group_membership"}
NeedsClient(type) == type \in ListTasks \cup {"run_drift_scan"}
NeedsConnection(type) == type = "restore_deleted"

\* What a handler answers: whether the group's membership was seen afterwards, whether
\* a human is asked, and the mode the answer claims.
Reply(success, verified, approval, mode) ==
  [success |-> success, verified |-> verified, approval |-> approval, mode |-> mode]
ErrorResult == Reply(FALSE, FALSE, FALSE, "prepare")
NotImplemented == ErrorResult
AddBlocked(risk) == Reply(FALSE, FALSE, risk = 4, "execute")
Added(success, verified) == Reply(success, verified, FALSE, "execute")
Restored(success) == Reply(success, FALSE, FALSE, "prepare")
Scanned == Reply(TRUE, FALSE, FALSE, "prepare")
Asked == Reply(TRUE, FALSE, FALSE, "execute")
AttackPath == Asked
BlastRadius == Asked
TierZero == Asked
PrivilegeAnswer == Asked
Exposure == Asked
MembershipRisk(risk) == Reply(TRUE, FALSE, risk >= 4, "execute")
ServiceAccountPosture(risk) == Reply(TRUE, FALSE, risk >= 4, "execute")
\* Nothing is created: the account is only found fit.
ServiceAccount(long, etype) ==
  IF long /\ etype # 23 THEN Reply(TRUE, FALSE, FALSE, "prepare") ELSE ErrorResult
ObjectAcl(found) == Reply(found, FALSE, FALSE, "execute")
DeletedObjects == Asked
DirsyncChanges == Asked

\* snapshot is self._baseline, which outlives the scan but is read nowhere.  seen and
\* missed are ghosts: what BloodHound held at each question so far, and the groups
\* whose search failed.
Resting ==
  [pc |-> "idle", task |-> None, tier0 |-> "unasked", todo |-> {}, risk |-> 0, seen |-> Edges,
   tries |-> 0, snapshot |-> {}, missed |-> {}, found |-> {}, report |-> {},
   reply |-> ErrorResult]

Begins(t) ==
  CASE \/ t.type \in Stubs
       \/ NeedsGuard(t.type) /\ ~guard
       \/ NeedsClient(t.type) /\ conn = "absent"
       \/ NeedsConnection(t.type) /\ conn # "bound"        -> "done"
    [] t.type = "add_to_group" /\ ~guard                   -> "write"
    [] t.type \in PathTasks                                -> "paths"
    [] t.type \in RiskTasks \cup ExposureTasks \cup {"get_tier0_assets"} -> "tier0"
    [] t.type = "restore_deleted"                          -> "search"
    [] t.type = "run_drift_scan"                           -> "snapshot"
    [] t.type \in ListTasks                                -> "list"
    [] t.type \in KerberosTasks                            -> "kerberos"

Init ==
  /\ member = Members0 /\ graph \in SUBSET Members0
  /\ bin = {} /\ edited = {}
  /\ known = Edges /\ ours = {}
  /\ up \in BOOLEAN /\ guard \in BOOLEAN
  /\ conn \in {"absent", "unbound", "bound"}
  /\ ~guard => up /\ graph = {}   \* nobody asks: one BloodHound stands for all
  /\ queue = [a \in Agents |-> <<>>]
  /\ agent = [a \in Agents |-> Resting]
  /\ kept = [a \in Agents |-> {}]
  /\ sent = 0 /\ changes = 0 /\ refreshes = 0

-----------------------------------------------------------------------------
(* Tasks and copies of the agent. *)

SensitiveEdges(E) == {e \in E : e[2] \in Sensitive}
\* The members of the sensitive groups, one search a group: one that fails without
\* raising finds no group, as does a client that never bound.
SensitiveMembers(missed) ==
  IF conn = "bound" THEN {e \in SensitiveEdges(Live(member)) : e[2] \notin missed} ELSE {}

Deliver(t) ==
  /\ sent < MaxTasks
  /\ sent' = sent + 1
  /\ queue' = [a \in Agents |-> Append(queue[a], t)]
  /\ UNCHANGED <<outside, setup, agent, vetting, kept>>

\* A caller of the MCP server or an operator; a baseline is of the time it sends.
Send(t) ==
  Deliver([t EXCEPT !.baseline = IF t.compare THEN SensitiveEdges(Live(member)) ELSE {}])

\* The nightly scan of cortex-obs-agent, which sends neither baseline nor policies.
ScheduleScan ==
  Deliver([type |-> "run_drift_scan", object |-> None, group |-> None, parent |-> FALSE,
           compare |-> FALSE, baseline |-> {}, expected |-> {}])

Take(a) ==
  /\ agent[a].pc = "idle" /\ queue[a] # <<>>
  /\ LET t == Head(queue[a]) IN
       agent' = [agent EXCEPT ![a] =
         [Resting EXCEPT !.task = t, !.pc = Begins(t),
                         !.todo = IF Begins(t) = "paths" THEN {t.group} ELSE {}]]
  /\ queue' = [queue EXCEPT ![a] = Tail(@)]
  /\ kept' = [kept EXCEPT ![a] = IF agent'[a].pc = "snapshot" THEN SensitiveEdges(Live(member))
                                ELSE {}]
  /\ UNCHANGED <<outside, setup, sent, vetting>>

\* The result goes out on cortex.agents.tasks.ad.results.
Answer(a) ==
  /\ agent[a].pc = "done"
  /\ agent' = [agent EXCEPT ![a] = Resting] /\ kept' = [kept EXCEPT ![a] = {}]
  /\ UNCHANGED <<outside, setup, queue, sent, vetting>>

Crash(a) ==
  /\ agent[a].pc # "idle"
  /\ agent' = [agent EXCEPT ![a] = Resting] /\ kept' = [kept EXCEPT ![a] = {}]
  /\ queue' = [queue EXCEPT ![a] = <<>>]
  /\ UNCHANGED <<outside, setup, sent, vetting>>

\* A step of a that leaves the directory alone.
Local(a, state) ==
  /\ agent' = [agent EXCEPT ![a] = state]
  /\ UNCHANGED <<outside, setup, queue, sent, vetting, kept>>
\* The handler returns: its local variables are gone.
Done(a, reply) == [Resting EXCEPT !.pc = "done", !.task = agent[a].task, !.reply = reply]

\* The LDAP session is gone: the library raises and nothing is answered.
Raise(a) ==
  /\ conn = "bound"
  /\ agent[a].pc \in {"write", "verify", "search", "modify", "snapshot", "inspect",
                      "compare", "list"}
  /\ Local(a, Resting)

-----------------------------------------------------------------------------
(* The guard: one HTTP request at a time. *)

\* get_tier0_assets answers [] when the request fails.
TierZeroAssets == IF up THEN Tier0 ELSE {}
\* Mutant: a failed request counts as no path.
HasPathOpen(o, t) == up /\ Reaches(graph, o, t)

\* check_attack_path answers that there is a path when the request fails.
HasPath(o, t) == up => Reaches(graph, o, t)
PathRisk(o, t) == IF ~up THEN 3 ELSE IF Reaches(graph, o, t) THEN 5 ELSE 0

AskTierZero(a) ==
  LET t == agent[a].task
      asked == [agent[a] EXCEPT !.tier0 = IF up THEN "answered" ELSE "failed",
                                !.pc = "paths"] IN
  /\ agent[a].pc = "tier0"
  /\ \/ /\ t.type \in RiskTasks /\ t.group \in TierZeroAssets
        /\ Local(a, [asked EXCEPT !.risk = 5])
     \/ /\ t.type \in RiskTasks /\ t.group \notin TierZeroAssets
        /\ Local(a, [asked EXCEPT !.risk = 1, !.todo = TierZeroAssets])
     \/ /\ t.type = "get_tier0_assets"
        /\ Local(a, Done(a, TierZero))
     \/ /\ t.type \in ExposureTasks
        /\ \E assets \in FirstOf(TierZeroAssets, ExposureLimit) :
             Local(a, [asked EXCEPT !.todo = assets])

\* The membership check looks from the group and stops at the first path.
AskPath(a) ==
  \E x \in agent[a].todo :
    LET t == agent[a].task
        from == IF t.type \in RiskTasks THEN t.group ELSE t.object
        worst == IF PathRisk(from, x) > agent[a].risk THEN PathRisk(from, x)
                 ELSE agent[a].risk IN
    /\ agent[a].pc = "paths"
    /\ \/ /\ t.type \in RiskTasks /\ HasPath(from, x)
          /\ Local(a, [agent[a] EXCEPT !.risk = 4, !.todo = {}])
       \/ /\ t.type \in RiskTasks /\ ~HasPath(from, x)
          /\ Local(a, [agent[a] EXCEPT !.todo = @ \ {x}, !.seen = @ \cap graph])
       \/ /\ t.type \notin RiskTasks
          /\ Local(a, [agent[a] EXCEPT !.risk = worst, !.todo = @ \ {x}])

Conclusion(type, risk) ==
  CASE type = "add_to_group"              -> AddBlocked(risk)
    [] type = "validate_group_membership" -> MembershipRisk(risk)
    [] type = "get_attack_path"           -> AttackPath
    [] type = "get_blast_radius"          -> BlastRadius
    [] type = "visualize_exposure"        -> Exposure
    [] OTHER                              -> PrivilegeAnswer

Conclude(a) ==
  LET cleared == agent[a].task.type = "add_to_group" /\ agent[a].risk < 4 IN
  /\ agent[a].pc = "paths" /\ agent[a].todo = {}
  /\ \/ /\ cleared
        /\ Local(a, [agent[a] EXCEPT !.pc = "write"])
     \/ /\ ~cleared
        /\ Local(a, Done(a, Conclusion(agent[a].task.type, agent[a].risk)))

-----------------------------------------------------------------------------
(* Writing and verifying. *)

TheEdge(a) == <<agent[a].task.object, agent[a].task.group>>
StillKept == kept' = [a \in Agents |-> kept[a] \cap Live(member)']

\* MODIFY_ADD: refused for a member that is there already or an object that is not,
\* and for the directory's own reasons.
WriteMember(a) ==
  /\ agent[a].pc = "write" /\ conn = "bound"
  /\ TheEdge(a) \notin member /\ TheEdge(a) \in Live(Edges)
  /\ member' = member \cup {TheEdge(a)}
  /\ IF agent[a].tier0 = "answered"
     THEN ours' = ours \cup {TheEdge(a)} /\ known' = known \cap agent[a].seen
     ELSE UNCHANGED vetting
  /\ agent' = [agent EXCEPT ![a] = [@ EXCEPT !.pc = "verify"]]
  /\ UNCHANGED <<bin, edited, graph, up, changes, refreshes, setup, queue, sent>>
  /\ StillKept

WriteRefused(a) ==
  /\ agent[a].pc = "write"
  /\ Local(a, Done(a, Added(FALSE, FALSE)))

\* verify_group_membership: up to four looks, 2 to 30 s apart; the first that finds
\* the account decides.  A search may fail without raising and find nothing.
Verify(a) ==
  /\ agent[a].pc = "verify"
  /\ \/ /\ agent[a].task.object \notin bin
        /\ Local(a, Done(a, Added(TRUE, TheEdge(a) \in Live(member))))
     \/ /\ agent[a].tries < 3
        /\ Local(a, [agent[a] EXCEPT !.tries = @ + 1])
     \/ /\ agent[a].tries = 3
        /\ Local(a, Done(a, Added(TRUE, FALSE)))

\* restore_deleted: no guard; without a parent_dn nothing is written.
SearchDeleted(a) ==
  /\ agent[a].pc = "search"
  /\ \/ /\ agent[a].task.object \in bin /\ agent[a].task.parent
        /\ Local(a, [agent[a] EXCEPT !.pc = "modify"])
     \/ /\ agent[a].task.object \in bin /\ ~agent[a].task.parent
        /\ Local(a, Done(a, Restored(FALSE)))
     \/ Local(a, Done(a, ErrorResult))

RestoreObject(a) ==
  /\ agent[a].pc = "modify" /\ agent[a].task.object \in bin
  /\ bin' = bin \ {agent[a].task.object}
  /\ agent' = [agent EXCEPT ![a] = Done(a, Restored(TRUE))]
  /\ UNCHANGED <<member, edited, graph, up, changes, refreshes, setup, queue,
                 sent, vetting, kept>>

RestoreRefused(a) ==
  /\ agent[a].pc = "modify"
  /\ Local(a, Done(a, Restored(FALSE)))

-----------------------------------------------------------------------------
(* The drift scan: several searches, each of the directory as it then is.  One *)
(* that fails without raising ends with the pages it has; a client that never *)
(* bound finds nothing.                                                       *)

Drift(type, object, severity, fixable) ==
  [type |-> type, object |-> object, severity |-> severity, fixable |-> fixable]

Found(S) == IF conn = "bound" THEN SUBSET S ELSE {{}}
StaleAccounts(S) == {Drift("stale_account", o, 3, TRUE) : o \in S}
OrphanObjects(S) == {Drift("orphan_object", o, 2, TRUE) : o \in S}
SensitiveGroupChanges(baseline, missed) ==
  {Drift("sensitive_group_change", e, 5, FALSE) : e \in SensitiveMembers(missed) \ baseline}
GpoDrift(S) == {Drift("gpo_drift", p, 4, FALSE) : p \in S}

TakeSnapshot(a) ==
  /\ agent[a].pc = "snapshot"
  /\ \E missed \in SUBSET Sensitive :
       Local(a, [agent[a] EXCEPT !.pc = "inspect", !.snapshot = SensitiveMembers(missed)])

Inspect(a) ==
  /\ agent[a].pc = "inspect"
  /\ \E idle \in Found(Idle \ bin), unmanaged \in Found(Unmanaged \ bin) :
       Local(a, [agent[a] EXCEPT
                   !.pc = "compare", !.found = StaleAccounts(idle) \cup OrphanObjects(unmanaged)])

\* Mutant: the detector's own baseline, taken by the same scan.
ComparedToOwn(a, missed) ==
  IF agent[a].task.compare THEN SensitiveGroupChanges(agent[a].snapshot, missed) ELSE {}

Compared(a, missed) ==
  IF agent[a].task.compare THEN SensitiveGroupChanges(agent[a].task.baseline, missed) ELSE {}

\* The answer counts every drift and lists the first of them, in the order found.
Place(type) ==
  CASE type = "stale_account" -> 1 [] type = "orphan_object" -> 2
    [] type = "sensitive_group_change" -> 3 [] OTHER -> 4
Listed(found) ==
  {r \in FirstOf(found, ReportLimit) :
     \A d \in r, e \in found \ r : Place(d.type) <= Place(e.type)}

Compare(a) ==
  /\ agent[a].pc = "compare"
  /\ \E missed \in SUBSET Sensitive, policies \in Found(edited \cap agent[a].task.expected) :
       LET found == agent[a].found \cup Compared(a, missed) \cup GpoDrift(policies) IN
       \E report \in Listed(found) :
         Local(a, [Done(a, Scanned) EXCEPT !.missed = missed, !.found = found, !.report = report])

-----------------------------------------------------------------------------
(* Reads, and service accounts.  etype is the encryption of the ticket the    *)
(* KDC gives for the SPN, 0 when it gives none.                               *)

Listing(type, found) ==
  CASE type = "get_object_acl"      -> ObjectAcl(found)
    [] type = "get_deleted_objects" -> DeletedObjects
    [] OTHER                        -> DirsyncChanges

List(a) ==
  /\ agent[a].pc = "list"
  /\ \E found \in BOOLEAN :
       /\ found => conn = "bound"
       /\ Local(a, Done(a, Listing(agent[a].task.type, found)))

TicketRisk(etype) ==
  CASE etype = 0 -> 0 [] etype = 23 -> 5 [] etype = 18 -> 2 [] OTHER -> 3

CheckServiceAccount(a) ==
  /\ agent[a].pc = "kerberos"
  /\ \E long \in BOOLEAN, etype \in {0, 17, 18, 23} :
       Local(a, Done(a, IF agent[a].task.type = "create_service_account"
                        THEN ServiceAccount(long, etype)
                        ELSE ServiceAccountPosture(TicketRisk(etype))))

-----------------------------------------------------------------------------
(* Administrators and BloodHound. *)

Administering ==
  /\ changes < MaxChanges
  /\ changes' = changes + 1
  /\ UNCHANGED <<setup, queue, agent, sent, graph, up, refreshes, vetting>>

Refreshing ==
  /\ refreshes < MaxRefreshes
  /\ refreshes' = refreshes + 1
  /\ UNCHANGED <<setup, queue, agent, sent, changes, member, bin, edited,
                 vetting, kept>>

AdminAdds(e) ==
  /\ Administering
  /\ e \in AdminEdges \ member
  /\ member' = member \cup {e}
  /\ UNCHANGED <<bin, edited>>
  /\ StillKept

AdminRemoves(e) ==
  /\ Administering
  /\ e \in AdminEdges \cap member
  /\ member' = member \ {e}
  /\ UNCHANGED <<bin, edited>>
  /\ StillKept

AdminDeletes(o) ==
  /\ Administering
  /\ o \in Objects \ bin
  /\ bin' = bin \cup {o}
  /\ UNCHANGED <<member, edited>>
  /\ StillKept

EditPolicy(p) ==
  /\ Administering
  /\ p \in Policies \ edited
  /\ edited' = edited \cup {p}
  /\ UNCHANGED <<member, bin, kept>>

\* A collection of BloodHound.
Collect ==
  /\ Refreshing
  /\ graph # Live(member)
  /\ graph' = Live(member)
  /\ UNCHANGED up

BloodHoundChanges ==
  /\ Refreshing
  /\ up' = ~up
  /\ UNCHANGED graph

-----------------------------------------------------------------------------
Guarding(a) == AskTierZero(a) \/ AskPath(a) \/ Conclude(a)
Writing(a) ==
  \/ WriteMember(a) \/ WriteRefused(a) \/ Verify(a)
  \/ SearchDeleted(a) \/ RestoreObject(a) \/ RestoreRefused(a)
Scanning(a) == TakeSnapshot(a) \/ Inspect(a) \/ Compare(a)
Reading(a) == List(a) \/ CheckServiceAccount(a)
Handler(a) == Take(a) \/ Guarding(a) \/ Writing(a) \/ Scanning(a) \/ Reading(a) \/ Answer(a)

Environment ==
  \/ \E t \in Tasks : Send(t)
  \/ ScheduleScan
  \/ \E e \in AdminEdges : AdminAdds(e) \/ AdminRemoves(e)
  \/ \E o \in AdminObjects : AdminDeletes(o)
  \/ \E p \in Policies : EditPolicy(p)
  \/ Collect \/ BloodHoundChanges
  \/ \E a \in Agents : Crash(a) \/ Raise(a)

Next == Environment \/ \E a \in Agents : Handler(a)
Spec == Init /\ [][Next]_vars

-----------------------------------------------------------------------------
(* Every copy is in a stage its task type has, and the ghosts are memberships  *)
(* (ADAgent.execute).                                                          *)
TypeOK ==
  /\ member \subseteq Edges /\ graph \subseteq Edges
  /\ known \subseteq Edges /\ ours \subseteq Edges
  /\ bin \subseteq Objects /\ edited \subseteq Policies
  /\ \A a \in Agents :
       /\ agent[a].pc \in {"idle", "tier0", "paths", "write", "verify", "search", "modify",
                          "snapshot", "inspect", "compare", "list", "kerberos", "done"}
       /\ agent[a].todo \subseteq Objects /\ agent[a].risk \in 0..5
       /\ agent[a].seen \subseteq Edges /\ agent[a].report \subseteq agent[a].found
       /\ agent[a].snapshot \subseteq Edges /\ kept[a] \subseteq member

(* What several copies add on BloodHound's word leads nobody to tier zero over *)
(* memberships BloodHound knew of: although the answers come one by one and    *)
(* some not at all, and others write, delete and restore meanwhile, a path the *)
(* additions open has a membership that BloodHound did not hold at one of the  *)
(* questions asked for them - one it had not collected, which no check of the  *)
(* agent can see (check_group_membership_risk before _add_to_group).           *)
VettedAddsOpenNoPath ==
  LET held == Live(member) \cap known
      added == Live(member) \cap ours IN
  added # {} =>
    \A o \in Objects, t \in Tier0 : Reaches(held \cup added, o, t) => Reaches(held, o, t)

(* A member of a sensitive group that the caller's baseline does not have, and  *)
(* that stayed in the group while the scan ran, is counted in its answer, and   *)
(* listed there unless the list is full of drifts that are found no later, if   *)
(* the client is bound and the group's search did not fail (_run_drift_scan).   *)
AdditionsAreReported ==
  \A a \in Agents :
    (/\ agent[a].pc = "done" /\ agent[a].task.type = "run_drift_scan"
     /\ agent[a].task.compare /\ conn = "bound")
    => \A e \in kept[a] \ agent[a].task.baseline :
         LET d == Drift("sensitive_group_change", e, 5, FALSE) IN
         e[2] \notin agent[a].missed =>
           /\ d \in agent[a].found
           /\ \/ d \in agent[a].report
              \/ /\ Cardinality(agent[a].report) = ReportLimit
                 /\ \A x \in agent[a].report : Place(x.type) <= Place(d.type)
=============================================================================
