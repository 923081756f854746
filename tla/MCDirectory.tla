---------------------------- MODULE MCDirectory -----------------------------
(* A small instance of Directory: an account, a group, a sensitive group and  *)
(* a tier-zero one, and one task of every kind the handlers tell apart.       *)
EXTENDS Directory, TLC

CONSTANTS user, group, operators, admins, gpo

MCObjects == {user, group, operators, admins}
Task(type, object, target) ==
  [type |-> type, object |-> object, group |-> target, parent |-> TRUE,
   compare |-> FALSE, baseline |-> {}, expected |-> {}]
MCTasks ==
  {Task("add_to_group", user, group), Task("add_to_group", group, operators),
   Task("restore_deleted", group, None),
   [Task("restore_deleted", group, None) EXCEPT !.parent = FALSE],
   [Task("run_drift_scan", None, None) EXCEPT !.compare = TRUE, !.expected = {gpo}]}
MCReads ==
  {Task("validate_group_membership", user, admins), Task("get_blast_radius", user, None),
   Task("get_tier0_assets", None, None), Task("get_object_acl", user, None),
   Task("create_service_account", user, None)}
MCAllTasks == MCTasks \cup MCReads
MCAdminEdges == {<<user, operators>>, <<operators, admins>>}
MCSymmetry == Permutations(Agents)
MCMembers0 == {<<operators, admins>>}
=============================================================================
