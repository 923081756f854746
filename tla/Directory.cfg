SPECIFICATION Spec
CONSTANTS
  user = user
  group = group
  operators = operators
  admins = admins
  gpo = gpo
  Agents = {a1, a2}
  Objects <- MCObjects
  Tier0 = {admins}
  Sensitive = {operators}
  Idle = {user}
  Unmanaged = {}
  Policies = {gpo}
  Tasks <- MCAllTasks
  AdminObjects = {group}
  AdminEdges <- MCAdminEdges
  Members0 <- MCMembers0
  ReportLimit = 1
  ExposureLimit = 1
  MaxTasks = 2
  MaxChanges = 1
  MaxRefreshes = 1
SYMMETRY MCSymmetry
CHECK_DEADLOCK FALSE
INVARIANT VettedAddsOpenNoPath
INVARIANT AdditionsAreReported
