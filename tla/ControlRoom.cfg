\* Thirteen loads, each of one kind of trouble.  The thresholds of the correlation are in the
\* order of the code and smaller; the feed keeps two events and the window three signals.
CONSTANTS
  Requests <- MCRequests
  Modes <- MCModes
  Sources = {"ad"}
  Durable = TRUE
  TicksPerSecond = 2
  Posts = {p1, p2, p3}
  MetaPosts = {p3}
  LogPath = TRUE
  ProbeOrder <- MCProbeOrder
  Entities = {e1, e2}
  StreamLists <- MCStreamLists
  FeedSize = 2
  WindowSize = 3
  TaskSignals = 2
  CorrelateFrom = 1
  AnomalousRatio = 2
  CriticalRatio = 3
  TrustEngine = "cortex-trust-engine"
  Envoy = "cortex-envoy"
  Approvals = {0}
  Surfaces <- MCSurfaces
  Loads <- MCLoads
  Fingerprints <- MCFingerprints
  Ages <- MCAges
  Pauses = {15}
  Staff = {u}
  Conducts <- MCConducts
  Reviews <- MCReviews
  HistoryWindow = 4
  Deeds <- MCDeeds
  Chains <- MCChains
  Targets <- MCTargets
  AuditEvents <- MCAuditEvents
  Filters <- MCFilters
  Limits = {1, 2, 30}
  AuditModes = {TRUE, FALSE}
SPECIFICATION Spec
CHECK_DEADLOCK FALSE
INVARIANT SessionsAreShown
INVARIANT AnsweredIsHeld
INVARIANT TasksAreAnnounced
INVARIANT AccumulationReachesSentinel
INVARIANT SuspicionIsCorroborated
PROPERTY HealthConverges
