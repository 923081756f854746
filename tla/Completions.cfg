\* Two users send three requests, on one session or none, or one beside an analysis of
\* the decision agent; one external provider has a key.  The system rests when all are
\* answered.
CONSTANTS
  Users = {u1, u2}
  Sessions <- MCSessions
  Menu <- MCMenuOne
  Phi3Types <- MCPhi3
  Contexts <- MCContexts
  Keys = {"anthropic"}
  Budgets <- MCBudgets
SPECIFICATION CompletionsSpec
CHECK_DEADLOCK FALSE
INVARIANT TurnsArePaired
INVARIANT OneFailureIsAbsorbed
INVARIANT CommitteeIsPlural
PROPERTY SettledGrows
PROPERTY RequestsEnd
