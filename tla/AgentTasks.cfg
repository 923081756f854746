\* One task of a producer, one caller outside the agents that may call again under the
\* same name or under none, on the stream of Sentinel.  The system rests when both are
\* done.
CONSTANTS
  Tasks = {t1}
  Operators = {op}
  Names = {r}
  Durable <- SentinelStream
  DeployedIn <- Deployments
  Tools = {"rehearse", "assess"}
  MaxCalls = 2
  MaxMessages = 3
SPECIFICATION Spec
INVARIANTS AnswerFitsQuestion UnansweredIsStored
CHECK_DEADLOCK FALSE
