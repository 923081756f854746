\* One thread, kills between rewrites only: what README.md of the sentinel-machine
\* says of NATS being down.
CONSTANTS
  Threads = {main}
  NatsLoop = {}
  Records = {e1, e2}
  BusEnabled = TRUE
  KilledAnywhere = FALSE
SPECIFICATION Spec
INVARIANTS SentWasTaken
