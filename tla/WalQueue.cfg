\* One thread uses the queue and the process is never killed inside a rewrite.
CONSTANTS
  Threads = {main}
  NatsLoop = {}
  Records = {e1, e2, e3}
  BusEnabled = TRUE
  KilledAnywhere = FALSE
SPECIFICATION Spec
PROPERTIES ImplementsOutbox PendingIsPublished
