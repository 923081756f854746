\* The main loop, a gRPC worker and the NATS loop thread, killed anywhere.
CONSTANTS
  Threads = {main, grpc, nats}
  NatsLoop = {nats}
  Records = {e1, e2}
  BusEnabled = TRUE
  KilledAnywhere = TRUE
SPECIFICATION Spec
SYMMETRY Symmetry
INVARIANTS SentWasTakenWhileUp
