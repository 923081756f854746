\* Two evaluations at a time, one session at the edge, one SOT.
CONSTANTS
  Entities = {host}
  Handlers = {h1, h2}
  Bodies <- SomeBodies
  Sessions = {s1}
  Contexts <- SomeContexts
  Configs <- Both
  Tokens = {t1}
  Ttl = 1
  MaxTime = 1
SPECIFICATION Spec
INVARIANTS TaskIsCorroborated EdgeFailsClosed
PROPERTIES InactiveStaysInactive SotIsWatched
