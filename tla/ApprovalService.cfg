\* With rows: two handlers on one request of either risk; the deadline of risk 5 passes
\* at 1, that of risk 4 at 2, and the clock goes past both.  Without: any handlers.
CONSTANTS
  Requests = {r1}
  Tasks = {t1, t2}
  Window4 = 2
  Window5 = 1
  MaxTime = 3
  MaxClock = 4
  MaxCalls = 3
SPECIFICATION ServiceSpec
SYMMETRY Symmetry
INVARIANTS TypeOK ApprovedByQuorum RowIsCoherent DecidedInTime
PROPERTIES SettledIsFinal ImplementsLedger
