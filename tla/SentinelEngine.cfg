\* The packaged image; iptables may fail at each command, as it does in the chart.
CONSTANTS
  Packaged = TRUE
  MaxRestores = 2
SPECIFICATION Spec
INVARIANTS EscalatedUnderSot OneSotPerRestore HeavyIsWeighed
PROPERTIES QuarantineHolds
