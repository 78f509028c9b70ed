SPECIFICATION TracerSpec
CONSTANTS
  x = x
  e = e
  Axes = {x, e}
  HomeAxes = {x}
  Moves <- MCMoves
  nominal_rate = 3
  wait_rate = 4
  MINIMUM_STEPS_PER_MINUTE = 1
  rate_delta = 1
  TicksPerMinute = 1
  LedPeriod = 2
  Leftovers <- MCLeftovers
INVARIANTS OnTheLine ExactSteps TrapezoidShape RateWithinNominal
