\* max_active and max_idle under contention; no timeouts.
SPECIFICATION Spec
CONSTANTS
  Thread = {t1, t2, t3}
  Block = {b1, b2, b3, b4, b5}
  NoBlock = NoBlock
  MaxActive = 2
  MaxIdle = 2
  IdleTimeout <- NUMBER_UNLIMITED
  MaxLife <- NUMBER_UNLIMITED
  MaxTime = 0
  TimeWrap = 16
  MonotoneClock = TRUE
SYMMETRY Symmetry
INVARIANTS TypeOK SingleOwner NothingLost ActiveCountExact IdleCap OvershootBound
