\* Two concurrent Gets overrun max_active.
SPECIFICATION Spec
CONSTANTS
  Thread = {t1, t2}
  Block = {b1, b2, b3}
  NoBlock = NoBlock
  MaxActive = 2
  MaxIdle <- NUMBER_UNLIMITED
  IdleTimeout <- NUMBER_UNLIMITED
  MaxLife <- NUMBER_UNLIMITED
  MaxTime = 0
  TimeWrap = 16
  MonotoneClock = TRUE
INVARIANT ActiveCap
