\* Get refuses although a connection is idle.
SPECIFICATION Spec
CONSTANTS
  Thread = {t1}
  Block = {b1, b2, b3}
  NoBlock = NoBlock
  MaxActive = 2
  MaxIdle <- NUMBER_UNLIMITED
  IdleTimeout <- NUMBER_UNLIMITED
  MaxLife <- NUMBER_UNLIMITED
  MaxTime = 0
  TimeWrap = 16
  MonotoneClock = TRUE
PROPERTY RefusesOnlyWhenEmpty
