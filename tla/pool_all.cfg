\* Every option set, a clock that may step back; calls in progress are scheduled.
SPECIFICATION FairSpec
CONSTANTS
  Thread = {t1, t2}
  Block = {b1, b2}
  NoBlock = NoBlock
  MaxActive = 2
  MaxIdle = 1
  IdleTimeout = 1
  MaxLife = 2
  MaxTime = 2
  TimeWrap = 16
  MonotoneClock = FALSE
INVARIANTS SingleOwner NothingLost InUseAtRest
PROPERTIES CallsReturn KeepsContract
