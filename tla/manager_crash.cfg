\* Two threads ask for the same database of the slaves.
SPECIFICATION Spec
CONSTANTS
  t1 = t1
  t2 = t2
  a1 = a1
  a2 = a2
  Thread = {t1, t2}
  DB = {0, 1}
  Addr = {a1, a2}
  NoAddr = NoAddr
  Pool = {p1, p2, p3, p4}
  NoPool = NoPool
  Garbage = Garbage
  Array = {r1, r2}
  NoArray = NoArray
  MaxSlaveCnt = 3
  SlaveLists <- TwoSlaves
  ConnLimit = 1
  Uses <- SharedSlave
  FlushAfter = {"bad host"}
SYMMETRY Symmetry
INVARIANT MemorySafe
CHECK_DEADLOCK FALSE
