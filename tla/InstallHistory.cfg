SPECIFICATION Spec
CONSTANTS
  t1 = t1
  t2 = t2
  Handlers = {t1, t2}
  Hashes = {"a", "b"}
  Hosts <- TwoHosts
  Short = {"short"}
  Files <- NoneOrOld
  Word = 16
  Retention = 2
  PerSecond = 2
  MaxClock = 2
  MaxStores = 2
  MaxCrashes = 1
SYMMETRY Threads
INVARIANT StoredIsFound
CHECK_DEADLOCK FALSE
