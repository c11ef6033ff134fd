SPECIFICATION Spec
CONSTANTS
  c1 = c1
  c2 = c2
  c3 = c3
  t1 = t1
  t2 = t2
  Workers = {t1, t2}
  Conns = {c1, c2, c3}
  Scripts <- ServingScripts
  KeepAliveMax = 2
  Attempts = 2
  Size = 4
  Word = 64
  HeadSize = 1
  Overhead = 2
  MaxGen = 2
  MaxNaps = 1
  Nobody = Nobody
INVARIANTS
  ClientNotStranded
  KeptAliveIsFramed
  AsksForTheRange
  ListenLeavesNothing
PROPERTY
  StopEnds
CHECK_DEADLOCK FALSE
