SPECIFICATION Spec
CONSTANTS
  d0 = d0
  d1 = d1
  d2 = d2
  t1 = t1
  t2 = t2
  Pids = {d0, d1, d2}
  Past = d0
  Commands = {t1, t2}
  Ops = {"start", "stop"}
  Latest = 2
  MaxCommands = 4
  MaxCrashes = 1
  MaxReuse = 1
INVARIANTS TypeOK SchemaOnce ReachableUnlessRaced OnlyLostPidsAreHit StatusTellsStop
PROPERTIES ProbeProtects
CHECK_DEADLOCK FALSE
