SPECIFICATION LiveSpec
CONSTANTS
  c1 = c1
  c2 = c2
  s1 = s1
  s2 = s2
  Conns <- TwoConns
  Shards <- TwoShards
  Pool = Pool
  MayDie <- TwoShards
  Layouts <- SomeLayouts
INVARIANTS PermitsExact LoadsExact
PROPERTIES ReadyNeverTurnsDeaf BootReturns DrainEmpties
CHECK_DEADLOCK FALSE
