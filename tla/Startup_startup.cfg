SPECIFICATION FairStartup
CONSTANTS
  a = a
  b = b
  old = old
  Coordinators = {a, b, old}
  MaxVersion = 3
  Newest <- MCNewest
  Disk <- MCDisk
  Checksums = {"released", "edited"}
  Demo = {b}
  MaxFaults = 2
  NotApplied = NotApplied
INVARIANTS MigrationsRunOnceInOrder ServedSchemaIsOwn
PROPERTIES AgreeingCoordinatorsServe
