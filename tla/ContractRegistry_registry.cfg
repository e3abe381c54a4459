SPECIFICATION Spec
CONSTANTS
  c1 = c1
  c2 = c2
  Contracts = {c1, c2}
  LastRevision = 3
  MaxRevision <- ThreeRevisions
  Declared = {"NONE"}
  Consumed <- EarlyRows
  Commits = {k1}
  SchemasOf <- Varied
  Names = {"q", "b"}
  Params = {"q"}
  Types = {"int"}
  Values = {0, 1}
  Floors = {0, 1}
  Statuses = {200}
  Grants = {"key", "token"}
  Absent = Absent
  NoRow = NoRow
  Tombstone = Tombstone
  NoContract = NoContract
INVARIANTS CallersAreWarned NewestIsActive ReplacementsAreAcyclic BoundRowsAreConfirmed
CHECK_DEADLOCK FALSE
