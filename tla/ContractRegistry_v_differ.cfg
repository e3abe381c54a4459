SPECIFICATION Spec
CONSTANTS
  c1 = c1
  c2 = c2
  Contracts = {c1}
  LastRevision = 2
  MaxRevision <- TwoRevisions
  Declared = {"NONE", "NON_BREAKING", "REVIEW_REQUIRED", "BREAKING"}
  Consumed = {}
  Commits = {k1}
  SchemasOf <- Any
  Names = {"q", "b"}
  Params = {"q"}
  Types = {"int"}
  Values = {0, 1}
  Floors = {0, 1}
  Statuses = {200}
  Grants = {"key", "token"}
  Absent = Absent
  NoRow = NoRow
  Tombstone = Tombstone
  NoContract = NoContract
INVARIANT UnknownChangesAreReviewed
CHECK_DEADLOCK FALSE
