SPECIFICATION Spec
CONSTANTS
  old = old
  new1 = new1
  new2 = new2
  Process = {old, new1, new2}
  Known <- Releases
  Doc = {d1, d2}
  Missing = Missing
  MaxCrashes = 2
INVARIANT
  SchemaMatchesRecord
PROPERTIES
  ImplementsMigrationContract
  AllServe
CHECK_DEADLOCK FALSE
