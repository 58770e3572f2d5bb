SPECIFICATION Spec
CONSTANTS
  App = {a1}
  Id = {d1}
  Upload = {u1}
  Size <- SmallFiles
  NoUrl = NoUrl
  Url = {NoUrl}
  BadUrl = BadUrl
  Absent = Absent
  NoFile = NoFile
  Library = Library
SYMMETRY Symmetry
INVARIANTS
  FailureMeansNotSaved
