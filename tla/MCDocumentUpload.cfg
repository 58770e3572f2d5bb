SPECIFICATION Spec
CONSTANTS
  App = {a1}
  Id = {d1, d2}
  Upload = {u1, u2}
  Size <- SmallFiles
  NoUrl = NoUrl
  Url = {NoUrl, l1}
  BadUrl = BadUrl
  Absent = Absent
  NoFile = NoFile
  Library = Library
SYMMETRY Symmetry
INVARIANTS
  PostingsHaveFiles
  SavedLinkWasStored
  NoOrphans
PROPERTY
  ImplementsDocumentContract
