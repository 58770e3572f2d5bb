SPECIFICATION Spec
CONSTANTS
  App = {a1}
  Status = {prospect, applied}
  NextAction = {none, call}
  Request = {r1, r2}
  Absent = Absent
  MaxClock = 1
  MaxEvents = 2
SYMMETRY Symmetry
INVARIANTS
  TimelineTellsStatus
  PageExplainsStatus
