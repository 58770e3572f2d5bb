SPECIFICATION Spec
CONSTANTS
  Session = {s1}
  Request = {r1, r2, r3}
  Idle = 2
  Absolute = 3
  MaxClock = 3
  None = None
SYMMETRY Symmetry
INVARIANTS
  LogoutIsFinal
  LifetimeBounded
  NoIdleGap
  GrantedWasTouched
PROPERTIES
  EndedRowsAreFrozen
  ImplementsContract
